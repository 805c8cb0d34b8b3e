---------------------------- MODULE RemoteBodies ----------------------------
(***************************************************************************)
(* The bodies WorldSystem (src/client/WorldSystem.cpp) gives to remote     *)
(* players: m_bodies, the pump that each multiplayer tick runs over it,    *)
(* the switch of the body kind from the console, and the world that comes  *)
(* and goes.  The entities themselves live in the game's entity system,    *)
(* which is outside: it makes one or refuses to, deletes one or fails to,  *)
(* and all of them die with the world.                                     *)
(*                                                                         *)
(* The pump runs on a tick thread and the switch on the script's, without  *)
(* a lock between them: the steps of one come between those of the other.  *)
(*                                                                         *)
(* What the network thread does to m_events and m_remote is NetClient;     *)
(* here joins, leaves and snapshots arrive in any order.  What a snapshot  *)
(* says, its tick included, is Interpolation; here a player has one or not.*)
(***************************************************************************)
EXTENDS Naturals, Sequences

CONSTANTS
    Player,         \* ids of remote players
    MaxConn,        \* bound: connections
    MaxEvents,      \* bound: joins and leaves queued
    MaxEntity       \* bound: entities created

ASSUME BoundAssumption  ==
    MaxConn \in Nat /\ MaxEvents \in Nat /\ MaxEntity \in Nat

VARIABLES
    attached,   \* m_worldAttached; the entity system answers while it holds
    bodies,     \* m_bodies: player -> [entity, requested]
    events,     \* NetClient::m_events: [joined, id]
    remote,     \* NetClient::m_remote: the players it holds a snapshot of
    conn,       \* connections so far
    pump,       \* where PumpRemotePlayers is
    copied,     \* the players it has still to visit of m_snapshotBuffer
    system,     \* whether the entity system it got is of this world
    creating,   \* the player it is creating an entity for
    inHand,     \* the player whose entity SetBodyKind has deleted and whose
                \* body it has not yet reset, 0 if there is none
    entities,   \* the entity system: entity -> [player, lost], where
                \* lost records that its deletion failed, or that SetBodyKind
                \* was resetting its body as it was made
    lastEntity, \* the newest entity's id, 0 before the first
    present     \* record: the players announced and not announced to have left
                \* since; those that have a body when a connection begins count
                \* as announced

pumping == <<pump, copied, system, creating>>
client  == <<bodies, pumping, inHand>>
world   == <<attached, entities, lastEntity>>
net     == <<events, remote, conn, present>>
vars    == <<client, world, net>>

Joined(i) == [joined |-> TRUE, id |-> i]
Left(i)   == [joined |-> FALSE, id |-> i]

NoBody == [entity |-> 0, requested |-> FALSE]

With(f, i, x) == [j \in DOMAIN f \cup {i} |-> IF j = i THEN x ELSE f[j]]

Init ==
    /\ attached = TRUE /\ entities = <<>> /\ lastEntity = 0
    /\ bodies = <<>> /\ pump = "idle" /\ copied = {} /\ system = FALSE /\ creating = 0
    /\ inHand = 0
    /\ events = <<>> /\ remote = {} /\ conn = 1 /\ present = {}

-----------------------------------------------------------------------------
(* The connection.                                                         *)

ReceiveJoined(i) ==
    /\ Len(events) < MaxEvents
    /\ events' = Append(events, Joined(i))
    /\ present' = present \cup {i}
    /\ UNCHANGED <<client, world, remote, conn>>

ReceiveLeft(i) ==
    /\ Len(events) < MaxEvents
    /\ events' = Append(events, Left(i))
    /\ remote' = remote \ {i}
    /\ present' = present \ {i}
    /\ UNCHANGED <<client, world, conn>>

\* Its first snapshot, or a newer one in its place.
ReceiveState(i) ==
    /\ remote' = remote \cup {i}
    /\ UNCHANGED <<client, world, events, conn, present>>

\* Disconnect and Connect, perhaps to another server: see NetClient.  Neither
\* touches m_bodies.
Reconnect ==
    /\ conn < MaxConn
    /\ conn' = conn + 1
    /\ events' = <<>> /\ remote' = {}
    /\ present' = DOMAIN bodies
    /\ UNCHANGED <<client, world>>

-----------------------------------------------------------------------------
(* The world.                                                              *)

\* Entities die with the world, and m_bodies is left as it is.
OnWorldDetached ==
    /\ attached
    /\ attached' = FALSE
    /\ entities' = <<>>
    /\ system' = FALSE
    /\ UNCHANGED <<bodies, pump, copied, creating, inHand, lastEntity, net>>

OnWorldAttached ==
    /\ ~attached
    /\ attached' = TRUE
    /\ UNCHANGED <<client, entities, lastEntity, net>>

\* (mutated) The entities of those who leave are forgotten.
DestroyNone(es) == UNCHANGED entities

\* DestroyBodyEntity on each entity of a set: without a world there is none to
\* delete, and without the entity system, or when DeleteEntity fails, one that
\* lives goes on living.  No caller looks at the result.
Destroy(es) ==
    \E dead \in SUBSET (es \cap DOMAIN entities) :
       entities' = [e \in DOMAIN entities \ dead |->
                      IF e \in es THEN [entities[e] EXCEPT !.lost = TRUE] ELSE entities[e]]

-----------------------------------------------------------------------------
(* PumpRemotePlayers.                                                      *)

\* (mutated) Joins first, then leaves.
MembersJoinsFirst ==
    LET ids(joined) == {events[k].id : k \in {m \in DOMAIN events : events[m].joined = joined}}
    IN  (DOMAIN bodies \cup ids(TRUE)) \ ids(FALSE)

\* Whether i leaves behind the k-th of the queued events.
LeavesAfter(i, k) == \E m \in DOMAIN events : m > k /\ events[m] = Left(i)

\* Whose bodies there are once the queued events are worked through in order.
Members ==
    {i \in Player :
        \/ i \in DOMAIN bodies /\ ~LeavesAfter(i, 0)
        \/ \E k \in DOMAIN events : events[k] = Joined(i) /\ ~LeavesAfter(i, k)}

\* The bodies these events erase, also when the player comes back at once.
Erased == {i \in DOMAIN bodies : LeavesAfter(i, 0)}

\* The bodies that have come since.
Kept == DOMAIN bodies \ Erased
Made == Members \ Kept

\* The body SetBodyKind has in hand, if it is erased, is freed memory, which a
\* body made in this step may have taken.
InHandAfter == IF inHand \in Erased THEN {0} \cup Made ELSE {inHand}

\* All the queued events, in one step.
TakeEvents ==
    /\ pump = "idle"
    /\ bodies' = [i \in Members |-> IF i \in Kept THEN bodies[i] ELSE NoBody]
    /\ Destroy({bodies[i].entity : i \in Erased})
    /\ events' = <<>>
    /\ pump' = IF Members = {} THEN "idle" ELSE "copy"
    /\ inHand' \in InHandAfter
    /\ UNCHANGED <<copied, system, creating, attached, lastEntity>>
    /\ UNCHANGED <<remote, conn, present>>

\* Without the entity system every snapshot is passed over, and one of a player
\* without a body in any case: the map changes in TakeEvents only.
CopyRemoteSnapshots ==
    /\ pump = "copy"
    /\ system' \in {FALSE, attached}
    /\ copied' = IF system' THEN remote \cap DOMAIN bodies ELSE {}
    /\ pump' = "visit"
    /\ UNCHANGED <<bodies, creating, inHand, world, net>>

Visit(i) ==
    /\ pump = "visit" /\ i \in copied
    /\ copied' = copied \ {i}
    /\ UNCHANGED <<system, inHand, world, net>>

\* The world is gone meanwhile; or the entity was asked for: it is not there
\* yet, or it is and the snapshot is for Interpolation to use.
Pass(i) ==
    /\ Visit(i)
    /\ system => bodies[i].requested
    /\ UNCHANGED <<bodies, pump, creating>>

\* (mutated) A body without an entity is passed over before the flag is read.
RequestBehind(i) ==
    /\ Visit(i)
    /\ system /\ ~bodies[i].requested
    /\ IF bodies[i].entity = 0
       THEN UNCHANGED <<bodies, pump, creating>>
       ELSE /\ bodies' = [bodies EXCEPT ![i].requested = TRUE]
            /\ creating' = i
            /\ pump' = "create"

\* The first snapshot asks for an entity: the flag is set before all that can
\* fail, and the entity is entered when CreateEntity has returned.
Request(i) ==
    /\ Visit(i)
    /\ system /\ ~bodies[i].requested
    /\ bodies' = [bodies EXCEPT ![i].requested = TRUE]
    /\ creating' = i
    /\ pump' = "create"

Create ==
    /\ pump = "create" /\ system
    /\ lastEntity < MaxEntity
    /\ lastEntity' = lastEntity + 1
    /\ entities' = With(entities, lastEntity',
           [player |-> creating, lost |-> inHand = creating \/ ~bodies[creating].requested])
    /\ bodies' = [bodies EXCEPT ![creating].entity = lastEntity']
    /\ creating' = 0
    /\ pump' = "visit"
    /\ UNCHANGED <<copied, system, inHand, attached, net>>

\* No spec, a property missing, an unknown record, or the world is gone.
CreateFails ==
    /\ pump = "create"
    /\ creating' = 0
    /\ pump' = "visit"
    /\ UNCHANGED <<bodies, copied, system, inHand, world, net>>

PumpDone ==
    /\ pump = "visit" /\ copied = {}
    /\ pump' = "idle"
    /\ system' = FALSE
    /\ UNCHANGED <<bodies, copied, creating, inHand, world, net>>

Pump ==
    \/ TakeEvents
    \/ CopyRemoteSnapshots
    \/ \E i \in copied : Pass(i) \/ Request(i)
    \/ Create
    \/ CreateFails
    \/ PumpDone

-----------------------------------------------------------------------------
(* The console.                                                            *)

\* SetBodyKind comes to a body.  The pump may change the map under its loop,
\* which then passes over bodies or comes upon others, and the command can be
\* given again at once: which body is next is left open.
SetBodyKind(i) ==
    /\ inHand = 0 /\ i \in DOMAIN bodies
    /\ Destroy({bodies[i].entity})
    /\ inHand' = i
    /\ UNCHANGED <<bodies, pumping, attached, lastEntity, net>>

\* The entry is reset and not erased: no join would bring it back.
ResetBody ==
    /\ inHand # 0
    /\ bodies' = [bodies EXCEPT ![inHand] = NoBody]
    /\ inHand' = 0
    /\ UNCHANGED <<pumping, world, net>>

Console == (\E i \in Player : SetBodyKind(i)) \/ ResetBody

Network ==
    \/ \E i \in Player : ReceiveJoined(i) \/ ReceiveLeft(i) \/ ReceiveState(i)
    \/ Reconnect

World == OnWorldDetached \/ OnWorldAttached

Next == Network \/ World \/ Pump \/ Console

Spec == Init /\ [][Next]_vars

\* Frames go on.
FairSpec == Spec /\ WF_vars(Pump)

-----------------------------------------------------------------------------
(* Properties.                                                             *)

\* The values the variables may take; m_bodies keeps the entry for which the
\* pump is creating an entity.
TypeOK ==
    /\ attached \in BOOLEAN /\ system \in BOOLEAN /\ (system => attached)
    /\ DOMAIN bodies \subseteq Player
    /\ \A i \in DOMAIN bodies :
          bodies[i] \in [entity: 0 .. lastEntity, requested: BOOLEAN]
    /\ events \in Seq([joined: BOOLEAN, id: Player])
    /\ pump \in {"idle", "copy", "visit", "create"}
    /\ copied \subseteq DOMAIN bodies
    /\ pump = "create" => creating \in DOMAIN bodies
    /\ inHand \in {0} \cup DOMAIN bodies
    /\ DOMAIN entities \subseteq 1 .. lastEntity

\* Every entity in the world is the one its player's body knows: whatever
\* comes and goes while it is being created, it is moved and can be deleted.
\* "Their own lifetime, tied to a player" (WorldSystem.cpp).  Exceptions are an
\* entity whose deletion failed, and one that was made while SetBodyKind was at
\* the body it is for; at any other point of a frame SetBodyKind does no harm.
NoOrphan ==
    \A e \in DOMAIN entities :
       LET i == entities[e].player
       IN  entities[e].lost \/ (i \in DOMAIN bodies /\ bodies[i].entity = e)

\* With the queue worked through, there are bodies for exactly the players
\* that, in the order of arrival, joined and did not leave, those of earlier
\* connections included: a reconnect clears no body, so that only a leave with
\* its id, if the new server ever sends one, takes such a body away.
BodiesArePresent ==
    events = <<>> => DOMAIN bodies = present

\* A player that left does not stand on: its entity goes, unless it could not
\* be deleted or SetBodyKind lost it.  Said of the last connection: a reconnect
\* throws the leaves away that no tick has taken.
LeaversGo ==
    \A i \in Player :
       (conn = MaxConn /\ \E k \in DOMAIN events : events[k] = Left(i))
          ~> \A e \in DOMAIN entities : entities[e].player = i => entities[e].lost

\* A player that joined and is heard from is given an entity, or it was tried,
\* or a frame found no entity system.
JoinersAppear ==
    \A i \in Player :
       (i \in DOMAIN bodies /\ i \in remote /\ attached)
          ~> \/ i \in DOMAIN bodies => bodies[i].requested
             \/ i \notin remote \/ ~attached
             \/ pump = "visit" /\ ~system

\* "Entities die with the world, so keeping their ids would only leak stale
\* ones" (WorldSystem.cpp): a body's entity is one the entity system knows,
\* but for the body that SetBodyKind is about to reset.
NoStaleIds ==
    \A i \in DOMAIN bodies \ {inHand} :
       bodies[i].entity # 0 => bodies[i].entity \in DOMAIN entities
=============================================================================
