--------------------------- MODULE SpawnRegistry ---------------------------
(***************************************************************************)
(* The registry of the entities that the console commands spawn            *)
(* (WorldSystem.cpp): SpawnProp and SpawnNpc create an entity and enter it *)
(* in m_spawned, DespawnAll takes all of m_spawned and deletes it, and the *)
(* end of the world empties it.  m_spawnedMutex is held for the single     *)
(* access only, so commands of several threads, the end of a world and the *)
(* start of the next one fall between the steps of a command.              *)
(*                                                                         *)
(* The game and its DynamicEntitySystem are external: it is there only     *)
(* while the world is, creates an entity or refuses to, deletes one that   *)
(* lives or fails to, and never gives an id twice.  The order of m_spawned *)
(* is left out.                                                            *)
(***************************************************************************)
EXTENDS Naturals, FiniteSets

CONSTANTS
    Caller,     \* threads that run commands
    MaxEntity   \* bound: entities created in all

ASSUME MaxEntityAssumption == MaxEntity \in Nat

Entity == 1 .. MaxEntity

VARIABLES
    world,          \* game: whether there is a world
    alive,          \* game: the entities that live
    created,        \* game: the entities created so far
    worldAttached,  \* m_worldAttached
    spawned,        \* m_spawned
    pc,             \* caller -> "idle", "track", "system" or "delete"
    hands,          \* caller -> the new entityID, or what is left of pending
    deletes,        \* record: entity -> calls of DeleteEntity with it
    lost            \* record: entities that lived when DespawnAll reported an
                    \* error of the game and forgot their ids

registryVars ==
    <<world, alive, created, worldAttached, spawned, pc, hands, deletes, lost>>

game == <<world, alive, created>>

RegistryInit ==
    /\ world = FALSE /\ alive = {} /\ created = 0
    /\ worldAttached = FALSE
    /\ spawned = {}
    /\ pc = [c \in Caller |-> "idle"]
    /\ hands = [c \in Caller |-> {}]
    /\ deletes = [e \in Entity |-> 0]
    /\ lost = {}

-----------------------------------------------------------------------------
(* The world.                                                              *)

OnWorldAttached ==
    /\ ~worldAttached
    /\ world' = TRUE
    /\ worldAttached' = TRUE
    /\ UNCHANGED <<alive, created, spawned, pc, hands, deletes, lost>>

\* "Entities die with the world."
WorldEnds ==
    /\ world /\ worldAttached
    /\ world' = FALSE
    /\ alive' = {}
    /\ UNCHANGED <<created, worldAttached, spawned, pc, hands, deletes, lost>>

OnWorldDetached ==
    /\ ~world /\ worldAttached
    /\ worldAttached' = FALSE
    /\ spawned' = {}
    /\ UNCHANGED <<game, pc, hands, deletes, lost>>

-----------------------------------------------------------------------------
(* SpawnProp and SpawnNpc.                                                 *)

\* The spec is built and CreateEntity called.  A spec that cannot be built, a
\* call that fails and a null id end the command and change nothing.
SubmitSpec(c) ==
    /\ pc[c] = "idle" /\ world /\ created < MaxEntity
    /\ created' = created + 1
    /\ alive' = alive \cup {created + 1}
    /\ pc' = [pc EXCEPT ![c] = "track"]
    /\ hands' = [hands EXCEPT ![c] = {created + 1}]
    /\ UNCHANGED <<world, worldAttached, spawned, deletes, lost>>

TrackSpawned(c) ==
    /\ pc[c] = "track"
    /\ spawned' = spawned \cup hands[c]
    /\ pc' = [pc EXCEPT ![c] = "idle"]
    /\ hands' = [hands EXCEPT ![c] = {}]
    /\ UNCHANGED <<game, worldAttached, deletes, lost>>

-----------------------------------------------------------------------------
(* DespawnAll.                                                             *)

\* (mutated) pending is a copy.
TakeCopy(c) ==
    /\ pc[c] = "idle"
    /\ pc' = [pc EXCEPT ![c] = "system"]
    /\ hands' = [hands EXCEPT ![c] = spawned]
    /\ UNCHANGED <<game, worldAttached, spawned, deletes, lost>>

\* pending.swap(m_spawned)
Take(c) ==
    /\ pc[c] = "idle"
    /\ pc' = [pc EXCEPT ![c] = "system"]
    /\ hands' = [hands EXCEPT ![c] = spawned]
    /\ spawned' = {}
    /\ UNCHANGED <<game, worldAttached, deletes, lost>>

\* GetDynamicEntitySystem.
GetSystem(c) ==
    /\ pc[c] = "system" /\ world
    /\ pc' = [pc EXCEPT ![c] = "delete"]
    /\ UNCHANGED <<game, worldAttached, spawned, hands, deletes, lost>>

\* It fails, as it does without a world and may do in one: "%zu ids dropped".
DropPending(c) ==
    /\ pc[c] = "system"
    /\ pc' = [pc EXCEPT ![c] = "idle"]
    /\ hands' = [hands EXCEPT ![c] = {}]
    /\ lost' = lost \cup (hands[c] \cap alive)
    /\ UNCHANGED <<game, worldAttached, spawned, deletes>>

\* DeleteEntity with the next id.  Failing, as it does for an entity that no
\* longer lives, it is logged; the id is forgotten either way.
Delete(c) ==
    /\ pc[c] = "delete"
    /\ \E e \in hands[c] :
          /\ deletes' = [deletes EXCEPT ![e] = @ + 1]
          /\ hands' = [hands EXCEPT ![c] = @ \ {e}]
          /\ \/ alive' = alive \ {e} /\ UNCHANGED lost
             \/ lost' = lost \cup ({e} \cap alive) /\ UNCHANGED alive
    /\ UNCHANGED <<world, created, worldAttached, spawned, pc>>

\* (mutated) The registry is cleared when all is deleted.
DespawnedClearing(c) ==
    /\ pc[c] = "delete" /\ hands[c] = {}
    /\ pc' = [pc EXCEPT ![c] = "idle"]
    /\ spawned' = {}
    /\ UNCHANGED <<game, worldAttached, hands, deletes, lost>>

Despawned(c) ==
    /\ pc[c] = "delete" /\ hands[c] = {}
    /\ pc' = [pc EXCEPT ![c] = "idle"]
    /\ UNCHANGED <<game, worldAttached, spawned, hands, deletes, lost>>

RegistryNext ==
    \/ OnWorldAttached \/ WorldEnds \/ OnWorldDetached
    \/ \E c \in Caller :
          \/ SubmitSpec(c) \/ TrackSpawned(c)
          \/ Take(c) \/ GetSystem(c) \/ DropPending(c) \/ Delete(c) \/ Despawned(c)

RegistrySpec == RegistryInit /\ [][RegistryNext]_registryVars

-----------------------------------------------------------------------------
(* Properties.                                                             *)

\* "We own what we spawn": an entity that lives is known to m_spawned, to the
\* command that has just created it or to the DespawnAll that is about to
\* delete it, whatever commands and changes of the world run at the same time.
\* The one exception are the entities of an error DespawnAll has logged: of a
\* system it could not get or a DeleteEntity that failed, after which their ids
\* are forgotten while they live.
NoLeak ==
    \A e \in alive : \/ e \in spawned \/ e \in lost
                     \/ \E c \in Caller : e \in hands[c]

\* No two calls of DespawnAll delete the same entity.
DeletedOnce == \A e \in Entity : deletes[e] <= 1
=============================================================================
