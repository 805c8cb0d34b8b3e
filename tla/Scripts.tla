------------------------------ MODULE Scripts ------------------------------
(***************************************************************************)
(* The Lua backend (LuaBackend.cpp) behind ScriptHost: the scripts are     *)
(* loaded in the order of their names, register handlers for events with   *)
(* cybermp.on, and Fire calls the handlers of an event one after the       *)
(* other.  A script may fail at any point; a handler may register others.  *)
(* What scripts do to the server, the kicks, is in Server.                 *)
(*                                                                         *)
(* Fire walks over the vector of an event's handlers by the pointers it    *)
(* took when it began.  When a handler registers another one for the same  *)
(* event and the vector is full, push_back moves it to new memory, and the *)
(* pointers are left in memory that was freed.  What the loop finds there  *)
(* is undefined: the handlers that were, husks that call nothing, or the   *)
(* end of the process.                                                     *)
(***************************************************************************)
EXTENDS Naturals, Sequences, SequencesExt

CONSTANTS
    Event,      \* the events of IBackend
    Files,      \* the number of scripts; a script is its place in the order
    MaxHandlers \* bound: handlers registered in all

ASSUME FilesAssumption == Files \in Nat /\ MaxHandlers \in Nat

None == "none"

VARIABLES
    phase,      \* "loading", "idle", "firing", "stopped" or "crashed"
    file,       \* loading: the script that is run
    loaded,     \* the scripts that ran to their end
    failed,     \* record: the scripts that failed
    handlers,   \* m_handlers: event -> the handlers, numbered as registered
    capacity,   \* event -> capacity of its vector
    owner,      \* handler -> the script that registered it, 0 for a handler
    firing,     \* the event of Fire
    at, end,    \* Fire: the pointers of its loop
    dangling,   \* Fire: whether they point to memory that was freed
    snapshot,   \* record: the event's handlers as Fire began
    called      \* record: the handlers that Fire has called

scriptsVars == <<phase, file, loaded, failed, handlers, capacity, owner, firing, at, end,
                 dangling, snapshot, called>>

load == <<file, loaded, failed>>
fire == <<firing, at, end, snapshot, called>>

\* StartAll: Start opens the libraries, binds the API and begins to load.
ScriptsInit ==
    /\ phase = "loading" /\ file = 1 /\ loaded = {} /\ failed = {}
    /\ handlers = [e \in Event |-> <<>>]
    /\ capacity = [e \in Event |-> 0]
    /\ owner = <<>>
    /\ firing = None /\ at = 0 /\ end = 0 /\ dangling = FALSE
    /\ snapshot = <<>> /\ called = <<>>

\* The growth of the vector: by half, and by one at least.
Grown(c) == IF c \div 2 = 0 THEN c + 1 ELSE c + c \div 2

\* cybermp.on with a function.  Anything else is logged and changes nothing.
Register(e, by) ==
    /\ Len(owner) < MaxHandlers
    /\ handlers' = [handlers EXCEPT ![e] = Append(@, Len(owner) + 1)]
    /\ owner' = Append(owner, by)
    /\ capacity' = IF Len(handlers[e]) = capacity[e]
                   THEN [capacity EXCEPT ![e] = Grown(@)] ELSE capacity
    /\ dangling' = (dangling \/ (e = firing /\ Len(handlers[e]) = capacity[e]))

-----------------------------------------------------------------------------
(* LoadScripts.                                                            *)

Loading == phase = "loading" /\ file <= Files

RegisterAtLoad(e) ==
    /\ Loading
    /\ Register(e, file)
    /\ UNCHANGED <<phase, load, fire>>

\* (mutated) The first broken script ends the loading.
ScriptFailsForAll ==
    /\ Loading
    /\ file' = Files + 1
    /\ failed' = failed \cup {file}
    /\ UNCHANGED <<phase, loaded, handlers, capacity, owner, dangling, fire>>

\* "One broken script must not stop the others from loading."  What it had
\* registered before it failed stays.
ScriptFails ==
    /\ Loading
    /\ file' = file + 1
    /\ failed' = failed \cup {file}
    /\ UNCHANGED <<phase, loaded, handlers, capacity, owner, dangling, fire>>

ScriptLoads ==
    /\ Loading
    /\ file' = file + 1
    /\ loaded' = loaded \cup {file}
    /\ UNCHANGED <<phase, failed, handlers, capacity, owner, dangling, fire>>

\* Start returns true whatever was loaded.
Started ==
    /\ phase = "loading" /\ file > Files
    /\ phase' = "idle"
    /\ UNCHANGED <<load, handlers, capacity, owner, dangling, fire>>

-----------------------------------------------------------------------------
(* Fire.                                                                   *)

\* OnPlayerJoin, OnPlayerLeave or OnTick, if the event has handlers.
Begin(e) ==
    /\ phase = "idle" /\ handlers[e] # <<>>
    /\ phase' = "firing"
    /\ firing' = e
    /\ at' = 1 /\ end' = Len(handlers[e])
    /\ dangling' = FALSE
    /\ snapshot' = handlers[e]
    /\ called' = <<>>
    /\ UNCHANGED <<load, handlers, capacity, owner>>

Calling == phase = "firing" /\ at <= end

\* (mutated) The loop goes by the size of the vector.
CallAndLook ==
    /\ Calling /\ ~dangling
    /\ called' = Append(called, handlers[firing][at])
    /\ at' = at + 1
    /\ end' = Len(handlers[firing])
    /\ UNCHANGED <<phase, load, handlers, capacity, owner, firing, dangling, snapshot>>

\* A handler is called and returns or fails; what it registers are steps of
\* their own, before the loop goes on.
Call ==
    /\ Calling /\ ~dangling
    /\ called' = Append(called, handlers[firing][at])
    /\ at' = at + 1
    /\ UNCHANGED <<phase, load, handlers, capacity, owner, firing, end, dangling, snapshot>>

\* Behind dangling pointers the memory may still hold what the vector held, or
\* references that were moved from: a call of those is an error that is logged.
CallFreed ==
    /\ Calling /\ dangling
    /\ called' \in {called, Append(called, handlers[firing][at])}
    /\ at' = at + 1
    /\ UNCHANGED <<phase, load, handlers, capacity, owner, firing, end, dangling, snapshot>>

\* A handler that has begun registers another one.
RegisterInHandler(e) ==
    /\ phase = "firing" /\ called # <<>>
    /\ Register(e, 0)
    /\ UNCHANGED <<phase, load, fire>>

\* The pointers, or what they point to, are not valid any more.
Crash ==
    /\ Calling /\ dangling
    /\ phase' = "crashed"
    /\ UNCHANGED <<load, handlers, capacity, owner, dangling, fire>>

Finish ==
    /\ phase = "firing" /\ at > end
    /\ phase' = "idle"
    /\ firing' = None
    /\ UNCHANGED <<load, handlers, capacity, owner, dangling, at, end, snapshot, called>>

\* As the server ends: Stop of the backend.
StopAll ==
    /\ phase = "idle"
    /\ phase' = "stopped"
    /\ handlers' = [e \in Event |-> <<>>]
    /\ UNCHANGED <<load, capacity, owner, dangling, fire>>

ScriptsNext ==
    \/ \E e \in Event : RegisterAtLoad(e) \/ Begin(e) \/ RegisterInHandler(e)
    \/ ScriptFails \/ ScriptLoads \/ Started
    \/ Call \/ CallFreed \/ Crash \/ Finish
    \/ StopAll

ScriptsSpec == ScriptsInit /\ [][ScriptsNext]_scriptsVars

-----------------------------------------------------------------------------
(* Properties.                                                             *)

\* A call of Fire calls each handler that was registered when it began once,
\* in the order of registration, and no other, whichever of them fail or
\* register handlers, for this event or another, as long as the vector it walks
\* over stays where it is.
EachCalledOnce ==
    ~dangling => /\ phase = "firing" => Len(called) = at - 1 /\ IsPrefix(called, snapshot)
                 /\ phase = "idle" => called = snapshot

\* The script behind a handler, 0 for one that a handler registered.
By(e, k) == owner[handlers[e][k]]

\* Every script is run, whichever of the others are broken, and the handlers of
\* an event stand in the order of the scripts' names, those that handlers have
\* registered behind them: "load order changes behaviour".
LoadOrderKept ==
    /\ phase # "loading" => loaded \cup failed = 1 .. Files
    /\ \A e \in Event : \A k \in DOMAIN handlers[e] : \A j \in 1 .. k - 1 :
          By(e, k) # 0 => By(e, j) \in 1 .. By(e, k)

\* "A bad script must never take the server down" (LuaBackend.cpp).
ServerStaysUp == phase # "crashed"
=============================================================================
