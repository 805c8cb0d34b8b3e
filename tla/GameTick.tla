------------------------------ MODULE GameTick ------------------------------
(***************************************************************************)
(* The client plugin around its one task queue (Plugin::Tasks):            *)
(*   - the two tick callbacks of WorldSystem, FrameBegin and MpUpdate,     *)
(*     each of which runs RunTick: it notes its thread in m_drainThreadId, *)
(*     drains at most 64 tasks, and adds to m_tasksRun.  The engine calls  *)
(*     them from a pool of workers, possibly in parallel;                  *)
(*   - the network thread, which pushes a task for every pong;             *)
(*   - the probe of PostTasksFromThread: a thread that pushes tasks which  *)
(*     check that they run on the thread that drains them;                 *)
(*   - NetClient::Connect, which sets the client's counters to zero;       *)
(*   - Plugin::OnUnload, which joins the network thread and clears.        *)
(***************************************************************************)
EXTENDS TaskQueue

CONSTANTS
    Worker,     \* the engine's worker threads
    NoWorker

ASSUME WorkerAssumption == NoWorker \notin Worker

Callbacks == Drainer        \* a tick callback makes one call of Drain at a time

VARIABLES
    kind,           \* task -> "pong", "probe" or "other"
    thread,         \* per tick callback: the worker it runs on
    place,          \* per tick callback: where in RunTick it is
    drainThread,    \* m_drainThreadId
    offDrain,       \* m_taskRanOffDrainThread
    tasksRun,       \* m_tasksRun
    applied,        \* NetClient::m_appliedOnGameThread
    net,            \* the network thread: "running" or "joined"
    plugin,         \* "loaded", "unloading" or "unloaded"
    earlier         \* record: the tasks that had run at the last Connect

tickVars ==
    <<kind, thread, place, drainThread, offDrain, tasksRun, applied, net, plugin, earlier>>
vars == <<queue, tickVars>>

Init ==
    /\ QueueInit
    /\ kind = <<>>
    /\ thread = [c \in Callbacks |-> NoWorker]
    /\ place = [c \in Callbacks |-> "idle"]
    /\ drainThread = NoWorker
    /\ offDrain = FALSE
    /\ tasksRun = 0
    /\ applied = 0
    /\ net = "running"
    /\ plugin = "loaded"
    /\ earlier = {}

\* HandleDatagram on a Pong.
PushPong ==
    /\ net = "running"
    /\ Push
    /\ kind' = Append(kind, "pong")
    /\ UNCHANGED <<thread, place, drainThread, offDrain, tasksRun, applied, net, plugin, earlier>>

\* One turn of the thread that PostTasksFromThread starts.  Nothing joins it
\* when the plugin is unloaded.
PushProbe ==
    /\ Push
    /\ kind' = Append(kind, "probe")
    /\ UNCHANGED <<thread, place, drainThread, offDrain, tasksRun, applied, net, plugin, earlier>>

\* RunTick notes the thread it is on: no worker runs two callbacks at once.
BeginTick(c, w) ==
    /\ place[c] = "idle"
    /\ \A b \in Callbacks : thread[b] # w
    /\ thread' = [thread EXCEPT ![c] = w]
    /\ drainThread' = w
    /\ place' = [place EXCEPT ![c] = "noted"]
    /\ UNCHANGED queue
    /\ UNCHANGED <<kind, offDrain, tasksRun, applied, net, plugin, earlier>>

\* Drain takes its batch, or finds nothing queued.
TakeBatch(c) ==
    /\ place[c] = "noted"
    /\ \/ \E b \in Budget : Take(c, b)
       \/ pending = <<>> /\ UNCHANGED queue
    /\ place' = [place EXCEPT ![c] = "draining"]
    /\ UNCHANGED <<kind, thread, drainThread, offDrain, tasksRun, applied, net, plugin, earlier>>

\* One task.  "A task is free to push another one", and here any may: one of a
\* third kind, though neither of the plugin's own kinds makes use of it.
RunTask(c) ==
    /\ place[c] = "draining"
    /\ Run(c)
    /\ kind' = IF next' = next THEN kind ELSE Append(kind, "other")
    /\ LET k == kind[Head(running[c])] IN
          /\ offDrain' = (offDrain \/ (k = "probe" /\ thread[c] # drainThread))
          /\ applied' = IF k = "pong" THEN applied + 1 ELSE applied
    /\ UNCHANGED <<thread, place, drainThread, tasksRun, net, plugin, earlier>>

\* (mutated) The total is read before the drain and written after it.
EndTickLate(c) ==
    /\ place[c] = "draining" /\ running[c] = <<>>
    /\ tasksRun' = count[c]
    /\ thread' = [thread EXCEPT ![c] = NoWorker]
    /\ place' = [place EXCEPT ![c] = "idle"]
    /\ UNCHANGED queue
    /\ UNCHANGED <<kind, drainThread, offDrain, applied, net, plugin, earlier>>

EndTick(c) ==
    /\ place[c] = "draining"
    /\ Return(c)
    /\ tasksRun' = tasksRun + count[c]
    /\ thread' = [thread EXCEPT ![c] = NoWorker]
    /\ place' = [place EXCEPT ![c] = "idle"]
    /\ UNCHANGED <<kind, drainThread, offDrain, applied, net, plugin, earlier>>

\* NetClient::Connect ends the network thread, sets the counters to zero and
\* starts the thread again.  What is queued of the old connection stays.
Connect ==
    /\ plugin = "loaded"
    /\ applied' = 0
    /\ earlier' = ran
    /\ UNCHANGED queue
    /\ UNCHANGED <<kind, thread, place, drainThread, offDrain, tasksRun, net, plugin>>

\* (mutated) OnUnload clears without waiting for the network thread.
JoinNetLazily ==
    /\ plugin = "loaded"
    /\ plugin' = "unloading"
    /\ UNCHANGED queue
    /\ UNCHANGED <<kind, thread, place, drainThread, offDrain, tasksRun, applied, net, earlier>>

\* OnUnload: Net().Disconnect() returns when the network thread has ended.
JoinNet ==
    /\ plugin = "loaded"
    /\ plugin' = "unloading"
    /\ net' = "joined"
    /\ UNCHANGED queue
    /\ UNCHANGED <<kind, thread, place, drainThread, offDrain, tasksRun, applied, earlier>>

\* OnUnload: Tasks().Clear().
ClearTasks ==
    /\ plugin = "unloading"
    /\ plugin' = "unloaded"
    /\ Clear \/ (pending = <<>> /\ UNCHANGED queue)
    /\ UNCHANGED <<kind, thread, place, drainThread, offDrain, tasksRun, applied, net, earlier>>

Tick(c) ==
    \/ \E w \in Worker : BeginTick(c, w)
    \/ TakeBatch(c)
    \/ RunTask(c)
    \/ EndTick(c)

Next ==
    \/ PushPong
    \/ PushProbe
    \/ \E c \in Callbacks : Tick(c)
    \/ Connect
    \/ JoinNet
    \/ ClearTasks

Spec == Init /\ [][Next]_vars

\* Every frame runs both callbacks.
FairSpec == Spec /\ \A c \in Callbacks : WF_vars(Tick(c))

-----------------------------------------------------------------------------
(* Properties.                                                             *)

\* The values the variables may take.
TypeOK ==
    /\ QueueTypeOK
    /\ kind \in Seq({"pong", "probe", "other"}) /\ Len(kind) = next - 1
    /\ thread \in [Callbacks -> Worker \cup {NoWorker}]
    /\ place \in [Callbacks -> {"idle", "noted", "draining"}]
    /\ drainThread \in Worker \cup {NoWorker}
    /\ offDrain \in BOOLEAN
    /\ tasksRun \in Nat /\ applied \in Nat
    /\ net \in {"running", "joined"}
    /\ plugin \in {"loaded", "unloading", "unloaded"}
    /\ earlier \subseteq Task

\* What the ticks in progress have run, and will add when they end.
Counted == UNION {{c} \X (1 .. count[c]) : c \in Callbacks}

\* The counters agree with what ran, although two ticks add to them in
\* parallel and Connect sets one back: m_tasksRun, with what the ticks in
\* progress will still add, is the number of tasks that ran, and
\* m_appliedOnGameThread that of the pongs applied since the last Connect,
\* those of the connections before it that were still queued included.
CountersAgree ==
    /\ Cardinality(ran) = tasksRun + Cardinality(Counted)
    /\ applied = Cardinality({t \in ran \ earlier : kind[t] = "pong"})

\* Once the plugin is unloaded no work of the network thread is queued: a
\* task that "could still try to log" through the sdk is not left behind.
NoPongAfterUnload ==
    plugin = "unloaded" => \A t \in ToSet(pending) : kind[t] # "pong"
=============================================================================
