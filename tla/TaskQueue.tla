----------------------------- MODULE TaskQueue -----------------------------
(***************************************************************************)
(* core::TaskQueue (src/common/TaskQueue.hpp): the queue through which     *)
(* work crosses from the network thread to the game.  Any thread pushes;   *)
(* any thread drains, and several may at once.  What is done under m_mutex *)
(* is one step; a task of a drain in progress is another, so pushes, other *)
(* drains and Clear fall between any two tasks.                            *)
(*                                                                         *)
(* Tasks are numbered in the order in which they were pushed.              *)
(***************************************************************************)
EXTENDS Naturals, Sequences, FiniteSets, SequencesExt

CONSTANTS
    Drainer,    \* the calls of Drain that may be in progress together
    Budget,     \* the values of aBudget in use; 0 is no limit
    MaxTask     \* bound: tasks pushed

ASSUME BudgetAssumption  == Budget \subseteq Nat
ASSUME MaxTaskAssumption == MaxTask \in Nat

VARIABLES
    pending,    \* m_pending
    next,       \* the number of the next task
    running,    \* per drain: what it took and has not run yet
    budget,     \* per drain: its aBudget
    mark,       \* per drain: next, as it took its tasks
    count,      \* per drain: how many it has run
    ran,        \* the tasks that have run
    dropped     \* the tasks Clear threw away

queue == <<pending, next, running, budget, mark, count, ran, dropped>>

Task == 1 .. MaxTask

\* The tasks of a drain that are still to run, and all that are.
Held(d) == ToSet(running[d])
Waiting == ToSet(pending) \cup UNION {Held(d) : d \in Drainer}

QueueInit ==
    /\ pending = <<>>
    /\ next = 1
    /\ running = [d \in Drainer |-> <<>>]
    /\ budget = [d \in Drainer |-> 0]
    /\ mark = [d \in Drainer |-> 1]
    /\ count = [d \in Drainer |-> 0]
    /\ ran = {}
    /\ dropped = {}

\* The queue after n more pushes.
Pushed(n) ==
    /\ next + n <= MaxTask + 1
    /\ pending' = pending \o [k \in 1 .. n |-> next + k - 1]
    /\ next' = next + n

Push ==
    /\ Pushed(1)
    /\ UNCHANGED <<running, budget, mark, count, ran, dropped>>

\* (mutated) A slice is not erased from the front but from the back.
SliceKeepingFront(b) == IF b = 0 \/ b >= Len(pending) THEN <<>>
                        ELSE SubSeq(pending, 1, Len(pending) - b)

\* (mutated) The queue is cleared whatever was taken.
SliceErased(b) == <<>>

\* What is left in the queue, and what is taken, with a budget.
Slice(b) == IF b = 0 \/ b >= Len(pending) THEN <<>>
            ELSE SubSeq(pending, b + 1, Len(pending))

\* (mutated) The budget counts from zero.
TakenAndOne(b) == IF b = 0 \/ b >= Len(pending) THEN pending
                  ELSE SubSeq(pending, 1, b + 1)

Taken(b) == IF b = 0 \/ b >= Len(pending) THEN pending
            ELSE SubSeq(pending, 1, b)

\* The locked part of Drain.
Take(d, b) ==
    /\ running[d] = <<>>
    /\ pending # <<>>
    /\ running' = [running EXCEPT ![d] = Taken(b)]
    /\ pending' = Slice(b)
    /\ budget' = [budget EXCEPT ![d] = b]
    /\ mark' = [mark EXCEPT ![d] = next]
    /\ count' = [count EXCEPT ![d] = 0]
    /\ UNCHANGED <<next, ran, dropped>>

\* (mutated) The task is run and stays at the front of the batch.
RunAgain(d) ==
    /\ running[d] # <<>>
    /\ \E n \in {0, 1} : Pushed(n)
    /\ ran' = ran \cup {Head(running[d])}
    /\ running' = IF Head(running[d]) \in ran
                  THEN [running EXCEPT ![d] = Tail(@)] ELSE running
    /\ count' = [count EXCEPT ![d] = @ + 1]
    /\ UNCHANGED <<budget, mark, dropped>>

\* One task of a drain, outside the lock.  It may push another one.
Run(d) ==
    /\ running[d] # <<>>
    /\ \E n \in {0, 1} : Pushed(n)
    /\ ran' = ran \cup {Head(running[d])}
    /\ running' = [running EXCEPT ![d] = Tail(@)]
    /\ count' = [count EXCEPT ![d] = @ + 1]
    /\ UNCHANGED <<budget, mark, dropped>>

\* Drain has run its batch and returns how many it ran.
Return(d) ==
    /\ running[d] = <<>>
    /\ count' = [count EXCEPT ![d] = 0]
    /\ UNCHANGED <<pending, next, running, budget, mark, ran, dropped>>

Clear ==
    /\ pending # <<>>
    /\ dropped' = dropped \cup ToSet(pending)
    /\ pending' = <<>>
    /\ UNCHANGED <<next, running, budget, mark, count, ran>>

QueueNext ==
    \/ Push
    \/ \E d \in Drainer : Run(d) \/ Return(d) \/ \E b \in Budget : Take(d, b)
    \/ Clear

QueueSpec == QueueInit /\ [][QueueNext]_queue

-----------------------------------------------------------------------------
(* Properties.                                                             *)

\* The values the variables may take.
QueueTypeOK ==
    /\ pending \in Seq(Task)
    /\ next \in 1 .. MaxTask + 1
    /\ running \in [Drainer -> Seq(Task)]
    /\ budget \in [Drainer -> Budget \cup {0}]
    /\ mark \in [Drainer -> 1 .. MaxTask + 1]
    /\ count \in [Drainer -> 0 .. MaxTask]
    /\ ran \subseteq Task
    /\ dropped \subseteq Task

\* In the queue, and in what a drain has left, tasks stand in the order of
\* their pushes, and all that is queued was pushed after all that was taken.
InOrder ==
    /\ \A j, k \in DOMAIN pending : j < k => pending[j] < pending[k]
    /\ \A d \in Drainer :
          /\ \A j, k \in DOMAIN running[d] : j < k => running[d][j] < running[d][k]
          /\ \A t \in Held(d), u \in ToSet(pending) : t < u

\* Every task pushed is in exactly one place: the queue, one drain, done, or
\* thrown away by Clear.  Two drains never hold the same one, and a task
\* runs at most once.
EachOnce ==
    /\ 1 .. next - 1 = Waiting \cup ran \cup dropped
    /\ ran \cap dropped = {}
    /\ Waiting \cap (ran \cup dropped) = {}
    /\ \A d \in Drainer :
          /\ Held(d) \cap ToSet(pending) = {}
          /\ \A e \in Drainer \ {d} : Held(d) \cap Held(e) = {}

\* A drain runs at most its budget, and never a task that was pushed after
\* it took its batch, by its own tasks or by another thread: it "lands in
\* the next drain rather than deadlocking or running in this one".
DrainBounded ==
    \A d \in Drainer :
       /\ budget[d] # 0 => count[d] + Len(running[d]) <= budget[d]
       /\ \A t \in Held(d) : t < mark[d]

\* A task that was pushed is run, unless Clear takes it first.
EachRuns == \A t \in Task : (t < next) ~> (t \in ran \cup dropped)
=============================================================================
