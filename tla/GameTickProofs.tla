--------------------------- MODULE GameTickProofs ---------------------------
(***************************************************************************)
(* Proofs about the task queue, for any number of drains in progress, any  *)
(* budgets and any number of tasks, and about the plugin that uses it.     *)
(***************************************************************************)
EXTENDS GameTick, SequenceTheorems, FiniteSetTheorems, TLAPS

USE BudgetAssumption, MaxTaskAssumption

-----------------------------------------------------------------------------
(* Increasing sequences of tasks.                                          *)

Increasing(s) == \A j, k \in DOMAIN s : j < k => s[j] < s[k]

\* What Drain takes and what it leaves are the front and the back of the queue.
LEMMA SliceSplits ==
    ASSUME pending \in Seq(Task), Increasing(pending), NEW b \in Nat
    PROVE  /\ Taken(b) \in Seq(Task) /\ Slice(b) \in Seq(Task)
           /\ ToSet(pending) = ToSet(Taken(b)) \cup ToSet(Slice(b))
           /\ Increasing(Taken(b)) /\ Increasing(Slice(b))
           /\ \A t \in ToSet(Taken(b)), u \in ToSet(Slice(b)) : t < u
           /\ b # 0 => Len(Taken(b)) <= b
<1>1. CASE b = 0 \/ b >= Len(pending)
  <2>1. Taken(b) = pending /\ Slice(b) = <<>>
    BY <1>1 DEF Taken, Slice
  <2> QED BY <1>1, <2>1 DEF ToSet, Increasing
<1>2. CASE ~(b = 0 \/ b >= Len(pending))
  <2> DEFINE t == Taken(b)
             u == Slice(b)
  <2>1. b \in 1 .. Len(pending) - 1 /\ Len(pending) \in Nat
    BY <1>2
  <2>2. t = SubSeq(pending, 1, b) /\ u = SubSeq(pending, b + 1, Len(pending))
    BY <1>2 DEF Taken, Slice
  <2>3. t \in Seq(Task) /\ Len(t) = b /\ \A i \in 1 .. b : t[i] = pending[i]
    BY <2>1, <2>2
  <2>4. /\ u \in Seq(Task) /\ Len(u) = Len(pending) - b
        /\ \A i \in 1 .. Len(pending) - b : u[i] = pending[b + i]
    BY <2>1, <2>2
  <2> HIDE DEF t, u
  <2>5. DOMAIN t = 1 .. b /\ DOMAIN u = 1 .. Len(pending) - b /\ DOMAIN pending = 1 .. Len(pending)
    BY <2>3, <2>4
  <2>6. Increasing(t) /\ Increasing(u)
    <3>1. ASSUME NEW j \in DOMAIN t, NEW k \in DOMAIN t, j < k PROVE t[j] < t[k]
      <4>1. j \in DOMAIN pending /\ k \in DOMAIN pending
        BY <2>1, <2>5
      <4> QED BY <2>3, <2>5, <3>1, <4>1 DEF Increasing
    <3>2. ASSUME NEW j \in DOMAIN u, NEW k \in DOMAIN u, j < k PROVE u[j] < u[k]
      <4>1. b + j \in DOMAIN pending /\ b + k \in DOMAIN pending /\ b + j < b + k
        BY <2>1, <2>5, <3>2
      <4>2. u[j] = pending[b + j] /\ u[k] = pending[b + k]
        BY <2>4, <2>5
      <4> QED BY <4>1, <4>2 DEF Increasing
    <3> QED BY <3>1, <3>2 DEF Increasing
  <2>7. ToSet(pending) = ToSet(t) \cup ToSet(u)
    <3>1. ToSet(t) \subseteq ToSet(pending) /\ ToSet(u) \subseteq ToSet(pending)
      <4>1. ASSUME NEW i \in DOMAIN t PROVE t[i] \in ToSet(pending)
        <5>1. i \in DOMAIN pending /\ t[i] = pending[i]
          BY <2>1, <2>3, <2>5
        <5> QED BY <5>1 DEF ToSet
      <4>2. ASSUME NEW i \in DOMAIN u PROVE u[i] \in ToSet(pending)
        <5>1. b + i \in DOMAIN pending /\ u[i] = pending[b + i]
          BY <2>1, <2>4, <2>5
        <5> QED BY <5>1 DEF ToSet
      <4> QED BY <4>1, <4>2 DEF ToSet
    <3>2. ASSUME NEW i \in 1 .. Len(pending) PROVE pending[i] \in ToSet(t) \cup ToSet(u)
      <4>1. CASE i <= b
        BY <2>3, <2>5, <4>1 DEF ToSet
      <4>2. CASE i > b
        <5>1. i - b \in DOMAIN u /\ u[i - b] = pending[i]
          BY <2>1, <2>4, <2>5, <4>2
        <5> QED BY <5>1 DEF ToSet
      <4> QED BY <2>1, <4>1, <4>2
    <3> QED BY <2>5, <3>1, <3>2 DEF ToSet
  <2>8. \A x \in ToSet(t), y \in ToSet(u) : x < y
    <3>1. ASSUME NEW i \in DOMAIN t, NEW j \in DOMAIN u PROVE t[i] < u[j]
      <4>1. i \in DOMAIN pending /\ b + j \in DOMAIN pending /\ i < b + j
        BY <2>1, <2>5
      <4>2. t[i] = pending[i] /\ u[j] = pending[b + j]
        BY <2>3, <2>4, <2>5
      <4> QED BY <4>1, <4>2 DEF Increasing
    <3> QED BY <3>1 DEF ToSet
  <2>9. b # 0 => Len(t) <= b
    BY <2>3
  <2> QED BY <2>3, <2>4, <2>6, <2>7, <2>8, <2>9 DEF t, u
<1> QED BY <1>1, <1>2

\* A task that is run leaves its batch.
LEMMA TailLeaves ==
    ASSUME NEW s \in Seq(Task), s # <<>>, Increasing(s)
    PROVE  /\ Tail(s) \in Seq(Task) /\ Increasing(Tail(s))
           /\ Head(s) \in Task
           /\ ToSet(s) = ToSet(Tail(s)) \cup {Head(s)}
           /\ Head(s) \notin ToSet(Tail(s))
           /\ Len(Tail(s)) = Len(s) - 1
<1> DEFINE t == Tail(s)
<1>1. /\ t \in Seq(Task) /\ Len(t) = Len(s) - 1 /\ Len(s) \in Nat \ {0}
      /\ \A i \in 1 .. Len(s) - 1 : t[i] = s[i + 1]
      /\ Head(s) = s[1] /\ s[1] \in Task
  BY HeadTailProperties
<1>2. DOMAIN t = 1 .. Len(s) - 1 /\ DOMAIN s = 1 .. Len(s)
  BY <1>1
<1> HIDE DEF t
<1>3. ASSUME NEW i \in DOMAIN t
      PROVE  i + 1 \in DOMAIN s /\ 1 \in DOMAIN s /\ 1 < i + 1 /\ t[i] = s[i + 1]
  BY <1>1, <1>2
<1>4. Increasing(t) /\ \A i \in DOMAIN t : Head(s) < t[i]
  <2>1. ASSUME NEW j \in DOMAIN t, NEW k \in DOMAIN t, j < k PROVE t[j] < t[k]
    <3>1. j + 1 < k + 1
      BY <1>2, <2>1
    <3> QED BY <1>3, <3>1 DEF Increasing
  <2>2. \A i \in DOMAIN t : Head(s) < t[i]
    BY <1>1, <1>3 DEF Increasing
  <2> QED BY <2>1, <2>2 DEF Increasing
<1>5. ToSet(s) = ToSet(t) \cup {Head(s)}
  <2>1. ASSUME NEW i \in DOMAIN t PROVE t[i] \in ToSet(s)
    BY <1>3 DEF ToSet
  <2>2. ASSUME NEW i \in DOMAIN s, i # 1 PROVE s[i] \in ToSet(t)
    <3>1. i - 1 \in DOMAIN t /\ t[i - 1] = s[i]
      BY <1>1, <1>2, <2>2
    <3> QED BY <3>1 DEF ToSet
  <2>3. Head(s) \in ToSet(s)
    BY <1>1, <1>2 DEF ToSet
  <2>4. \A x \in ToSet(s) : x \in ToSet(t) \/ x = Head(s)
    BY <1>1, <2>2 DEF ToSet
  <2>5. ToSet(t) \subseteq ToSet(s)
    BY <2>1 DEF ToSet
  <2> QED BY <2>3, <2>4, <2>5
<1>6. Head(s) \notin ToSet(t)
  <2>1. \A i \in DOMAIN t : Head(s) # t[i]
    BY <1>1, <1>2, <1>4 DEF Task
  <2> QED BY <2>1 DEF ToSet
<1> QED BY <1>1, <1>4, <1>5, <1>6 DEF t

\* A push enters the next task, behind all that are queued.
LEMMA PushAppends ==
    ASSUME pending \in Seq(Task), Increasing(pending), next \in 1 .. MaxTask + 1,
           \A t \in ToSet(pending) : t < next,
           NEW n \in {0, 1}, Pushed(n)
    PROVE  /\ pending' \in Seq(Task) /\ Increasing(pending')
           /\ next' = next + n /\ next' \in 1 .. MaxTask + 1
           /\ ToSet(pending') = ToSet(pending) \cup next .. next' - 1
<1> DEFINE s == [k \in 1 .. n |-> next + k - 1]
<1>1. next' = next + n /\ next' \in 1 .. MaxTask + 1 /\ pending' = pending \o s
  BY DEF Pushed
<1>2. s \in Seq(Task) /\ Len(s) = n /\ \A k \in 1 .. n : s[k] = next + k - 1
  <2>1. \A k \in 1 .. n : next + k - 1 \in Task
    BY <1>1 DEF Task
  <2> QED BY <2>1
<1> HIDE DEF s
<1>3. /\ pending' \in Seq(Task) /\ Len(pending') = Len(pending) + n /\ Len(pending) \in Nat
      /\ \A i \in 1 .. Len(pending) : pending'[i] = pending[i]
      /\ n = 1 => pending'[Len(pending) + 1] = next
  BY <1>1, <1>2, ConcatProperties
<1>4. DOMAIN pending' = 1 .. Len(pending) + n /\ DOMAIN pending = 1 .. Len(pending)
  BY <1>3
<1>5. \A i \in DOMAIN pending : pending[i] < next
  BY DEF ToSet
<1>6. Increasing(pending')
  <2> SUFFICES ASSUME NEW j \in 1 .. Len(pending) + n, NEW k \in 1 .. Len(pending) + n, j < k
               PROVE  pending'[j] < pending'[k]
    BY <1>4 DEF Increasing
  <2>1. CASE k <= Len(pending)
    <3>1. j \in 1 .. Len(pending) /\ k \in 1 .. Len(pending)
      BY <1>3, <2>1
    <3>2. pending[j] < pending[k]
      BY <1>4, <3>1 DEF Increasing
    <3> QED BY <1>3, <3>1, <3>2
  <2>2. CASE k > Len(pending)
    <3>1. n = 1 /\ k = Len(pending) + 1 /\ j \in 1 .. Len(pending)
      BY <1>3, <2>2
    <3> QED BY <1>3, <1>4, <1>5, <3>1
  <2> QED BY <1>3, <2>1, <2>2
<1>7. ToSet(pending') = ToSet(pending) \cup next .. next' - 1
  <2>1. CASE n = 0
    BY <1>1, <1>3, <1>4, <2>1 DEF ToSet
  <2>2. CASE n = 1
    <3>1. next .. next' - 1 = {next}
      BY <1>1, <2>2
    <3>2. DOMAIN pending' = DOMAIN pending \cup {Len(pending) + 1}
      BY <1>3, <1>4, <2>2
    <3> QED BY <1>3, <1>4, <2>2, <3>1, <3>2 DEF ToSet
  <2> QED BY <2>1, <2>2
<1> QED BY <1>1, <1>3, <1>6, <1>7

-----------------------------------------------------------------------------
(* The queue.                                                              *)

QType ==
    /\ pending \in Seq(Task)
    /\ next \in 1 .. MaxTask + 1
    /\ running \in [Drainer -> Seq(Task)]
    /\ budget \in [Drainer -> Nat]
    /\ mark \in [Drainer -> Nat]
    /\ count \in [Drainer -> Nat]

QInv == QType /\ InOrder /\ EachOnce /\ DrainBounded

\* What the invariant says, in the terms of the lemmas.
LEMMA QInvMeans ==
    ASSUME QInv
    PROVE  /\ Increasing(pending)
           /\ \A d \in Drainer : Increasing(running[d])
           /\ \A t \in ToSet(pending) : t < next
           /\ \A d \in Drainer : \A t \in Held(d) : t < next
<1>1. Waiting \subseteq 1 .. next - 1
  BY DEF QInv, EachOnce
<1>2. \A t \in 1 .. next - 1 : t < next
  BY DEF QInv, QType
<1> QED BY <1>1, <1>2 DEF QInv, InOrder, Increasing, Waiting

LEMMA QInit == QueueInit => QInv
<1> SUFFICES ASSUME QueueInit PROVE QInv
  OBVIOUS
<1>1. QType
  BY DEF QueueInit, QType
<1>2. ToSet(pending) = {} /\ \A d \in Drainer : Held(d) = {}
  BY DEF QueueInit, ToSet, Held
<1>3. next = 1 /\ ran = {} /\ dropped = {}
  BY DEF QueueInit
<1>4. EachOnce
  BY <1>2, <1>3 DEF EachOnce, Waiting
<1>5. InOrder
  BY <1>2 DEF QueueInit, InOrder
<1>6. DrainBounded
  BY <1>2 DEF QueueInit, DrainBounded
<1> QED BY <1>1, <1>4, <1>5, <1>6 DEF QInv

\* The tasks pushed in a step are new.
LEMMA NewTasks ==
    ASSUME NEW a \in Nat, NEW b \in Nat, 1 <= a, a <= b
    PROVE  /\ 1 .. b - 1 = (1 .. a - 1) \cup (a .. b - 1)
           /\ (1 .. a - 1) \cap (a .. b - 1) = {}
  OBVIOUS

\* Push, and a task that pushes: what the queue and the drains gain.
LEMMA PushStep ==
    ASSUME QInv, NEW n \in {0, 1}, Pushed(n)
    PROVE  LET N == next .. next' - 1 IN
           /\ pending' \in Seq(Task) /\ Increasing(pending')
           /\ next' \in 1 .. MaxTask + 1 /\ next <= next'
           /\ ToSet(pending') = ToSet(pending) \cup N
           /\ 1 .. next' - 1 = (1 .. next - 1) \cup N
           /\ N \cap (Waiting \cup ran \cup dropped) = {}
           /\ \A d \in Drainer : \A t \in Held(d), u \in N : t < u
<1>1. /\ pending' \in Seq(Task) /\ Increasing(pending')
      /\ next' = next + n /\ next' \in 1 .. MaxTask + 1
      /\ ToSet(pending') = ToSet(pending) \cup next .. next' - 1
  BY QInvMeans, PushAppends DEF QInv, QType
<1>2. next \in Nat /\ next' \in Nat /\ 1 <= next /\ next <= next'
  BY <1>1 DEF QInv, QType
<1>3. /\ 1 .. next' - 1 = (1 .. next - 1) \cup (next .. next' - 1)
      /\ (1 .. next - 1) \cap (next .. next' - 1) = {}
  BY <1>2, NewTasks
<1>4. Waiting \cup ran \cup dropped = 1 .. next - 1
  BY DEF QInv, EachOnce
<1>5. \A d \in Drainer : \A t \in Held(d), u \in next .. next' - 1 : t < u
  <2>1. ASSUME NEW d \in Drainer, NEW t \in Held(d), NEW u \in next .. next' - 1
        PROVE  t < u
    <3>1. t \in 1 .. next - 1
      BY <1>4 DEF Waiting
    <3> QED BY <1>2, <3>1
  <2> QED BY <2>1
<1> QED BY <1>1, <1>2, <1>3, <1>4, <1>5

LEMMA QStep == QInv /\ [QueueNext]_queue => QInv'
<1> SUFFICES ASSUME QInv, [QueueNext]_queue PROVE QInv'
  OBVIOUS
<1>1. CASE UNCHANGED queue
  BY <1>1 DEF queue, QInv, QType, InOrder, EachOnce, DrainBounded, Waiting, Held
<1>2. CASE Push
  <2> DEFINE N == next .. next' - 1
  <2>1. /\ pending' \in Seq(Task) /\ Increasing(pending')
        /\ next' \in 1 .. MaxTask + 1
        /\ ToSet(pending') = ToSet(pending) \cup N
        /\ 1 .. next' - 1 = (1 .. next - 1) \cup N
        /\ N \cap (Waiting \cup ran \cup dropped) = {}
        /\ \A d \in Drainer : \A t \in Held(d), u \in N : t < u
    BY <1>2, PushStep DEF Push
  <2> HIDE DEF N
  <2>2. /\ UNCHANGED <<running, budget, mark, count, ran, dropped>>
        /\ \A d \in Drainer : Held(d)' = Held(d)
    BY <1>2 DEF Push, Held
  <2>3. Waiting' = Waiting \cup N
    BY <2>1, <2>2 DEF Waiting
  <2>4. \A d \in Drainer : Held(d) \cap N = {}
    BY <2>1 DEF Waiting
  <2>5. EachOnce'
    BY <2>1, <2>2, <2>3, <2>4 DEF QInv, EachOnce
  <2>6. InOrder'
    BY <2>1, <2>2 DEF QInv, InOrder, Increasing
  <2>7. DrainBounded'
    BY <2>2 DEF QInv, DrainBounded
  <2> QED BY <2>1, <2>2, <2>5, <2>6, <2>7 DEF QInv, QType
<1>3. ASSUME NEW d \in Drainer, Run(d) PROVE QInv'
  <2> DEFINE N == next .. next' - 1
             h == Head(running[d])
  <2>1. PICK n \in {0, 1} : Pushed(n)
    BY <1>3 DEF Run
  <2>2. /\ pending' \in Seq(Task) /\ Increasing(pending')
        /\ next' \in 1 .. MaxTask + 1
        /\ ToSet(pending') = ToSet(pending) \cup N
        /\ 1 .. next' - 1 = (1 .. next - 1) \cup N
        /\ N \cap (Waiting \cup ran \cup dropped) = {}
        /\ \A e \in Drainer : \A t \in Held(e), u \in N : t < u
    BY <2>1, PushStep
  <2>3. /\ running[d] \in Seq(Task) /\ running[d] # <<>> /\ Increasing(running[d])
    BY <1>3, QInvMeans DEF Run, QInv, QType
  <2>4. /\ Tail(running[d]) \in Seq(Task) /\ Increasing(Tail(running[d]))
        /\ ToSet(running[d]) = ToSet(Tail(running[d])) \cup {h}
        /\ h \notin ToSet(Tail(running[d]))
        /\ Len(Tail(running[d])) = Len(running[d]) - 1
    BY <2>3, TailLeaves
  <2>5. /\ running' = [running EXCEPT ![d] = Tail(running[d])]
        /\ count' = [count EXCEPT ![d] = count[d] + 1]
        /\ ran' = ran \cup {h}
        /\ UNCHANGED <<budget, mark, dropped>>
    BY <1>3 DEF Run
  <2>6. /\ running'[d] = Tail(running[d])
        /\ \A e \in Drainer \ {d} : running'[e] = running[e]
        /\ running' \in [Drainer -> Seq(Task)]
    BY <2>4, <2>5 DEF QInv, QType
  <2>7. Held(d) = Held(d)' \cup {h} /\ h \notin Held(d)'
    BY <2>4, <2>6 DEF Held
  <2>8. \A e \in Drainer \ {d} : Held(e)' = Held(e)
    BY <2>6 DEF Held
  <2> HIDE DEF N, h
  <2>9. /\ 1 .. next - 1 = Waiting \cup ran \cup dropped
        /\ ran \cap dropped = {} /\ Waiting \cap (ran \cup dropped) = {}
        /\ \A e \in Drainer : /\ Held(e) \cap ToSet(pending) = {}
                              /\ \A f \in Drainer \ {e} : Held(e) \cap Held(f) = {}
    BY DEF QInv, EachOnce
  <2>10. /\ h \notin ToSet(pending) /\ \A e \in Drainer \ {d} : h \notin Held(e)
         /\ h \in Waiting
    BY <2>7, <2>9 DEF Waiting
  <2>11. \A t : t \in Waiting <=> t \in ToSet(pending) \/ \E e \in Drainer : t \in Held(e)
    BY DEF Waiting
  <2>12. \A t : t \in Waiting' <=> t \in ToSet(pending') \/ \E e \in Drainer : t \in Held(e)'
    BY DEF Waiting
  <2>13. Waiting' = (Waiting \ {h}) \cup N
    <3>1. h \notin N
      BY <2>2, <2>10
    <3> QED BY <2>2, <2>7, <2>8, <2>10, <2>11, <2>12, <3>1
  <2>14. \A e \in Drainer : /\ Held(e)' \subseteq Held(e)
                            /\ Held(e) \cap N = {}
    BY <2>2, <2>7, <2>8, <2>11
  <2>15. EachOnce'
    <3>1. (1 .. next - 1 = Waiting \cup ran \cup dropped)'
      BY <2>2, <2>5, <2>9, <2>10, <2>13
    <3>2. ran' \cap dropped' = {} /\ Waiting' \cap (ran' \cup dropped') = {}
      BY <2>2, <2>5, <2>9, <2>10, <2>13
    <3>3. \A e \in Drainer : /\ Held(e)' \cap ToSet(pending') = {}
                             /\ \A f \in Drainer \ {e} : Held(e)' \cap Held(f)' = {}
      BY <2>2, <2>9, <2>14
    <3> QED BY <3>1, <3>2, <3>3 DEF EachOnce
  <2>16. InOrder'
    <3>1. \A e \in Drainer : \A t \in Held(e)', u \in ToSet(pending') : t < u
      BY <2>2, <2>14 DEF QInv, InOrder
    <3>2. \A e \in Drainer : Increasing(running'[e])
      BY <2>4, <2>6, QInvMeans
    <3> QED BY <2>2, <3>1, <3>2 DEF InOrder, Increasing
  <2>17. DrainBounded'
    <3>1. count[d] \in Nat /\ Len(running[d]) \in Nat
      BY <2>3 DEF QInv, QType
    <3>2. count'[d] + Len(running'[d]) = count[d] + Len(running[d])
      BY <2>4, <2>5, <2>6, <3>1 DEF QInv, QType
    <3>3. \A e \in Drainer \ {d} : count'[e] = count[e] /\ running'[e] = running[e]
      BY <2>5, <2>6 DEF QInv, QType
    <3> QED BY <2>5, <2>14, <3>2, <3>3 DEF QInv, DrainBounded
  <2> QED BY <2>2, <2>5, <2>6, <2>15, <2>16, <2>17 DEF QInv, QType
<1>4. ASSUME NEW d \in Drainer, Return(d) PROVE QInv'
  <2>1. /\ running[d] = <<>>
        /\ count' = [count EXCEPT ![d] = 0]
        /\ UNCHANGED <<pending, next, running, budget, mark, ran, dropped>>
    BY <1>4 DEF Return
  <2>2. DrainBounded'
    BY <2>1 DEF QInv, QType, DrainBounded, Held
  <2>3. QType'
    BY <2>1 DEF QInv, QType
  <2>4. Waiting' = Waiting /\ \A e \in Drainer : Held(e)' = Held(e)
    BY <2>1 DEF Waiting, Held
  <2>5. InOrder'
    BY <2>1, <2>4 DEF QInv, InOrder
  <2>6. EachOnce'
    BY <2>1, <2>4 DEF QInv, EachOnce
  <2> QED BY <2>2, <2>3, <2>5, <2>6 DEF QInv
<1>5. ASSUME NEW d \in Drainer, NEW b \in Budget, Take(d, b) PROVE QInv'
  <2>1. /\ running[d] = <<>>
        /\ running' = [running EXCEPT ![d] = Taken(b)]
        /\ pending' = Slice(b)
        /\ budget' = [budget EXCEPT ![d] = b]
        /\ mark' = [mark EXCEPT ![d] = next]
        /\ count' = [count EXCEPT ![d] = 0]
        /\ UNCHANGED <<next, ran, dropped>>
    BY <1>5 DEF Take
  <2>2. /\ Taken(b) \in Seq(Task) /\ Slice(b) \in Seq(Task)
        /\ ToSet(pending) = ToSet(Taken(b)) \cup ToSet(Slice(b))
        /\ Increasing(Taken(b)) /\ Increasing(Slice(b))
        /\ \A t \in ToSet(Taken(b)), u \in ToSet(Slice(b)) : t < u
        /\ b # 0 => Len(Taken(b)) <= b
    BY QInvMeans, SliceSplits DEF QInv, QType
  <2>3. /\ running'[d] = Taken(b)
        /\ \A e \in Drainer \ {d} : running'[e] = running[e]
        /\ running' \in [Drainer -> Seq(Task)]
    BY <2>1, <2>2 DEF QInv, QType
  <2>4. /\ Held(d) = {} /\ Held(d)' = ToSet(Taken(b))
        /\ \A e \in Drainer \ {d} : Held(e)' = Held(e)
    BY <2>1, <2>3 DEF Held, ToSet
  <2>5. /\ 1 .. next - 1 = Waiting \cup ran \cup dropped
        /\ ran \cap dropped = {} /\ Waiting \cap (ran \cup dropped) = {}
        /\ \A e \in Drainer : /\ Held(e) \cap ToSet(pending) = {}
                              /\ \A f \in Drainer \ {e} : Held(e) \cap Held(f) = {}
    BY DEF QInv, EachOnce
  <2>6. ToSet(Taken(b)) \cap ToSet(Slice(b)) = {}
    <3>1. \A t \in ToSet(pending) : t \in Nat
      BY DEF QInv, QType, ToSet, Task
    <3> QED BY <2>2, <3>1
  <2>7. Waiting' = Waiting
    BY <2>1, <2>2, <2>4 DEF Waiting
  <2>8. EachOnce'
    <3>1. /\ 1 .. next' - 1 = Waiting' \cup ran' \cup dropped'
          /\ ran' \cap dropped' = {} /\ Waiting' \cap (ran' \cup dropped') = {}
      BY <2>1, <2>5, <2>7
    <3>2. ToSet(pending') \subseteq ToSet(pending) /\ Held(d)' \subseteq ToSet(pending)
      BY <2>1, <2>2, <2>4
    <3>3. ASSUME NEW e \in Drainer PROVE Held(e)' \cap ToSet(pending') = {}
      <4>1. CASE e = d
        BY <2>1, <2>4, <2>6, <4>1
      <4>2. CASE e # d
        BY <2>4, <2>5, <3>2, <4>2
      <4> QED BY <4>1, <4>2
    <3>4. ASSUME NEW e \in Drainer, NEW f \in Drainer \ {e} PROVE Held(e)' \cap Held(f)' = {}
      <4>1. CASE e = d
        BY <2>4, <2>5, <3>2, <4>1
      <4>2. CASE f = d
        BY <2>4, <2>5, <3>2, <4>2
      <4>3. CASE e # d /\ f # d
        BY <2>4, <2>5, <4>3
      <4> QED BY <4>1, <4>2, <4>3
    <3> QED BY <3>1, <3>3, <3>4 DEF EachOnce
  <2>9. InOrder'
    <3>1. \A e \in Drainer : \A t \in Held(e)', u \in ToSet(pending') : t < u
      BY <2>1, <2>2, <2>4 DEF QInv, InOrder
    <3>2. \A e \in Drainer : Increasing(running'[e])
      BY <2>2, <2>3, QInvMeans
    <3> QED BY <2>1, <2>2, <3>1, <3>2 DEF InOrder, Increasing
  <2>10. DrainBounded'
    <3>1. Len(Taken(b)) \in Nat
      BY <2>2
    <3>2. /\ count'[d] = 0 /\ budget'[d] = b /\ mark'[d] = next
          /\ \A e \in Drainer \ {d} :
                count'[e] = count[e] /\ budget'[e] = budget[e] /\ mark'[e] = mark[e]
      BY <2>1 DEF QInv, QType
    <3>3. \A t \in Held(d)' : t < next
      BY <2>2, <2>4, QInvMeans
    <3> QED BY <2>2, <2>3, <2>4, <3>1, <3>2, <3>3 DEF QInv, DrainBounded
  <2> QED BY <2>1, <2>2, <2>3, <2>8, <2>9, <2>10 DEF QInv, QType
<1>6. CASE Clear
  <2>1. /\ dropped' = dropped \cup ToSet(pending) /\ pending' = <<>>
        /\ UNCHANGED <<next, running, budget, mark, count, ran>>
        /\ \A d \in Drainer : Held(d)' = Held(d)
    BY <1>6 DEF Clear, Held
  <2>2. ToSet(pending') = {}
    BY <2>1 DEF ToSet
  <2>3. Waiting' = Waiting \ ToSet(pending)
    BY <2>1, <2>2 DEF Waiting, QInv, EachOnce
  <2>4. ToSet(pending) \subseteq Waiting
    BY DEF Waiting
  <2>5. EachOnce'
    BY <2>1, <2>2, <2>3, <2>4 DEF QInv, EachOnce
  <2>6. InOrder' /\ DrainBounded'
    BY <2>1, <2>2 DEF QInv, InOrder, DrainBounded
  <2> QED BY <2>1, <2>5, <2>6 DEF QInv, QType
<1> QED BY <1>1, <1>2, <1>3, <1>4, <1>5, <1>6 DEF QueueNext

LEMMA QueueInvariant == QueueSpec => []QInv
  BY QInit, QStep, PTL DEF QueueSpec

-----------------------------------------------------------------------------
(* The plugin uses the queue as it may be used.                            *)

LEMMA TickIsQueueStep == [Next]_vars => [QueueNext]_queue
<1> SUFFICES ASSUME [Next]_vars PROVE QueueNext \/ UNCHANGED queue
  OBVIOUS
<1>1. CASE PushPong \/ PushProbe
  BY <1>1 DEF PushPong, PushProbe, QueueNext
<1>2. ASSUME NEW c \in Callbacks, Tick(c) PROVE QueueNext \/ UNCHANGED queue
  BY <1>2 DEF Tick, BeginTick, TakeBatch, RunTask, EndTick, QueueNext, Callbacks
<1>3. CASE Connect \/ JoinNet \/ ClearTasks
  BY <1>3 DEF Connect, JoinNet, ClearTasks, QueueNext
<1>4. CASE UNCHANGED vars
  BY <1>4 DEF vars
<1> QED BY <1>1, <1>2, <1>3, <1>4 DEF Next

\* Every step of the plugin is a step of the queue's specification, or leaves
\* the queue alone: the callbacks never use one call of Drain twice.
THEOREM TicksUseQueue == Spec => QueueSpec
<1>1. Init => QueueInit
  BY DEF Init
<1> QED BY <1>1, TickIsQueueStep, PTL DEF Spec, QueueSpec

\* Tasks are taken and run in the order of their pushes.
THEOREM TasksInOrder == Spec => []InOrder
<1>1. QInv => InOrder
  BY DEF QInv
<1> QED BY <1>1, TicksUseQueue, QueueInvariant, PTL

\* However pushes, drains and Clear interleave, no task is lost, held twice
\* or run again.
THEOREM TasksOnce == Spec => []EachOnce
<1>1. QInv => EachOnce
  BY DEF QInv
<1> QED BY <1>1, TicksUseQueue, QueueInvariant, PTL

\* A drain keeps to its budget and to the tasks it found.
THEOREM DrainsBounded == Spec => []DrainBounded
<1>1. QInv => DrainBounded
  BY DEF QInv
<1> QED BY <1>1, TicksUseQueue, QueueInvariant, PTL

-----------------------------------------------------------------------------
(* Unloading.                                                              *)

Kind == {"pong", "probe", "other"}

\* Nobody can queue a pong once the network thread is joined, which comes
\* before the queue is cleared.
UnloadInv ==
    /\ QInv
    /\ kind \in Seq(Kind) /\ Len(kind) = next - 1
    /\ plugin # "loaded" => net = "joined"
    /\ NoPongAfterUnload

LEMMA UnloadStep == UnloadInv /\ [Next]_vars => UnloadInv'
<1> SUFFICES ASSUME UnloadInv, [Next]_vars PROVE UnloadInv'
  OBVIOUS
<1>1. QInv'
  BY TickIsQueueStep, QStep DEF UnloadInv
<1>2. /\ \A t \in ToSet(pending) : t \in 1 .. Len(kind)
      /\ Len(kind) = next - 1 /\ next \in Nat \ {0}
  BY DEF UnloadInv, QInv, QType, EachOnce, Waiting
\* Steps that push nothing, and leave what is queued or take from it.
<1>3. ASSUME kind' = kind, next' = next, ToSet(pending') \subseteq ToSet(pending),
             plugin' = plugin, net' = net
      PROVE  UnloadInv'
  BY <1>1, <1>3 DEF UnloadInv, NoPongAfterUnload
\* Steps that push one task.
<1>4. ASSUME Pushed(1), NEW k \in Kind, kind' = Append(kind, k),
             plugin' = plugin, net' = net, k = "pong" => net = "running"
      PROVE  UnloadInv'
  <2>1. next' = next + 1 /\ ToSet(pending') = ToSet(pending) \cup {next}
    <3>1. Pushed(1) /\ 1 \in {0, 1}
      BY <1>4
    <3>2. ToSet(pending') = ToSet(pending) \cup next .. next' - 1 /\ next' = next + 1
      BY <3>1, PushStep DEF UnloadInv, Pushed
    <3>3. next .. next' - 1 = {next}
      BY <1>2, <3>2
    <3> QED BY <3>2, <3>3
  <2>2. /\ kind' \in Seq(Kind) /\ Len(kind') = Len(kind) + 1
        /\ kind'[next] = k
        /\ \A t \in 1 .. Len(kind) : kind'[t] = kind[t]
    BY <1>2, <1>4 DEF UnloadInv
  <2>3. plugin = "unloaded" => k # "pong"
    BY <1>4 DEF UnloadInv
  <2>4. NoPongAfterUnload'
    BY <1>2, <1>4, <2>1, <2>2, <2>3 DEF UnloadInv, NoPongAfterUnload
  <2> QED BY <1>1, <1>2, <1>4, <2>1, <2>2, <2>4 DEF UnloadInv
<1>5. CASE PushPong
  BY <1>4, <1>5 DEF PushPong, Push, Kind
<1>6. CASE PushProbe
  BY <1>4, <1>6 DEF PushProbe, Push, Kind
<1>7. ASSUME NEW c \in Callbacks, Tick(c) PROVE UnloadInv'
  <2>1. CASE \E w \in Worker : BeginTick(c, w)
    BY <1>3, <2>1 DEF BeginTick, queue
  <2>2. CASE TakeBatch(c)
    <3>1. ASSUME NEW b \in Budget, Take(c, b) PROVE ToSet(pending') \subseteq ToSet(pending)
      BY <3>1, QInvMeans, SliceSplits DEF Take, UnloadInv, QInv, QType
    <3> QED BY <1>3, <2>2, <3>1 DEF TakeBatch, Take, queue
  <2>3. CASE RunTask(c)
    <3>1. PICK n \in {0, 1} : Pushed(n)
      BY <2>3 DEF RunTask, Run
    <3>2. /\ kind' = IF next' = next THEN kind ELSE Append(kind, "other")
          /\ plugin' = plugin /\ net' = net
      BY <2>3 DEF RunTask
    <3>3. CASE n = 0
      <4>1. next' = next /\ next .. next - 1 = {}
        BY <1>2, <3>1, <3>3 DEF Pushed
      <4>2. ToSet(pending') \subseteq ToSet(pending)
        BY <3>1, <4>1, PushStep DEF UnloadInv
      <4> QED BY <1>3, <3>2, <4>1, <4>2
    <3>4. CASE n = 1
      <4>1. next' # next
        BY <1>2, <3>1, <3>4 DEF Pushed
      <4> QED BY <1>4, <3>1, <3>2, <3>4, <4>1 DEF Kind
    <3> QED BY <3>3, <3>4
  <2>4. CASE EndTick(c)
    BY <1>3, <2>4 DEF EndTick, Return
  <2> QED BY <1>7, <2>1, <2>2, <2>3, <2>4 DEF Tick
<1>8. CASE JoinNet
  BY <1>1, <1>8 DEF JoinNet, queue, UnloadInv, NoPongAfterUnload
<1>9. CASE ClearTasks
  <2>1. ToSet(pending') = {}
    BY <1>9 DEF ClearTasks, Clear, queue, ToSet
  <2>2. /\ plugin = "unloading" /\ net' = net /\ kind' = kind /\ next' = next
    BY <1>9 DEF ClearTasks, Clear, queue
  <2> QED BY <1>1, <2>1, <2>2 DEF UnloadInv, NoPongAfterUnload
<1>10. CASE Connect
  BY <1>3, <1>10 DEF Connect, queue
<1>11. CASE UNCHANGED vars
  BY <1>3, <1>11 DEF vars, queue, tickVars
<1> QED BY <1>5, <1>6, <1>7, <1>8, <1>9, <1>10, <1>11 DEF Next

\* No work of the network thread is left in the queue of an unloaded plugin.
THEOREM NoPongLeft == Spec => []NoPongAfterUnload
<1>1. Init => UnloadInv
  BY QInit DEF Init, QueueInit, UnloadInv, NoPongAfterUnload
<1>2. UnloadInv => NoPongAfterUnload
  BY DEF UnloadInv
<1> QED BY <1>1, <1>2, UnloadStep, PTL DEF Spec

-----------------------------------------------------------------------------
(* Counting.                                                               *)

\* Two ticks add to the counters in parallel: a tick that does not drain has
\* nothing to add.
Resting == \A c \in Callbacks : place[c] # "draining" => count[c] = 0

Pongs == {t \in ran \ earlier : kind[t] = "pong"}

CountInv ==
    /\ UnloadInv
    /\ Resting
    /\ tasksRun \in Nat /\ applied \in Nat
    /\ earlier \subseteq ran
    /\ IsFiniteSet(ran) /\ IsFiniteSet(Counted)
    /\ CountersAgree

LEMMA CountedPairs ==
    \A x : x \in Counted <=> \E c \in Callbacks : \E k \in 1 .. count[c] : x = <<c, k>>
BY DEF Counted

\* A tick that ends gives up as many pairs as it has counted.
LEMMA PairsOfOne ==
    ASSUME NEW c, NEW n \in Nat
    PROVE  IsFiniteSet({c} \X (1 .. n)) /\ Cardinality({c} \X (1 .. n)) = n
<1> DEFINE f == [k \in 1 .. n |-> <<c, k>>]
<1>1. f \in Bijection(1 .. n, {c} \X (1 .. n))
  <2>1. f \in [1 .. n -> {c} \X (1 .. n)]
    OBVIOUS
  <2>2. \A j, k \in 1 .. n : f[j] = f[k] => j = k
    OBVIOUS
  <2>3. \A x \in {c} \X (1 .. n) : \E k \in 1 .. n : f[k] = x
    OBVIOUS
  <2> HIDE DEF f
  <2> QED BY <2>1, <2>2, <2>3 DEF Bijection, Injection, Surjection, IsInjective
<1>2. ExistsBijection(1 .. n, {c} \X (1 .. n))
  BY <1>1 DEF ExistsBijection
<1> QED BY <1>2, FS_CountingElements, FS_NatBijection

LEMMA CountStep == CountInv /\ [Next]_vars => CountInv'
<1> SUFFICES ASSUME CountInv, [Next]_vars PROVE CountInv'
  OBVIOUS
<1>1. UnloadInv'
  BY UnloadStep DEF CountInv
<1>2. /\ ran \subseteq 1 .. Len(kind) /\ Len(kind) \in Nat
      /\ count \in [Callbacks -> Nat]
  BY DEF CountInv, UnloadInv, QInv, QType, EachOnce, Callbacks
\* Steps that run no task and end no tick.
<1>3. ASSUME ran' = ran, count' = count, tasksRun' = tasksRun, applied' = applied,
             earlier' = earlier,
             \A c \in Callbacks : place'[c] = "draining" \/ place[c] # "draining",
             \A t \in 1 .. Len(kind) : kind'[t] = kind[t]
      PROVE  CountInv'
  <2>1. Counted' = Counted
    BY <1>3 DEF Counted
  <2>2. Pongs' = Pongs
    BY <1>2, <1>3 DEF Pongs
  <2>3. Resting'
    BY <1>3 DEF CountInv, Resting
  <2> QED BY <1>1, <1>3, <2>1, <2>2, <2>3 DEF CountInv, CountersAgree, Pongs
<1>4. ASSUME Push, NEW k, kind' = Append(kind, k),
             UNCHANGED <<thread, place, tasksRun, applied, earlier>>
      PROVE  CountInv'
  <2>1. kind \in Seq(Kind)
    BY DEF CountInv, UnloadInv
  <2>2. \A t \in 1 .. Len(kind) : kind'[t] = kind[t]
    BY <1>4, <2>1
  <2> QED BY <1>3, <1>4, <2>2 DEF Push
<1>5. ASSUME NEW c \in Callbacks, Tick(c) PROVE CountInv'
  <2>1. CASE \E w \in Worker : BeginTick(c, w)
    <3>1. UNCHANGED <<ran, count, tasksRun, applied, earlier, kind>>
      BY <2>1 DEF BeginTick, queue
    <3>2. \A b \in Callbacks : place'[b] = "draining" \/ place[b] # "draining"
      BY <2>1 DEF BeginTick
    <3> QED BY <1>3, <3>1, <3>2
  <2>2. CASE TakeBatch(c)
    <3>1. UNCHANGED <<ran, tasksRun, applied, earlier, kind>>
      BY <2>2 DEF TakeBatch, Take, queue
    <3>2. count' = count
      <4>1. count[c] = 0
        BY <2>2 DEF TakeBatch, CountInv, Resting
      <4> QED BY <1>2, <2>2, <4>1 DEF TakeBatch, Take, queue
    <3>3. \A b \in Callbacks : place'[b] = "draining" \/ place[b] # "draining"
      BY <2>2 DEF TakeBatch
    <3> QED BY <1>3, <3>1, <3>2, <3>3
  <2>3. CASE RunTask(c)
    <3> DEFINE h == Head(running[c])
               n == count[c]
    <3>1. /\ place[c] = "draining" /\ UNCHANGED <<place, tasksRun, earlier>>
          /\ kind' = IF next' = next THEN kind ELSE Append(kind, "other")
          /\ running[c] # <<>> /\ ran' = ran \cup {h}
          /\ count' = [count EXCEPT ![c] = n + 1]
          /\ applied' = IF kind[h] = "pong" THEN applied + 1 ELSE applied
      BY <2>3 DEF RunTask, Run
    <3>2. h \in Held(c)
      <4>1. running[c] \in Seq(Task) /\ Increasing(running[c])
        BY QInvMeans DEF CountInv, UnloadInv, QInv, QType, Callbacks
      <4>2. ToSet(running[c]) = ToSet(Tail(running[c])) \cup {h}
        BY <3>1, <4>1, TailLeaves
      <4> QED BY <4>2 DEF Held
    <3>3. h \notin ran /\ h \in 1 .. Len(kind)
      <4>1. /\ Waiting \cap (ran \cup dropped) = {}
            /\ Waiting \subseteq 1 .. next - 1 /\ Len(kind) = next - 1
        BY DEF CountInv, UnloadInv, QInv, EachOnce
      <4>2. h \in Waiting
        BY <3>2 DEF Waiting, Callbacks
      <4> QED BY <4>1, <4>2
    <3> HIDE DEF h
    <3>4. n \in Nat
      BY <1>2
    <3>5. <<c, n + 1>> \notin Counted /\ Counted' = Counted \cup {<<c, n + 1>>}
      <4>1. count'[c] = n + 1 /\ \A b \in Callbacks \ {c} : count'[b] = count[b]
        BY <1>2, <3>1
      <4>2. \A k : k \in 1 .. n + 1 <=> k \in 1 .. n \/ k = n + 1
        BY <3>4
      <4>3. n + 1 \notin 1 .. n
        BY <3>4
      <4>4. \A x : x \in Counted' <=> \E b \in Callbacks : \E k \in 1 .. count'[b] : x = <<b, k>>
        BY DEF Counted
      <4> HIDE DEF n
      <4>5. <<c, n + 1>> \notin Counted
        BY <4>3, CountedPairs DEF n
      <4>6. \A x : x \in Counted' <=> x \in Counted \/ x = <<c, n + 1>>
        <5> SUFFICES ASSUME NEW x PROVE x \in Counted' <=> x \in Counted \/ x = <<c, n + 1>>
          OBVIOUS
        <5>1. ASSUME x \in Counted PROVE x \in Counted'
          BY <4>1, <4>2, <4>4, <5>1, CountedPairs DEF n
        <5>2. ASSUME x = <<c, n + 1>> PROVE x \in Counted'
          BY <4>1, <4>2, <4>4, <5>2
        <5>3. ASSUME x \in Counted' PROVE x \in Counted \/ x = <<c, n + 1>>
          BY <4>1, <4>2, <4>4, <5>3, CountedPairs DEF n
        <5> QED BY <5>1, <5>2, <5>3
      <4> QED BY <4>5, <4>6
    <3>6. /\ IsFiniteSet(ran') /\ IsFiniteSet(Counted')
          /\ Cardinality(ran') = Cardinality(ran) + 1
          /\ Cardinality(Counted') = Cardinality(Counted) + 1
      BY <3>1, <3>3, <3>5, FS_AddElement DEF CountInv
    <3>7. Cardinality(ran) \in Nat /\ Cardinality(Counted) \in Nat /\ tasksRun \in Nat
      BY FS_CardinalityType DEF CountInv
    <3>8. Cardinality(ran') = tasksRun' + Cardinality(Counted')
      BY <3>1, <3>6, <3>7 DEF CountInv, CountersAgree
    <3>11. \A t \in 1 .. Len(kind) : kind'[t] = kind[t]
      BY <3>1 DEF CountInv, UnloadInv
    <3>9. applied' \in Nat /\ applied' = Cardinality(Pongs')
      <4>1. IsFiniteSet(Pongs) /\ applied = Cardinality(Pongs) /\ applied \in Nat
        BY FS_Subset DEF CountInv, CountersAgree, Pongs
      <4>2. CASE kind[h] = "pong"
        <5>1. Pongs' = Pongs \cup {h} /\ h \notin Pongs
          BY <1>2, <3>1, <3>3, <3>11, <4>2 DEF Pongs, CountInv
        <5>2. Cardinality(Pongs \cup {h}) = Cardinality(Pongs) + 1
          BY <4>1, <5>1, FS_AddElement
        <5> QED BY <3>1, <4>1, <4>2, <5>1, <5>2
      <4>3. CASE kind[h] # "pong"
        <5>1. Pongs' = Pongs
          BY <1>2, <3>1, <3>3, <3>11, <4>3 DEF Pongs
        <5> QED BY <3>1, <4>1, <4>3, <5>1
      <4> QED BY <4>2, <4>3
    <3>10. Resting'
      BY <1>2, <3>1 DEF CountInv, Resting
    <3> QED BY <1>1, <3>1, <3>6, <3>8, <3>9, <3>10 DEF CountInv, CountersAgree, Pongs
  <2>4. CASE EndTick(c)
    <3> DEFINE n == count[c]
               B == {c} \X (1 .. n)
    <3>1. /\ ran' = ran /\ kind' = kind /\ applied' = applied /\ tasksRun' = tasksRun + n
          /\ earlier' = earlier
          /\ count' = [count EXCEPT ![c] = 0] /\ place' = [place EXCEPT ![c] = "idle"]
      BY <2>4 DEF EndTick, Return
    <3>2. n \in Nat /\ tasksRun' \in Nat
      BY <1>2, <3>1 DEF CountInv
    <3>3. count'[c] = 0 /\ \A b \in Callbacks \ {c} : count'[b] = count[b]
      BY <1>2, <3>1
    <3>4. Counted = Counted' \cup B /\ Counted' \cap B = {}
      <4>1. 1 .. 0 = {}
        OBVIOUS
      <4>2. Counted' = UNION {{b} \X (1 .. count[b]) : b \in Callbacks \ {c}}
        BY <3>3, <4>1 DEF Counted
      <4> QED BY <4>2 DEF Counted
    <3>5. IsFiniteSet(B) /\ Cardinality(B) = n
      BY <3>2, PairsOfOne
    <3>6. IsFiniteSet(Counted')
      BY <3>4, FS_Subset DEF CountInv
    <3> HIDE DEF B, n
    <3>7. Cardinality(Counted) = Cardinality(Counted') + n
      <4>1. Cardinality({}) = 0
        BY FS_EmptySet
      <4>2. Cardinality(Counted' \cup B) =
               Cardinality(Counted') + Cardinality(B) - Cardinality(Counted' \cap B)
        BY <3>5, <3>6, FS_Union
      <4>3. Cardinality(Counted') \in Nat
        BY <3>6, FS_CardinalityType
      <4>4. /\ Cardinality(Counted' \cap B) = 0
            /\ Cardinality(Counted' \cup B) = Cardinality(Counted)
        BY <3>4, <4>1
      <4> QED BY <3>2, <3>5, <4>2, <4>3, <4>4
    <3>8. Cardinality(ran') = tasksRun' + Cardinality(Counted')
      <4>1. Cardinality(Counted') \in Nat /\ tasksRun \in Nat
        BY <3>6, FS_CardinalityType DEF CountInv
      <4> QED BY <3>1, <3>2, <3>7, <4>1 DEF CountInv, CountersAgree
    <3>9. Resting'
      BY <3>1, <3>3 DEF CountInv, Resting
    <3>10. Pongs' = Pongs
      BY <3>1 DEF Pongs
    <3> QED BY <1>1, <3>1, <3>2, <3>6, <3>8, <3>9, <3>10 DEF CountInv, CountersAgree, Pongs
  <2> QED BY <1>5, <2>1, <2>2, <2>3, <2>4 DEF Tick
<1>6. CASE PushPong
  BY <1>4, <1>6 DEF PushPong
<1>7. CASE PushProbe
  BY <1>4, <1>7 DEF PushProbe
<1>8. CASE JoinNet
  BY <1>3, <1>8 DEF JoinNet, queue
<1>9. CASE ClearTasks
  BY <1>3, <1>9 DEF ClearTasks, Clear, queue
\* The count of the new connection begins at nothing.
<1>10. CASE Connect
  <2>1. /\ ran' = ran /\ count' = count /\ kind' = kind /\ place' = place
        /\ tasksRun' = tasksRun /\ applied' = 0 /\ earlier' = ran
    BY <1>10 DEF Connect, queue
  <2>2. {t \in ran' \ earlier' : kind'[t] = "pong"} = {} /\ Counted' = Counted
    BY <2>1 DEF Counted
  <2> QED BY <1>1, <2>1, <2>2, FS_EmptySet DEF CountInv, CountersAgree, Resting
<1>11. CASE UNCHANGED vars
  BY <1>3, <1>11 DEF vars, queue, tickVars
<1> QED BY <1>5, <1>6, <1>7, <1>8, <1>9, <1>10, <1>11 DEF Next

\* The totals are right although the ticks add to them in parallel.
THEOREM CountersRight == Spec => []CountersAgree
<1>1. ASSUME Init PROVE CountInv
  <2>1. UnloadInv
    BY <1>1, QInit DEF Init, QueueInit, UnloadInv, NoPongAfterUnload
  <2>2. ran = {} /\ earlier = {} /\ tasksRun = 0 /\ applied = 0 /\ \A c \in Callbacks : count[c] = 0
    BY <1>1 DEF Init, QueueInit, Callbacks
  <2>3. Counted = {}
    BY <2>2 DEF Counted
  <2>4. {t \in ran \ earlier : kind[t] = "pong"} = {}
    BY <2>2
  <2> QED BY <2>1, <2>2, <2>3, <2>4, FS_EmptySet DEF CountInv, Resting, CountersAgree
<1>2. CountInv => CountersAgree
  BY DEF CountInv
<1> QED BY <1>1, <1>2, CountStep, PTL DEF Spec
=============================================================================
