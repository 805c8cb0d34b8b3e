--------------------------- MODULE CybermpProofs ---------------------------
(***************************************************************************)
(* What a client knows of who is connected, for any number of clients,     *)
(* names, reconnects and ids, on both kinds of network.  The argument:     *)
(*   Table       sessions and the ids that were given to each endpoint;    *)
(*   AllReal     every join that is on its way or in a list names a player *)
(*               the server let in, and never the receiver's own person;   *)
(*   Alone       a person has one connection at a time, so that what the   *)
(*               person lists is changed by that connection only;          *)
(*   Uninformed  a client without a session has been told of nobody: it    *)
(*               lists what earlier connections left;                      *)
(*   Exact       on a reliable network the list of a client together with  *)
(*               what is on its way to it is the server's table and what   *)
(*               earlier connections left.                                 *)
(***************************************************************************)
EXTENDS Cybermp, FiniteSetTheorems, SequenceTheorems, TLAPS

-----------------------------------------------------------------------------
(* Messages, and what a queue of them does to a list.                      *)

Results ==
    {"accepted", "already joined", "protocol version mismatch",
     "name already taken", "server full"}

Message ==
    {S!HelloAck(r) : r \in Results} \cup {S!Left(i) : i \in Nat}
        \cup {S!Joined(i, n) : i \in Nat, n \in Name}

Brings(m, i) == m.type = "NotifyPlayerJoined" /\ m.playerId = i
Takes(m, i)  == m.type = "NotifyPlayerLeft" /\ m.playerId = i

LEMMA AckFields ==
    ASSUME NEW r \in Results
    PROVE  S!HelloAck(r) \in Message /\ S!HelloAck(r).type = "HelloAck"
<1>1. S!HelloAck(r) \in Message
  BY DEF Message
<1>2. S!HelloAck(r).type = "HelloAck"
  BY DEF S!HelloAck
<1> QED BY <1>1, <1>2

LEMMA LeftFields ==
    ASSUME NEW i \in Nat
    PROVE  /\ S!Left(i) \in Message
           /\ S!Left(i).type = "NotifyPlayerLeft" /\ S!Left(i).playerId = i
BY DEF S!Left, Message

LEMMA JoinedFields ==
    ASSUME NEW i \in Nat, NEW n \in Name
    PROVE  /\ S!Joined(i, n) \in Message
           /\ S!Joined(i, n).type = "NotifyPlayerJoined"
           /\ S!Joined(i, n).playerId = i /\ S!Joined(i, n).username = n
BY DEF S!Joined, Message

\* Whether i leaves behind the k-th message of queue q, and whether a client
\* with the players V knows i once it has read q.
Goes(q, i, k)  == \E h \in DOMAIN q : h > k /\ Takes(q[h], i)
Knows(V, q, i) == \/ i \in V /\ ~Goes(q, i, 0)
                  \/ \E k \in DOMAIN q : Brings(q[k], i) /\ ~Goes(q, i, k)

\* Whether i, whom a client lists since before, is still there when it has
\* read q.
Stays(V, q, i) == i \in V /\ ~Goes(q, i, 0)

LEMMA KnowsOfEmpty ==
    \A V, i : (Knows(V, <<>>, i) <=> i \in V) /\ (Stays(V, <<>>, i) <=> i \in V)
BY DEF Knows, Stays, Goes

\* A message at the end of the queue has the last word.
LEMMA KnowsAppend ==
    ASSUME NEW q \in Seq(Message), NEW m \in Message, NEW i
    PROVE  /\ \A V : Knows(V, Append(q, m), i)
                       <=> Brings(m, i) \/ (Knows(V, q, i) /\ ~Takes(m, i))
           /\ \A V : Stays(V, Append(q, m), i) <=> Stays(V, q, i) /\ ~Takes(m, i)
<1> DEFINE r == Append(q, m)
           n == Len(q)
<1>1. /\ n \in Nat /\ DOMAIN q = 1 .. n /\ DOMAIN r = 1 .. n + 1
      /\ \A k \in 1 .. n : r[k] = q[k]
      /\ r[n + 1] = m
  OBVIOUS
<1> HIDE DEF r, n
<1>2. ~(Brings(m, i) /\ Takes(m, i))
  BY DEF Brings, Takes
<1> HIDE DEF Brings, Takes
<1>3. ASSUME NEW k \in 0 .. n PROVE Goes(r, i, k) <=> Goes(q, i, k) \/ Takes(m, i)
  <2>1. Goes(q, i, k) => Goes(r, i, k)
    BY <1>1 DEF Goes
  <2>2. Takes(m, i) => Goes(r, i, k)
    BY <1>1 DEF Goes
  <2>3. Goes(r, i, k) => Goes(q, i, k) \/ Takes(m, i)
    BY <1>1 DEF Goes
  <2> QED BY <2>1, <2>2, <2>3
<1>4. ~Goes(r, i, n + 1)
  BY <1>1 DEF Goes
<1>5. \A V : Stays(V, r, i) <=> Stays(V, q, i) /\ ~Takes(m, i)
  <2>1. Goes(r, i, 0) <=> Goes(q, i, 0) \/ Takes(m, i)
    BY <1>1, <1>3
  <2> QED BY <2>1 DEF Stays
<1>6. ASSUME NEW V PROVE Knows(V, r, i) <=> Brings(m, i) \/ (Knows(V, q, i) /\ ~Takes(m, i))
  <2>1. CASE Brings(m, i)
    BY <1>1, <1>4, <2>1 DEF Knows
  <2>2. CASE Takes(m, i)
    <3>1. \A k \in 0 .. n : Goes(r, i, k)
      BY <1>3, <2>2
    <3>2. ~Knows(V, r, i)
      BY <1>1, <1>2, <2>2, <3>1 DEF Knows
    <3> QED BY <1>2, <2>2, <3>2
  <2>3. CASE ~Brings(m, i) /\ ~Takes(m, i)
    <3>1. \A k \in 0 .. n : Goes(r, i, k) <=> Goes(q, i, k)
      BY <1>3, <2>3
    <3>2. Knows(V, r, i) <=> Knows(V, q, i)
      BY <1>1, <2>3, <3>1 DEF Knows
    <3> QED BY <2>3, <3>2
  <2> QED BY <2>1, <2>2, <2>3
<1> QED BY <1>5, <1>6 DEF r

\* Reading the first message of the queue changes nothing of that.
LEMMA KnowsHead ==
    ASSUME NEW q \in Seq(Message), q # <<>>, NEW i
    PROVE  /\ \A V, W : (i \in W <=> Brings(Head(q), i) \/ (i \in V /\ ~Takes(Head(q), i)))
                            => (Knows(W, Tail(q), i) <=> Knows(V, q, i))
           /\ \A V, W : (i \in W <=> i \in V /\ ~Takes(Head(q), i))
                            => (Stays(W, Tail(q), i) <=> Stays(V, q, i))
<1> DEFINE t == Tail(q)
           n == Len(t)
           m == Head(q)
<1>1. /\ n \in Nat /\ DOMAIN t = 1 .. n /\ DOMAIN q = 1 .. n + 1
      /\ \A k \in 1 .. n : t[k] = q[k + 1]
      /\ q[1] = m
  OBVIOUS
<1> HIDE DEF t, n, m
<1>2. ~(Brings(m, i) /\ Takes(m, i))
  BY DEF Brings, Takes
<1> HIDE DEF Brings, Takes
<1>3. ASSUME NEW k \in 0 .. n PROVE Goes(t, i, k) <=> Goes(q, i, k + 1)
  <2>1. Goes(t, i, k) => Goes(q, i, k + 1)
    <3> SUFFICES ASSUME NEW h \in DOMAIN t, h > k, Takes(t[h], i) PROVE Goes(q, i, k + 1)
      BY DEF Goes
    <3> h + 1 \in DOMAIN q /\ h + 1 > k + 1 /\ q[h + 1] = t[h]
      BY <1>1
    <3> QED BY DEF Goes
  <2>2. Goes(q, i, k + 1) => Goes(t, i, k)
    <3> SUFFICES ASSUME NEW h \in DOMAIN q, h > k + 1, Takes(q[h], i) PROVE Goes(t, i, k)
      BY DEF Goes
    <3> h - 1 \in DOMAIN t /\ h - 1 > k /\ q[h] = t[h - 1]
      BY <1>1
    <3> QED BY DEF Goes
  <2> QED BY <2>1, <2>2
<1>4. Goes(q, i, 0) <=> Goes(t, i, 0) \/ Takes(m, i)
  <2>1. Goes(q, i, 0) => Goes(q, i, 1) \/ Takes(m, i)
    BY <1>1 DEF Goes
  <2>2. Goes(q, i, 1) \/ Takes(m, i) => Goes(q, i, 0)
    BY <1>1 DEF Goes
  <2>3. Goes(t, i, 0) <=> Goes(q, i, 1)
    BY <1>1, <1>3
  <2> QED BY <2>1, <2>2, <2>3
<1>5. (\E k \in DOMAIN q : Brings(q[k], i) /\ ~Goes(q, i, k))
        <=> \/ Brings(m, i) /\ ~Goes(t, i, 0)
            \/ \E k \in DOMAIN t : Brings(t[k], i) /\ ~Goes(t, i, k)
  <2>1. Goes(t, i, 0) <=> Goes(q, i, 1)
    BY <1>1, <1>3
  <2>2. ASSUME NEW k \in DOMAIN t
        PROVE  /\ k + 1 \in DOMAIN q /\ q[k + 1] = t[k]
               /\ Goes(t, i, k) <=> Goes(q, i, k + 1)
    BY <1>1, <1>3
  <2>3. ASSUME NEW k \in DOMAIN q, k # 1
        PROVE  /\ k - 1 \in DOMAIN t /\ q[k] = t[k - 1]
               /\ Goes(t, i, k - 1) <=> Goes(q, i, k)
    <3>1. k - 1 \in DOMAIN t /\ (k - 1) + 1 = k
      BY <1>1, <2>3
    <3> QED BY <2>2, <3>1
  <2>4. 1 \in DOMAIN q
    BY <1>1
  <2> QED BY <1>1, <2>1, <2>2, <2>3, <2>4
<1>6. \A V, W : (i \in W <=> i \in V /\ ~Takes(m, i)) => (Stays(W, t, i) <=> Stays(V, q, i))
  BY <1>4 DEF Stays
<1>7. \A V, W : (i \in W <=> Brings(m, i) \/ (i \in V /\ ~Takes(m, i)))
                   => (Knows(W, t, i) <=> Knows(V, q, i))
  BY <1>2, <1>4, <1>5 DEF Knows
<1> QED BY <1>6, <1>7 DEF t, m

\* A newcomer's first roster.
LEMMA KnowsRoster ==
    ASSUME NEW q \in Seq(Message), NEW line \in Seq(Message), NEW i,
           \A k \in DOMAIN q : q[k].type = "HelloAck",
           \A k \in DOMAIN line : line[k].type # "NotifyPlayerLeft"
    PROVE  /\ \A V : Knows(V, q \o line, i)
                       <=> i \in V \/ \E k \in DOMAIN line : Brings(line[k], i)
           /\ \A V : Stays(V, q \o line, i) <=> i \in V
<1> DEFINE r == q \o line
           n == Len(q)
           p == Len(line)
<1>1. /\ n \in Nat /\ p \in Nat /\ DOMAIN q = 1 .. n /\ DOMAIN line = 1 .. p
      /\ DOMAIN r = 1 .. n + p
      /\ \A k \in 1 .. n : r[k] = q[k]
      /\ \A k \in 1 .. p : r[n + k] = line[k]
  OBVIOUS
<1> HIDE DEF r, n, p
<1>2. ASSUME NEW k \in DOMAIN r 
      PROVE  k \in DOMAIN q \/ (k - n \in DOMAIN line /\ r[k] = line[k - n])
  <2>1. CASE k \in DOMAIN q
    BY <2>1
  <2>2. CASE k \notin DOMAIN q
    <3>1. k - n \in 1 .. p /\ n + (k - n) = k
      BY <1>1, <2>2
    <3> QED BY <1>1, <3>1
  <2> QED BY <2>1, <2>2
<1>3. \A k \in DOMAIN r : ~Takes(r[k], i)
  BY <1>1, <1>2 DEF Takes
<1>4. \A k : ~Goes(r, i, k)
  BY <1>3 DEF Goes
<1>5. \A V : /\ Knows(V, r, i) <=> i \in V \/ \E k \in DOMAIN r : Brings(r[k], i)
             /\ Stays(V, r, i) <=> i \in V
  BY <1>4 DEF Knows, Stays
<1>6. \A k \in DOMAIN q : ~Brings(r[k], i)
  BY <1>1 DEF Brings
<1>7. ASSUME NEW k \in DOMAIN line PROVE n + k \in DOMAIN r /\ r[n + k] = line[k]
  BY <1>1
<1>8. (\E k \in DOMAIN r : Brings(r[k], i)) <=> \E k \in DOMAIN line : Brings(line[k], i)
  BY <1>2, <1>6, <1>7
<1> QED BY <1>5, <1>8 DEF r

-----------------------------------------------------------------------------
(* The invariant.                                                          *)

States == {"off", "Connecting", "Connected", "Disconnected", "Refused"}

\* Who keeps what: a reliable network holds a queue, and no heap.
Shape ==
    /\ net \in {"udp", "reliable"}
    /\ hellos \in [Endpoint -> Nat]
    /\ client \in [Endpoint -> States]
    /\ queue \in [Endpoint -> Seq(Message)]
    /\ sent \in [Endpoint -> SUBSET Message]
    /\ bodies \in [Person -> SUBSET Nat]
    /\ list \in [Person -> SUBSET Nat]
    /\ leftover \in [Person -> SUBSET Nat]
    /\ net = "reliable" => \A e \in Endpoint : sent[e] = {}

\* A session is in the table under an id its endpoint was given, no id is
\* given twice, and nobody is in twice.
Table ==
    /\ nextId \in Nat \ {0}
    /\ made \in [Endpoint -> SUBSET (1 .. nextId - 1)]
    /\ \A e, f \in Endpoint : e # f => made[e] \cap made[f] = {}
    /\ \A i \in DOMAIN sessions :
          /\ sessions[i].endpoint \in Endpoint
          /\ sessions[i].username = NameOf[sessions[i].endpoint]
          /\ i \in made[sessions[i].endpoint]
    /\ \A i, j \in DOMAIN sessions :
          sessions[i].username = sessions[j].username => i = j

\* To person p, player i is somebody else, let in as n.
Real(p, i, n) == \E f \in Endpoint : i \in made[f] /\ NameOf[f] = n /\ n # p

Other(p, i) == \E f \in Endpoint : i \in made[f] /\ NameOf[f] # p

Truthful(e, m) ==
    m.type = "NotifyPlayerJoined" => Real(NameOf[e], m.playerId, m.username)

AllReal ==
    /\ \A p \in Person : \A i \in bodies[p] \cup list[p] \cup leftover[p] : Other(p, i)
    /\ \A e \in Endpoint :
          /\ \A k \in DOMAIN queue[e] : Truthful(e, queue[e][k])
          /\ \A m \in sent[e] : Truthful(e, m)

Alone ==
    \A e, f \in Endpoint :
       Running(e) /\ Running(f) /\ NameOf[e] = NameOf[f] => e = f

Started ==
    \A e \in Endpoint : client[e] = "off" => hellos[e] = 0 /\ made[e] = {}

Uninformed ==
    net = "reliable" => \A e \in Endpoint : made[e] = {} =>
       /\ Running(e) => list[NameOf[e]] = leftover[NameOf[e]]
       /\ \A k \in DOMAIN queue[e] : queue[e][k].type = "HelloAck"

\* What client e will list when it has read what is on its way to it, and
\* who of those listed before its connection will still be listed.
WillList(e, i) == Knows(list[NameOf[e]], queue[e], i)
WillKeep(e, i) == Stays(leftover[NameOf[e]], queue[e], i)

\* For a client whose one session s is alive, what it lists and what is on
\* its way to it together make the server's table and the left-overs.
Exact ==
    net = "reliable" => \A e \in Endpoint, s \in DOMAIN sessions :
       Running(e) /\ sessions[s].endpoint = e /\ made[e] = {s} =>
          \A i \in Nat : WillList(e, i) <=> i \in DOMAIN sessions \ {s} \/ WillKeep(e, i)

IInv == Shape /\ Table /\ AllReal /\ Alone /\ Started /\ Uninformed /\ Exact

LEMMA Persons == \A e \in Endpoint : NameOf[e] \in Person
BY DEF Person

-----------------------------------------------------------------------------
(* What a server step puts on its way.                                     *)

LEMMA ListingIs ==
    ASSUME NEW M \in SUBSET Message, IsFiniteSet(M), NEW l \in Listings(M)
    PROVE  /\ l \in Seq(Message)
           /\ \A k \in DOMAIN l : l[k] \in M
           /\ \A m \in M : \E k \in DOMAIN l : l[k] = m
           /\ M = {} => l = <<>>
           /\ \A m : M = {m} => l = <<m>>
<1>1. Cardinality(M) \in Nat
  BY FS_CardinalityType
<1>2. l \in [1 .. Cardinality(M) -> M] /\ \A m \in M : \E k \in DOMAIN l : l[k] = m
  BY DEF Listings
<1>3. l \in Seq(Message) /\ Len(l) = Cardinality(M)
  <2> DEFINE n == Cardinality(M)
  <2>1. n \in Nat /\ l \in [1 .. n -> Message]
    BY <1>1, <1>2
  <2> HIDE DEF n
  <2>2. l \in Seq(Message) /\ Len(l) = n
    BY <2>1
  <2> QED BY <2>2 DEF n
<1>4. M = {} => l = <<>>
  <2>1. M = {} => Cardinality(M) = 0
    BY FS_EmptySet
  <2> QED BY <1>3, <2>1
<1>5. ASSUME NEW m, M = {m} PROVE l = <<m>>
  <2>1. Cardinality(M) = 1
    BY <1>5, FS_Singleton
  <2>2. Len(l) = 1 /\ l[1] = m
    <3>1. l \in [1 .. 1 -> M]
      BY <1>2, <2>1
    <3>2. l[1] \in M
      BY <3>1
    <3> QED BY <1>3, <1>5, <2>1, <3>2
  <2>3. /\ <<m>> \in Seq(Message) /\ Len(<<m>>) = 1
        /\ \A k \in 1 .. 1 : l[k] = <<m>>[k]
    BY <1>5, <2>2
  <2> QED BY <1>3, <2>2, <2>3, SeqEqual
<1> QED BY <1>2, <1>3, <1>4, <1>5

\* What the datagrams of a step are: none is malformed, and finitely many go
\* to one client.
Sendable(out) ==
    \A e \in Endpoint : To(e, out) \subseteq Message /\ IsFiniteSet(To(e, out))

LEMMA Carried ==
    ASSUME Shape, NEW out, Sendable(out), Transmit(out)
    PROVE  /\ net' = net /\ UNCHANGED clientVars
           /\ net = "udp" =>
                 queue' = queue /\ sent' = [e \in Endpoint |-> sent[e] \cup To(e, out)]
           /\ net = "reliable" =>
                 /\ sent' = sent /\ DOMAIN queue' = Endpoint
                 /\ queue' \in [Endpoint -> Seq(Message)]
                 /\ \A e \in Endpoint :
                       \E l \in Listings(To(e, out)) : queue'[e] = queue[e] \o l
<1>1. net' = net /\ UNCHANGED clientVars
  BY DEF Transmit
<1>2. CASE net = "udp"
  BY <1>1, <1>2 DEF Transmit
<1>3. CASE net = "reliable"
  <2>1. sent' = sent
    BY <1>3 DEF Transmit
  <2>2. PICK line : /\ \A e \in Endpoint : line[e] \in Listings(To(e, out))
                    /\ queue' = [e \in Endpoint |-> queue[e] \o line[e]]
    BY <1>3 DEF Transmit
  <2>3. ASSUME NEW e \in Endpoint
        PROVE  queue'[e] = queue[e] \o line[e] /\ queue'[e] \in Seq(Message)
    <3>1. line[e] \in Seq(Message)
      BY <2>2, ListingIs DEF Sendable
    <3>2. queue[e] \in Seq(Message)
      BY DEF Shape
    <3>3. queue[e] \o line[e] \in Seq(Message)
      BY <3>1, <3>2
    <3> QED BY <2>2, <3>3
  <2>4. queue' \in [Endpoint -> Seq(Message)]
    BY <2>2, <2>3
  <2> QED BY <1>1, <1>3, <2>1, <2>2, <2>3, <2>4
<1> QED BY <1>1, <1>2, <1>3 DEF Shape

\* Sequence l is what client e is told by the datagrams out, in some order.
Line(l, e, out) ==
    /\ l \in Seq(Message) /\ queue'[e] = queue[e] \o l
    /\ \A k \in DOMAIN l : l[k] \in To(e, out)
    /\ \A m \in To(e, out) : \E k \in DOMAIN l : l[k] = m

\* The same for one client: it is told nothing, one thing, or more.
LEMMA CarriedTo ==
    ASSUME Shape, NEW out, Sendable(out), Transmit(out), net = "reliable",
           NEW e \in Endpoint
    PROVE  /\ To(e, out) = {} => queue'[e] = queue[e]
           /\ \A m : To(e, out) = {m} => queue'[e] = Append(queue[e], m)
           /\ \E l : Line(l, e, out)
<1>1. PICK l \in Listings(To(e, out)) : queue'[e] = queue[e] \o l
  BY Carried
<1>2. To(e, out) \in SUBSET Message /\ IsFiniteSet(To(e, out))
  BY DEF Sendable
<1>3. queue[e] \in Seq(Message)
  BY DEF Shape
<1>4. /\ l \in Seq(Message)
      /\ \A k \in DOMAIN l : l[k] \in To(e, out)
      /\ \A m \in To(e, out) : \E k \in DOMAIN l : l[k] = m
      /\ To(e, out) = {} => l = <<>>
      /\ \A m : To(e, out) = {m} => l = <<m>>
  BY <1>2, ListingIs
<1>5. To(e, out) = {} => queue'[e] = queue[e]
  BY <1>1, <1>3, <1>4
<1>6. ASSUME NEW m, To(e, out) = {m} PROVE queue'[e] = Append(queue[e], m)
  <2>1. m \in Message /\ l = <<m>>
    BY <1>2, <1>4, <1>6
  <2> QED BY <1>1, <1>3, <2>1
<1>7. Line(l, e, out)
  BY <1>1, <1>4 DEF Line
<1> QED BY <1>5, <1>6, <1>7

\* A step that sends one message, to whom it may concern.
LEMMA ToldOne ==
    ASSUME NEW msg \in Message, NEW out, \A d \in out : d.msg = msg
    PROVE  /\ Sendable(out)
           /\ \A e \in Endpoint :
                 /\ Running(e) /\ (\E d \in out : d.to = e) => To(e, out) = {msg}
                 /\ ~(Running(e) /\ \E d \in out : d.to = e) => To(e, out) = {}
<1>1. \A e \in Endpoint :
         /\ Running(e) /\ (\E d \in out : d.to = e) => To(e, out) = {msg}
         /\ ~(Running(e) /\ \E d \in out : d.to = e) => To(e, out) = {}
  BY DEF To
<1>2. IsFiniteSet({msg}) /\ IsFiniteSet({})
  BY FS_Singleton, FS_EmptySet
<1>3. ASSUME NEW e \in Endpoint PROVE To(e, out) \subseteq Message /\ IsFiniteSet(To(e, out))
  BY <1>1, <1>2
<1> QED BY <1>1, <1>3 DEF Sendable

LEMMA AnswerTells ==
    ASSUME NEW e \in Endpoint, NEW r \in Results
    PROVE  LET out == S!Send(e, S!HelloAck(r))
           IN  /\ Sendable(out)
               /\ \A f \in Endpoint : \/ To(f, out) = {}
                                      \/ f = e /\ To(f, out) = {S!HelloAck(r)}
<1> DEFINE out == S!Send(e, S!HelloAck(r))
<1>1. \A d \in out : d.msg = S!HelloAck(r) /\ d.to = e
  BY DEF S!Send
<1> HIDE DEF out
<1>2. S!HelloAck(r) \in Message
  BY AckFields
<1>3. Sendable(out) /\ \A f \in Endpoint :
         /\ Running(f) /\ (\E d \in out : d.to = f) => To(f, out) = {S!HelloAck(r)}
         /\ ~(Running(f) /\ \E d \in out : d.to = f) => To(f, out) = {}
  BY <1>1, <1>2, ToldOne
<1> QED BY <1>1, <1>3 DEF out

\* A leave reaches everyone who has a session other than that of i.
LEMMA DropTells ==
    ASSUME Table, NEW i \in DOMAIN sessions
    PROVE  LET out == S!Broadcast(S!Without(sessions, i), S!Left(i), i)
           IN  /\ Sendable(out)
               /\ \A e \in Endpoint :
                     LET told == \E j \in DOMAIN sessions \ {i} : sessions[j].endpoint = e
                     IN  /\ Running(e) /\ told => To(e, out) = {S!Left(i)}
                         /\ ~(Running(e) /\ told) => To(e, out) = {}
<1> DEFINE out == S!Broadcast(S!Without(sessions, i), S!Left(i), i)
<1>1. \A d \in out : d.msg = S!Left(i)
  BY DEF S!Broadcast
<1>2. \A e : (\E d \in out : d.to = e)
                <=> \E j \in DOMAIN sessions \ {i} : sessions[j].endpoint = e
  <2>1. /\ DOMAIN S!Without(sessions, i) \ {i} = DOMAIN sessions \ {i}
        /\ \A j \in DOMAIN sessions \ {i} : S!Without(sessions, i)[j] = sessions[j]
    BY DEF S!Without
  <2>2. out = {[to |-> sessions[j].endpoint, msg |-> S!Left(i)] : j \in DOMAIN sessions \ {i}}
    BY <2>1 DEF S!Broadcast
  <2> HIDE DEF out
  <2>3. ASSUME NEW d \in out PROVE \E j \in DOMAIN sessions \ {i} : sessions[j].endpoint = d.to
    BY <2>2
  <2>4. ASSUME NEW j \in DOMAIN sessions \ {i} PROVE \E d \in out : d.to = sessions[j].endpoint
    <3>1. [to |-> sessions[j].endpoint, msg |-> S!Left(i)] \in out
      BY <2>2
    <3> QED BY <3>1
  <2> QED BY <2>3, <2>4
<1> HIDE DEF out
<1>3. i \in Nat
  BY DEF Table
<1>4. S!Left(i) \in Message
  BY <1>3, LeftFields
<1>5. Sendable(out) /\ \A e \in Endpoint :
         /\ Running(e) /\ (\E d \in out : d.to = e) => To(e, out) = {S!Left(i)}
         /\ ~(Running(e) /\ \E d \in out : d.to = e) => To(e, out) = {}
  BY <1>1, <1>4, ToldOne
<1> QED BY <1>2, <1>5 DEF out

Welcome(e) ==
    S!Send(e, S!HelloAck("accepted"))
      \cup S!Roster(sessions, e)
      \cup S!Broadcast(S!Admit(sessions, nextId, e, NameOf[e]), S!Joined(nextId, NameOf[e]), nextId)

Present(m) == \E j \in DOMAIN sessions : m = S!Joined(j, sessions[j].username)

\* A newcomer hears that it is in and who is there; everyone there hears of it.
LEMMA AcceptTells ==
    ASSUME Table, NEW e \in Endpoint, \A j \in DOMAIN sessions : sessions[j].endpoint # e
    PROVE  /\ Sendable(Welcome(e))
           /\ Running(e) =>
                 /\ \A m \in To(e, Welcome(e)) : m = S!HelloAck("accepted") \/ Present(m)
                 /\ \A j \in DOMAIN sessions :
                       S!Joined(j, sessions[j].username) \in To(e, Welcome(e))
           /\ ~Running(e) => To(e, Welcome(e)) = {}
           /\ \A f \in Endpoint \ {e} :
                 LET there == \E j \in DOMAIN sessions : sessions[j].endpoint = f
                 IN  /\ Running(f) /\ there
                           => To(f, Welcome(e)) = {S!Joined(nextId, NameOf[e])}
                     /\ ~(Running(f) /\ there) => To(f, Welcome(e)) = {}
<1> DEFINE ack == S!HelloAck("accepted")
           joined == S!Joined(nextId, NameOf[e])
           out == Welcome(e)
           D == DOMAIN sessions
           toAll == S!Broadcast(S!Admit(sessions, nextId, e, NameOf[e]), joined, nextId)
<1> USE NameOfAssumption
<1>1. /\ nextId \in Nat /\ D \subseteq 1 .. nextId - 1 /\ nextId \notin D
      /\ \A j \in D : sessions[j].endpoint \in Endpoint /\ sessions[j].username \in Name
  BY DEF Table, NameOfAssumption
<1>2. ack \in Message /\ joined \in Message
  <2>1. "accepted" \in Results
    BY DEF Results
  <2> QED BY <1>1, <2>1, AckFields, JoinedFields DEF NameOfAssumption
<1>3. \A j \in D : S!Joined(j, sessions[j].username) \in Message
  BY <1>1, JoinedFields
<1>4. toAll = {[to |-> sessions[j].endpoint, msg |-> joined] : j \in D}
  <2>1. DOMAIN S!Admit(sessions, nextId, e, NameOf[e]) \ {nextId} = D
    BY <1>1 DEF S!Admit
  <2>2. \A j \in D : S!Admit(sessions, nextId, e, NameOf[e])[j] = sessions[j]
    BY <1>1 DEF S!Admit
  <2> QED BY <2>1, <2>2 DEF S!Broadcast
<1>5. \A d : d \in out <=>
         \/ d = [to |-> e, msg |-> ack]
         \/ \E j \in D : d = [to |-> e, msg |-> S!Joined(j, sessions[j].username)]
         \/ \E j \in D : d = [to |-> sessions[j].endpoint, msg |-> joined]
  BY <1>4 DEF Welcome, S!Send, S!Roster
<1> HIDE DEF ack, joined, out, toAll
<1>6. ASSUME Running(e)
      PROVE  /\ \A m \in To(e, out) : m = ack \/ Present(m)
             /\ \A j \in D : S!Joined(j, sessions[j].username) \in To(e, out)
  <2>1. ASSUME NEW d \in out, d.to = e PROVE d.msg = ack \/ Present(d.msg)
    <3>1. CASE \E j \in D : d = [to |-> sessions[j].endpoint, msg |-> joined]
      BY <2>1, <3>1
    <3>2. CASE \E j \in D : d = [to |-> e, msg |-> S!Joined(j, sessions[j].username)]
      BY <3>2 DEF Present
    <3> QED BY <1>5, <3>1, <3>2
  <2>2. ASSUME NEW j \in D PROVE S!Joined(j, sessions[j].username) \in To(e, out)
    <3> DEFINE d == [to |-> e, msg |-> S!Joined(j, sessions[j].username)]
    <3>1. d \in out /\ d.to = e /\ d.msg = S!Joined(j, sessions[j].username)
      BY <1>5
    <3> QED BY <1>6, <3>1 DEF To
  <2> QED BY <2>1, <2>2 DEF To
<1>7. ~Running(e) => To(e, out) = {}
  BY DEF To
<1>8. ASSUME NEW f \in Endpoint \ {e}
      PROVE  LET there == \E j \in D : sessions[j].endpoint = f
             IN  /\ Running(f) /\ there => To(f, out) = {joined}
                 /\ ~(Running(f) /\ there) => To(f, out) = {}
  <2>1. ASSUME NEW d \in out, d.to = f
        PROVE  d.msg = joined /\ \E j \in D : sessions[j].endpoint = f
    BY <1>5, <2>1
  <2>2. ASSUME NEW j \in D, sessions[j].endpoint = f PROVE \E d \in out : d.to = f
    <3>1. [to |-> sessions[j].endpoint, msg |-> joined] \in out
      BY <1>5
    <3> QED BY <2>2, <3>1
  <2> QED BY <2>1, <2>2 DEF To
<1>9. To(e, out) \subseteq Message /\ IsFiniteSet(To(e, out))
  <2>1. CASE ~Running(e)
    BY <1>7, <2>1, FS_EmptySet
  <2>2. CASE Running(e)
    <3> DEFINE roster == {S!Joined(j, sessions[j].username) : j \in D}
               tell == [j \in D |-> S!Joined(j, sessions[j].username)]
    <3>1. IsFiniteSet(D)
      BY <1>1, FS_Interval, FS_Subset
    <3>2. tell \in Surjection(D, roster)
      BY DEF Surjection
    <3>3. IsFiniteSet(roster)
      BY <3>1, <3>2, FS_Surjection
    <3>4. IsFiniteSet(roster \cup {ack})
      BY <3>3, FS_AddElement
    <3>5. To(e, out) \subseteq roster \cup {ack}
      BY <1>6, <2>2 DEF Present
    <3>6. roster \cup {ack} \subseteq Message
      BY <1>2, <1>3
    <3> QED BY <3>4, <3>5, <3>6, FS_Subset
  <2> QED BY <2>1, <2>2
<1>10. ASSUME NEW f \in Endpoint \ {e}
       PROVE  To(f, out) \subseteq Message /\ IsFiniteSet(To(f, out))
  <2>1. To(f, out) = {} \/ To(f, out) = {joined}
    BY <1>8
  <2>2. IsFiniteSet({}) /\ IsFiniteSet({joined})
    BY FS_Singleton, FS_EmptySet
  <2> QED BY <1>2, <2>1, <2>2
<1>11. Sendable(out)
  BY <1>9, <1>10 DEF Sendable
<1> QED BY <1>6, <1>7, <1>8, <1>11 DEF out, ack, joined

-----------------------------------------------------------------------------
(* The steps, as the invariant sees them.                                  *)

LEMMA ResultIsOne == \A e, n : S!JoinResult(e, n, S!kVersion) \in Results
BY DEF S!JoinResult, Results

LEMMA AcceptedMeans ==
    ASSUME NEW e, NEW n, S!JoinResult(e, n, S!kVersion) = "accepted"
    PROVE  /\ \A j \in DOMAIN sessions : sessions[j].endpoint # e /\ sessions[j].username # n
           /\ n # NoName
           /\ ~(Cardinality(DOMAIN sessions) >= MaxPlayers)
BY DEF S!JoinResult, S!SessionOf, S!NameTaken, S!Live, S!Cardinality, Cardinality

\* A client's step, of the clients alone.
Reads(e, m) ==
    /\ Running(e)
    /\ \/ queue[e] # <<>> /\ m = Head(queue[e]) /\ queue' = [queue EXCEPT ![e] = Tail(@)]
       \/ m \in sent[e] /\ queue' = queue
    /\ Handle(e, m)

Ends(e) == \E state \in {"Disconnected", "Refused"} : Running(e) /\ End(e, state)

\* A server's step: it tells the clients out.
Answers(e, out) ==
    /\ TakeHello(e) /\ UNCHANGED serverVars
    /\ Sendable(out) /\ Transmit(out)
    /\ \A f \in Endpoint : \A m \in To(f, out) : m \in Message /\ m.type = "HelloAck"
    /\ \A f \in Endpoint : To(f, out) = {} \/ \E m \in Message : To(f, out) = {m}

Accepts(e) ==
    /\ TakeHello(e)
    /\ S!JoinResult(e, NameOf[e], S!kVersion) = "accepted"
    /\ \A j \in DOMAIN sessions :
          sessions[j].endpoint # e /\ sessions[j].username # NameOf[e]
    /\ sessions' = S!Admit(sessions, nextId, e, NameOf[e])
    /\ nextId' = nextId + 1
    /\ made' = [made EXCEPT ![e] = @ \cup {nextId}]
    /\ Transmit(Welcome(e))

LEMMA Steps ==
    ASSUME Shape, [Next]_vars
    PROVE  \/ UNCHANGED vars
           \/ \E e \in Endpoint :
                 \/ Connect(e) \/ SendHello(e) \/ Ends(e)
                 \/ (\E m \in Message : Reads(e, m))
                 \/ (\E out : Answers(e, out)) \/ Accepts(e)
           \/ \E p \in Person : TakeEvents(p)
           \/ \E i \in DOMAIN sessions : Drop(i)
<1> DEFINE Goal(e) == \/ Connect(e) \/ SendHello(e) \/ Ends(e)
                      \/ (\E m \in Message : Reads(e, m))
                      \/ (\E out : Answers(e, out)) \/ Accepts(e)
<1>1. ASSUME NEW e \in Endpoint, Leave(e) \/ DeliverRefusal(e) PROVE Ends(e)
  BY <1>1 DEF Leave, DeliverRefusal, Ends
<1>2. ASSUME NEW e \in Endpoint, DeliverNext(e) PROVE \E m \in Message : Reads(e, m)
  <2>1. Head(queue[e]) \in Message
    BY <1>2 DEF DeliverNext, Shape
  <2>2. Reads(e, Head(queue[e]))
    BY <1>2 DEF DeliverNext, Reads
  <2> QED BY <2>1, <2>2
<1>3. ASSUME NEW e \in Endpoint, DeliverAny(e) PROVE \E m \in Message : Reads(e, m)
  <2>1. PICK m \in sent[e] : Handle(e, m)
    BY <1>3 DEF DeliverAny
  <2>2. m \in Message
    BY DEF Shape
  <2>3. Reads(e, m)
    BY <1>3, <2>1 DEF DeliverAny, Reads
  <2> QED BY <2>2, <2>3
<1>4. ASSUME NEW e \in Endpoint, AnswerHello(e) PROVE \E out : Answers(e, out)
  <2> DEFINE r == S!JoinResult(e, NameOf[e], S!kVersion)
             out == S!Send(e, S!HelloAck(r))
  <2>1. TakeHello(e) /\ Transmit(out) /\ UNCHANGED serverVars
    BY <1>4 DEF AnswerHello
  <2>2. r \in Results
    BY ResultIsOne
  <2> HIDE DEF r
  <2>3. /\ Sendable(out)
        /\ \A f \in Endpoint : To(f, out) = {} \/ (f = e /\ To(f, out) = {S!HelloAck(r)})
        /\ S!HelloAck(r) \in Message /\ S!HelloAck(r).type = "HelloAck"
    BY <2>2, AnswerTells, AckFields
  <2> HIDE DEF out
  <2>4. Answers(e, out)
    BY <2>1, <2>3 DEF Answers
  <2> QED BY <2>4
<1>5. ASSUME NEW e \in Endpoint, AcceptHello(e) PROVE Accepts(e)
  <2>1. \A j \in DOMAIN sessions :
           sessions[j].endpoint # e /\ sessions[j].username # NameOf[e]
    BY <1>5, AcceptedMeans DEF AcceptHello
  <2> QED BY <1>5, <2>1 DEF AcceptHello, Accepts, Welcome
<1>6. CASE \E e \in Endpoint :
             \/ Connect(e) \/ SendHello(e) \/ Leave(e)
             \/ DeliverNext(e) \/ DeliverAny(e) \/ DeliverRefusal(e)
             \/ AnswerHello(e) \/ AcceptHello(e)
  <2>1. \E e \in Endpoint : Goal(e)
    BY <1>1, <1>2, <1>3, <1>4, <1>5, <1>6
  <2> QED BY <2>1
<1> QED BY <1>6 DEF Next

\* What the three server's steps have in common.
Serves(out) ==
    /\ Sendable(out) /\ Transmit(out)
    /\ net' = net /\ UNCHANGED clientVars
    /\ hellos' \in [Endpoint -> Nat]
    /\ \A e \in Endpoint : hellos[e] = 0 => hellos'[e] = 0

LEMMA HellosTaken ==
    ASSUME Shape, NEW e \in Endpoint, TakeHello(e)
    PROVE  /\ hellos' \in [Endpoint -> Nat]
           /\ \A f \in Endpoint : hellos[f] = 0 => hellos'[f] = 0
           /\ hellos[e] > 0
<1>1. CASE net = "udp"
  BY <1>1 DEF TakeHello, Shape
<1>2. CASE net = "reliable"
  <2>1. hellos[e] - 1 \in Nat /\ hellos[e] # 0
    BY DEF TakeHello, Shape
  <2>2. hellos' = [hellos EXCEPT ![e] = @ - 1]
    BY <1>2 DEF TakeHello
  <2> QED BY <2>1, <2>2 DEF Shape, TakeHello
<1> QED BY <1>1, <1>2 DEF Shape

LEMMA ServerSteps ==
    ASSUME Shape, Table
    PROVE  /\ \A e \in Endpoint : \A out : Answers(e, out) => Serves(out)
           /\ \A e \in Endpoint : Accepts(e) => Serves(Welcome(e))
           /\ \A i \in DOMAIN sessions : Drop(i) =>
                 Serves(S!Broadcast(S!Without(sessions, i), S!Left(i), i))
<1>1. ASSUME NEW e \in Endpoint, NEW out, Answers(e, out) PROVE Serves(out)
  BY <1>1, Carried, HellosTaken DEF Answers, Serves
<1>2. ASSUME NEW e \in Endpoint, Accepts(e) PROVE Serves(Welcome(e))
  <2>1. Sendable(Welcome(e)) /\ Transmit(Welcome(e))
    BY <1>2, AcceptTells DEF Accepts
  <2> QED BY <1>2, <2>1, Carried, HellosTaken DEF Accepts, Serves
<1>3. ASSUME NEW i \in DOMAIN sessions, Drop(i)
      PROVE  Serves(S!Broadcast(S!Without(sessions, i), S!Left(i), i))
  <2> DEFINE out == S!Broadcast(S!Without(sessions, i), S!Left(i), i)
  <2>1. Sendable(out)
    BY DropTells
  <2>2. Transmit(out) /\ hellos' = hellos
    BY <1>3 DEF Drop
  <2> HIDE DEF out
  <2>3. Serves(out)
    BY <2>1, <2>2, Carried DEF Serves, Shape
  <2> QED BY <2>3 DEF out
<1> QED BY <1>1, <1>2, <1>3

-----------------------------------------------------------------------------
(* Shape.                                                                  *)

LEMMA ListedIsList ==
    ASSUME NEW l \in SUBSET Nat, NEW m \in Message
    PROVE  Listed(l, m) \in SUBSET Nat /\ LeftOver(l, m) \in SUBSET Nat
<1>1. CASE m.type = "NotifyPlayerJoined"
  <2>1. PICK i \in Nat, n \in Name : m = S!Joined(i, n)
    <3>1. ASSUME NEW r \in Results PROVE m # S!HelloAck(r)
      BY <1>1, AckFields
    <3>2. ASSUME NEW i \in Nat PROVE m # S!Left(i)
      BY <1>1, LeftFields
    <3> QED BY <3>1, <3>2 DEF Message
  <2>2. m.playerId = i
    BY <2>1, JoinedFields
  <2> QED BY <1>1, <2>2 DEF Listed, LeftOver
<1>2. CASE m.type # "NotifyPlayerJoined"
  BY <1>2 DEF Listed, LeftOver
<1> QED BY <1>1, <1>2

\* What reading m makes of what the persons list.
LEMMA ListsOfReading ==
    ASSUME Shape, NEW e \in Endpoint, NEW m \in Message, Reads(e, m)
    PROVE  /\ list' \in [Person -> SUBSET Nat] /\ leftover' \in [Person -> SUBSET Nat]
           /\ bodies' = bodies
           /\ list'[NameOf[e]] = Listed(list[NameOf[e]], m)
           /\ leftover'[NameOf[e]] = LeftOver(leftover[NameOf[e]], m)
           /\ \A p \in Person \ {NameOf[e]} : list'[p] = list[p] /\ leftover'[p] = leftover[p]
<1>1. NameOf[e] \in Person
  BY Persons
<1>2. /\ list' = [list EXCEPT ![NameOf[e]] = Listed(@, m)]
      /\ leftover' = [leftover EXCEPT ![NameOf[e]] = LeftOver(@, m)]
      /\ bodies' = bodies
  BY DEF Reads, Handle
<1>3. /\ Listed(list[NameOf[e]], m) \in SUBSET Nat
      /\ LeftOver(leftover[NameOf[e]], m) \in SUBSET Nat
  BY <1>1, ListedIsList DEF Shape
<1> QED BY <1>1, <1>2, <1>3 DEF Shape

LEMMA ShapeOfServing == ASSUME Shape, NEW out, Serves(out) PROVE Shape'
<1>1. net' = net /\ UNCHANGED clientVars /\ hellos' \in [Endpoint -> Nat]
  BY DEF Serves
<1>2. CASE net = "udp"
  <2>1. queue' = queue /\ sent' = [e \in Endpoint |-> sent[e] \cup To(e, out)]
    BY <1>2, Carried DEF Serves
  <2>2. \A e \in Endpoint : sent[e] \cup To(e, out) \subseteq Message
    BY DEF Serves, Sendable, Shape
  <2> QED BY <1>1, <1>2, <2>1, <2>2 DEF Shape, clientVars, listVars
<1>3. CASE net = "reliable"
  <2>1. queue' \in [Endpoint -> Seq(Message)] /\ sent' = sent
    BY <1>3, Carried DEF Serves
  <2> QED BY <1>1, <2>1 DEF Shape, clientVars, listVars
<1> QED BY <1>2, <1>3 DEF Shape

\* A client is told only of what is a message, and its list stays one.
LEMMA ShapeStep == Shape /\ Table /\ [Next]_vars => Shape'
<1> SUFFICES ASSUME Shape, Table, [Next]_vars PROVE Shape'
  OBVIOUS
<1>1. CASE UNCHANGED vars
  BY <1>1 DEF vars, netVars, clientVars, listVars, Shape
<1>2. ASSUME NEW e \in Endpoint, Connect(e) PROVE Shape'
  <2>1. NameOf[e] \in Person /\ bodies[NameOf[e]] \in SUBSET Nat
    BY Persons DEF Shape
  <2>2. list' \in [Person -> SUBSET Nat] /\ leftover' \in [Person -> SUBSET Nat]
    BY <1>2, <2>1 DEF Connect, Shape
  <2> QED BY <1>2, <2>2 DEF Connect, netVars, Shape, States
<1>3. ASSUME NEW e \in Endpoint, SendHello(e) PROVE Shape'
  <2>1. hellos' \in [Endpoint -> Nat]
    BY <1>3 DEF SendHello, Shape
  <2> QED BY <1>3, <2>1 DEF SendHello, listVars, Shape
<1>4. ASSUME NEW e \in Endpoint, Ends(e) PROVE Shape'
  <2>1. PICK state \in {"Disconnected", "Refused"} : End(e, state)
    BY <1>4 DEF Ends
  <2>2. client' \in [Endpoint -> States]
    BY <2>1 DEF End, Shape, States
  <2>3. queue' \in [Endpoint -> Seq(Message)]
    BY <2>1 DEF End, Shape
  <2>4. UNCHANGED listVars
    BY <2>1 DEF End
  <2>5. sent' \in [Endpoint -> SUBSET Message] /\ net' = net /\ hellos' = hellos
        /\ (net = "reliable" => \A f \in Endpoint : sent'[f] = {})
    BY <2>1 DEF End, Shape
  <2> QED BY <2>2, <2>3, <2>4, <2>5 DEF Shape, listVars
<1>5. ASSUME NEW e \in Endpoint, NEW m \in Message, Reads(e, m) PROVE Shape'
  <2>1. queue' \in [Endpoint -> Seq(Message)]
    <3>1. queue[e] # <<>> => Tail(queue[e]) \in Seq(Message)
      BY DEF Shape
    <3> QED BY <1>5, <3>1 DEF Reads, Shape
  <2>2. list' \in [Person -> SUBSET Nat] /\ leftover' \in [Person -> SUBSET Nat]
    BY <1>5, ListsOfReading
  <2>3. client' \in [Endpoint -> States]
    BY <1>5 DEF Reads, Handle, Shape, States
  <2> QED BY <1>5, <2>1, <2>2, <2>3 DEF Reads, Handle, Shape
<1>6. ASSUME NEW e \in Endpoint, NEW out, Answers(e, out) PROVE Shape'
  BY <1>6, ServerSteps, ShapeOfServing
<1>7. ASSUME NEW e \in Endpoint, Accepts(e) PROVE Shape'
  BY <1>7, ServerSteps, ShapeOfServing
<1>8. ASSUME NEW i \in DOMAIN sessions, Drop(i) PROVE Shape'
  BY <1>8, ServerSteps, ShapeOfServing
<1>9. ASSUME NEW p \in Person, TakeEvents(p) PROVE Shape'
  <2>1. bodies' \in [Person -> SUBSET Nat]
    BY <1>9 DEF TakeEvents, Shape
  <2> QED BY <1>9, <2>1 DEF TakeEvents, netVars, Shape
<1> QED BY <1>1, <1>2, <1>3, <1>4, <1>5, <1>6, <1>7, <1>8, <1>9, Steps

-----------------------------------------------------------------------------
(* The table.                                                              *)

\* What a step may do to the server's table.
LEMMA TableSteps ==
    ASSUME Shape, [Next]_vars
    PROVE  \/ UNCHANGED serverVars
           \/ \E e \in Endpoint : Accepts(e)
           \/ \E i \in DOMAIN sessions : Drop(i)
BY Steps DEF Connect, TakeEvents, SendHello, Ends, End, Reads, Handle, Answers, vars, serverVars

LEMMA AdmitIs ==
    ASSUME Table, NEW e \in Endpoint, Accepts(e)
    PROVE  /\ DOMAIN sessions' = DOMAIN sessions \cup {nextId}
           /\ nextId \notin DOMAIN sessions
           /\ \A j \in DOMAIN sessions :
                 sessions[j].endpoint # e /\ sessions[j].username # NameOf[e]
           /\ sessions'[nextId].endpoint = e /\ sessions'[nextId].username = NameOf[e]
           /\ \A j \in DOMAIN sessions : sessions'[j] = sessions[j]
           /\ made'[e] = made[e] \cup {nextId}
           /\ \A f \in Endpoint \ {e} : made'[f] = made[f]
<1>1. nextId \notin DOMAIN sessions
  BY DEF Table
<1> QED BY <1>1 DEF Accepts, S!Admit, S!NewSession, Table

LEMMA DropIs ==
    ASSUME NEW i \in DOMAIN sessions, Drop(i)
    PROVE  /\ DOMAIN sessions' = DOMAIN sessions \ {i}
           /\ \A j \in DOMAIN sessions' : sessions'[j] = sessions[j]
           /\ made' = made /\ nextId' = nextId
BY DEF Drop, S!Without

LEMMA TableStep == Shape /\ Table /\ [Next]_vars => Table'
<1> SUFFICES ASSUME Shape, Table, [Next]_vars PROVE Table'
  OBVIOUS
<1>1. CASE UNCHANGED serverVars
  BY <1>1 DEF serverVars, Table
<1>2. ASSUME NEW e \in Endpoint, Accepts(e) PROVE Table'
  <2>1. nextId' = nextId + 1 /\ nextId \in Nat \ {0} /\ nextId' \in Nat \ {0}
    BY <1>2 DEF Accepts, Table
  <2>2. \A f \in Endpoint : nextId \notin made[f] /\ made[f] \subseteq 1 .. nextId - 1
    BY <2>1 DEF Table
  <2>3. made' \in [Endpoint -> SUBSET (1 .. nextId' - 1)]
    <3>1. 1 .. nextId - 1 \subseteq 1 .. nextId' - 1 /\ nextId \in 1 .. nextId' - 1
      BY <2>1
    <3> QED BY <1>2, <2>2, <3>1 DEF Accepts, Table
  <2>4. \A f, g \in Endpoint : f # g => made'[f] \cap made'[g] = {}
    BY <1>2, <2>2, AdmitIs DEF Table
  <2>5. \A j \in DOMAIN sessions' :
           /\ sessions'[j].endpoint \in Endpoint
           /\ sessions'[j].username = NameOf[sessions'[j].endpoint]
           /\ j \in made'[sessions'[j].endpoint]
    BY <1>2, AdmitIs DEF Table
  <2>6. \A j, k \in DOMAIN sessions' :
           sessions'[j].username = sessions'[k].username => j = k
    BY <1>2, AdmitIs DEF Table
  <2> QED BY <2>1, <2>3, <2>4, <2>5, <2>6 DEF Table
<1>3. ASSUME NEW i \in DOMAIN sessions, Drop(i) PROVE Table'
  <2>1. /\ DOMAIN sessions' \subseteq DOMAIN sessions
        /\ \A j \in DOMAIN sessions' : sessions'[j] = sessions[j]
        /\ made' = made /\ nextId' = nextId
    BY <1>3, DropIs
  <2> QED BY <2>1 DEF Table
<1> QED BY <1>1, <1>2, <1>3, TableSteps

\* An id that was given stays given.
LEMMA MadeGrows ==
    ASSUME Shape, Table, [Next]_vars, NEW e \in Endpoint
    PROVE  made[e] \subseteq made'[e]
BY TableSteps, AdmitIs, DropIs DEF serverVars

-----------------------------------------------------------------------------
(* What becomes of what is on its way.                                     *)

LEMMA ConcatElements ==
    ASSUME NEW q \in Seq(Message), NEW l \in Seq(Message), NEW k \in DOMAIN (q \o l)
    PROVE  \/ \E j \in DOMAIN q : (q \o l)[k] = q[j]
           \/ \E j \in DOMAIN l : (q \o l)[k] = l[j]
<1>1. CASE k \in 1 .. Len(q)
  BY <1>1
<1>2. CASE k \notin 1 .. Len(q)
  <2>1. k - Len(q) \in DOMAIN l /\ (q \o l)[k] = l[k - Len(q)]
    BY <1>2
  <2> QED BY <2>1
<1> QED BY <1>1, <1>2

LEMMA QueueOfServing ==
    ASSUME Shape, NEW out, Serves(out), NEW e \in Endpoint, NEW k \in DOMAIN queue'[e]
    PROVE  \/ \E j \in DOMAIN queue[e] : queue'[e][k] = queue[e][j]
           \/ queue'[e][k] \in To(e, out)
<1>1. CASE net = "udp"
  BY <1>1, Carried DEF Serves
<1>2. CASE net = "reliable"
  <2>1. PICK l : Line(l, e, out)
    BY <1>2, CarriedTo DEF Serves
  <2>2. queue[e] \in Seq(Message)
    BY DEF Shape
  <2> QED BY <2>1, <2>2, ConcatElements DEF Line
<1> QED BY <1>1, <1>2 DEF Shape

LEMMA QueueOfReading ==
    ASSUME Shape, NEW e \in Endpoint, NEW m, Reads(e, m), NEW f \in Endpoint
    PROVE  /\ f # e => queue'[f] = queue[f]
           /\ \A k \in DOMAIN queue'[f] : \E j \in DOMAIN queue[f] : queue'[f][k] = queue[f][j]
           /\ m \in sent[e] \/ (\E j \in DOMAIN queue[e] : m = queue[e][j])
<1>1. queue[e] \in Seq(Message) /\ queue[f] \in Seq(Message)
  BY DEF Shape
<1>2. CASE queue' = queue /\ m \in sent[e]
  BY <1>2
<1>3. CASE queue[e] # <<>> /\ m = Head(queue[e]) /\ queue' = [queue EXCEPT ![e] = Tail(@)]
  <2>1. 1 \in DOMAIN queue[e] /\ m = queue[e][1]
    BY <1>1, <1>3
  <2>2. ASSUME NEW k \in DOMAIN Tail(queue[e])
        PROVE  k + 1 \in DOMAIN queue[e] /\ Tail(queue[e])[k] = queue[e][k + 1]
    BY <1>1, <1>3
  <2>3. (f = e => queue'[f] = Tail(queue[e])) /\ (f # e => queue'[f] = queue[f])
    BY <1>3 DEF Shape
  <2> QED BY <2>1, <2>2, <2>3
<1> QED BY <1>2, <1>3 DEF Reads

-----------------------------------------------------------------------------
(* Nobody is told of a player who was not let in.                          *)

LEMMA TruthStays ==
    ASSUME Shape, Table, [Next]_vars
    PROVE  /\ \A p, i : Other(p, i) => Other(p, i)'
           /\ \A e \in Endpoint : \A m : Truthful(e, m) => Truthful(e, m)'
<1>1. \A p, i, n : Real(p, i, n) => Real(p, i, n)'
  BY MadeGrows DEF Real
<1>2. \A p, i : Other(p, i) => Other(p, i)'
  BY MadeGrows DEF Other
<1> QED BY <1>1, <1>2 DEF Truthful

\* A step after which nobody lists who was not listed.
LEMMA OthersStay ==
    ASSUME Shape, Table, AllReal, [Next]_vars,
           \A p \in Person :
              bodies'[p] \cup list'[p] \cup leftover'[p]
                 \subseteq bodies[p] \cup list[p] \cup leftover[p]
    PROVE  \A p \in Person : \A i \in bodies'[p] \cup list'[p] \cup leftover'[p] : Other(p, i)'
BY TruthStays DEF AllReal

\* A step of the server that sends nothing but the truth.
LEMMA RealOfServing ==
    ASSUME Shape, Table, AllReal, [Next]_vars, NEW out, Serves(out),
           \A e \in Endpoint : \A m \in To(e, out) : Truthful(e, m)'
    PROVE  AllReal'
<1>1. \A p \in Person : \A i \in bodies'[p] \cup list'[p] \cup leftover'[p] : Other(p, i)'
  BY OthersStay DEF Serves, clientVars, listVars
<1>2. ASSUME NEW e \in Endpoint, NEW k \in DOMAIN queue'[e] PROVE Truthful(e, queue[e][k])'
  <2>1. \A m : Truthful(e, m) => Truthful(e, m)'
    BY TruthStays
  <2>2. CASE queue'[e][k] \in To(e, out)
    BY <2>2
  <2>3. CASE \E j \in DOMAIN queue[e] : queue'[e][k] = queue[e][j]
    BY <2>1, <2>3 DEF AllReal
  <2> QED BY <2>2, <2>3, QueueOfServing
<1>3. ASSUME NEW e \in Endpoint, NEW m \in sent'[e] PROVE Truthful(e, m)'
  <2>1. Truthful(e, m) => Truthful(e, m)'
    BY TruthStays
  <2>2. m \in sent[e] \/ m \in To(e, out)
    BY <1>3, Carried DEF Serves, Shape
  <2> QED BY <2>1, <2>2 DEF AllReal
<1> QED BY <1>1, <1>2, <1>3 DEF AllReal

LEMMA RealStep == Shape /\ Table /\ AllReal /\ [Next]_vars => AllReal'
<1> SUFFICES ASSUME Shape, Table, AllReal, [Next]_vars PROVE AllReal'
  OBVIOUS
<1>1. ASSUME \A p \in Person :
                bodies'[p] \cup list'[p] \cup leftover'[p]
                   \subseteq bodies[p] \cup list[p] \cup leftover[p],
             \A e \in Endpoint : /\ queue'[e] = queue[e] \/ DOMAIN queue'[e] = {}
                                 /\ sent'[e] \subseteq sent[e]
      PROVE  AllReal'
  <2>1. \A p \in Person : \A i \in bodies'[p] \cup list'[p] \cup leftover'[p] : Other(p, i)'
    BY <1>1, OthersStay
  <2>2. \A e \in Endpoint : /\ \A k \in DOMAIN queue'[e] : Truthful(e, queue[e][k])'
                            /\ \A m \in sent'[e] : Truthful(e, m)'
    BY <1>1, TruthStays DEF AllReal
  <2> QED BY <2>1, <2>2 DEF AllReal
<1>2. CASE UNCHANGED vars
  BY <1>1, <1>2 DEF vars, netVars, clientVars, listVars
<1>3. ASSUME NEW e \in Endpoint, Connect(e) \/ SendHello(e) PROVE AllReal'
  <2>1. CASE Connect(e)
    <3>1. \A p \in Person :
             bodies'[p] = bodies[p]
             /\ list'[p] \in {list[p], bodies[p]} /\ leftover'[p] \in {leftover[p], bodies[p]}
      BY <2>1 DEF Connect, Shape
    <3> QED BY <1>1, <2>1, <3>1 DEF Connect, netVars
  <2>2. CASE SendHello(e)
    BY <1>1, <2>2 DEF SendHello, listVars
  <2> QED BY <1>3, <2>1, <2>2
<1>9. ASSUME NEW p \in Person, TakeEvents(p) PROVE AllReal'
  <2>1. \A q \in Person :
           bodies'[q] \in {list[q], bodies[q]} /\ list'[q] = list[q] /\ leftover'[q] = leftover[q]
    BY <1>9 DEF TakeEvents, Shape
  <2> QED BY <1>1, <1>9, <2>1 DEF TakeEvents, netVars
<1>4. ASSUME NEW e \in Endpoint, Ends(e) PROVE AllReal'
  <2>1. PICK state : End(e, state)
    BY <1>4 DEF Ends
  <2>2. DOMAIN <<>> = {}
    OBVIOUS
  <2> QED BY <1>1, <2>1, <2>2 DEF End, listVars, Shape
<1>5. ASSUME NEW e \in Endpoint, NEW m \in Message, Reads(e, m) PROVE AllReal'
  <2>1. Truthful(e, m)
    BY <1>5, QueueOfReading DEF AllReal
  <2>2. ASSUME NEW p \in Person, NEW i \in bodies'[p] \cup list'[p] \cup leftover'[p]
        PROVE  Other(p, i)'
    <3>1. CASE i \in bodies[p] \cup list[p] \cup leftover[p]
      BY <3>1, TruthStays DEF AllReal
    <3>2. CASE p = NameOf[e] /\ m.type = "NotifyPlayerJoined" /\ i = m.playerId
      <4>1. Other(p, i)
        BY <2>1, <3>2 DEF Truthful, Real, Other
      <4> QED BY <4>1, TruthStays
    <3>3. ASSUME p # NameOf[e] PROVE i \in bodies[p] \cup list[p] \cup leftover[p]
      BY <1>5, <3>3, ListsOfReading
    <3>4. ASSUME p = NameOf[e]
          PROVE  i \in bodies[p] \cup Listed(list[p], m) \cup LeftOver(leftover[p], m)
      BY <1>5, <3>4, ListsOfReading
    <3>5. ASSUME p = NameOf[e]
          PROVE  \/ i \in bodies[p] \cup list[p] \cup leftover[p]
                 \/ m.type = "NotifyPlayerJoined" /\ i = m.playerId
      BY <3>4, <3>5 DEF Listed, LeftOver
    <3> QED BY <3>1, <3>2, <3>3, <3>5
  <2>3. ASSUME NEW f \in Endpoint, NEW k \in DOMAIN queue'[f] PROVE Truthful(f, queue[f][k])'
    <3>1. \A x : Truthful(f, x) => Truthful(f, x)'
      BY TruthStays
    <3>2. PICK j \in DOMAIN queue[f] : queue'[f][k] = queue[f][j]
      BY <1>5, QueueOfReading
    <3> QED BY <3>1, <3>2 DEF AllReal
  <2>4. sent' = sent
    BY <1>5 DEF Reads, Handle
  <2>5. ASSUME NEW f \in Endpoint, NEW x \in sent'[f] PROVE Truthful(f, x)'
    BY <2>4, TruthStays DEF AllReal
  <2> QED BY <2>2, <2>3, <2>5 DEF AllReal
<1>6. ASSUME NEW e \in Endpoint, NEW out, Answers(e, out) PROVE AllReal'
  <2>1. \A f \in Endpoint : \A m \in To(f, out) : Truthful(f, m)'
    BY <1>6 DEF Answers, Truthful
  <2> QED BY <1>6, <2>1, ServerSteps, RealOfServing
<1>7. ASSUME NEW e \in Endpoint, Accepts(e) PROVE AllReal'
  <2>1. ASSUME NEW m \in To(e, Welcome(e)) PROVE Truthful(e, m)
    <3>1. m = S!HelloAck("accepted") \/ Present(m)
      BY <1>7, AcceptTells DEF Accepts
    <3>2. CASE m = S!HelloAck("accepted")
      BY <3>2, AckFields DEF Truthful, Results
    <3>3. CASE Present(m)
      <4>1. PICK j \in DOMAIN sessions : m = S!Joined(j, sessions[j].username)
        BY <3>3 DEF Present
      <4>2. m.playerId = j /\ m.username = sessions[j].username
        BY <4>1 DEF S!Joined
      <4>3. sessions[j].endpoint \in Endpoint /\ sessions[j].username # NameOf[e]
        BY <1>7 DEF Accepts, Table
      <4> QED BY <4>2, <4>3 DEF Truthful, Real, Table
    <3> QED BY <3>1, <3>2, <3>3
  <2>2. ASSUME NEW f \in Endpoint \ {e}, NEW m \in To(f, Welcome(e)) PROVE Truthful(f, m)'
    <3>1. /\ m = S!Joined(nextId, NameOf[e])
          /\ \E j \in DOMAIN sessions : sessions[j].endpoint = f
      BY <1>7, AcceptTells DEF Accepts
    <3>2. m.playerId = nextId /\ m.username = NameOf[e]
      BY <3>1 DEF S!Joined
    <3>3. nextId \in made'[e] /\ NameOf[f] # NameOf[e]
      BY <1>7, <3>1, AdmitIs DEF Table
    <3> QED BY <3>2, <3>3 DEF Truthful, Real
  <2>3. \A f \in Endpoint : \A m \in To(f, Welcome(e)) : Truthful(f, m)'
    BY <2>1, <2>2, TruthStays
  <2> QED BY <1>7, <2>3, ServerSteps, RealOfServing
<1>8. ASSUME NEW i \in DOMAIN sessions, Drop(i) PROVE AllReal'
  <2> DEFINE out == S!Broadcast(S!Without(sessions, i), S!Left(i), i)
  <2>1. i \in Nat
    BY DEF Table
  <2>2. \A f \in Endpoint : \A m \in To(f, out) : m = S!Left(i)
    BY DropTells
  <2> HIDE DEF out
  <2>3. \A f \in Endpoint : \A m \in To(f, out) : Truthful(f, m)'
    BY <2>1, <2>2, LeftFields DEF Truthful
  <2>4. Serves(out)
    BY <1>8, ServerSteps DEF out
  <2> QED BY <2>3, <2>4, RealOfServing
<1> QED BY <1>2, <1>3, <1>4, <1>5, <1>6, <1>7, <1>8, <1>9, Steps

-----------------------------------------------------------------------------
(* A person has one connection at a time.                                  *)

LEMMA AloneStep == Shape /\ Table /\ Alone /\ [Next]_vars => Alone'
<1> SUFFICES ASSUME Shape, Table, Alone, [Next]_vars PROVE Alone'
  OBVIOUS
<1>1. ASSUME \A e \in Endpoint : Running(e)' => Running(e) PROVE Alone'
  BY <1>1 DEF Alone
<1>2. ASSUME client' = client PROVE Alone'
  BY <1>1, <1>2 DEF Running
<1>3. CASE UNCHANGED vars
  BY <1>2, <1>3 DEF vars, clientVars
<1>4. ASSUME NEW e \in Endpoint, Connect(e) PROVE Alone'
  <2>1. \A f \in Endpoint : Running(f)' => Running(f) \/ f = e
    BY <1>4 DEF Connect, Running, Shape
  <2>2. \A f \in Endpoint : Running(f) => NameOf[f] # NameOf[e]
    BY <1>4 DEF Connect
  <2> QED BY <2>1, <2>2 DEF Alone
<1>5. ASSUME NEW e \in Endpoint, SendHello(e) \/ Ends(e) PROVE Alone'
  BY <1>1, <1>5 DEF SendHello, Ends, End, Running, Shape
<1>6. ASSUME NEW e \in Endpoint, NEW m \in Message, Reads(e, m) PROVE Alone'
  BY <1>1, <1>6 DEF Reads, Handle, Running, Shape
<1>7. ASSUME NEW p \in Person, TakeEvents(p) PROVE Alone'
  BY <1>2, <1>7 DEF TakeEvents
<1>8. ASSUME NEW e \in Endpoint, (\E out : Answers(e, out)) \/ Accepts(e) PROVE Alone'
  BY <1>2, <1>8, ServerSteps DEF Serves, clientVars
<1>9. ASSUME NEW i \in DOMAIN sessions, Drop(i) PROVE Alone'
  BY <1>2, <1>9, ServerSteps DEF Serves, clientVars
<1> QED BY <1>3, <1>4, <1>5, <1>6, <1>7, <1>8, <1>9, Steps

-----------------------------------------------------------------------------
(* A client without a session has been told of nobody.                     *)

LEMMA StartedStep == Shape /\ Table /\ Started /\ [Next]_vars => Started'
<1> SUFFICES ASSUME Shape, Table, Started, [Next]_vars PROVE Started'
  OBVIOUS
<1>1. CASE UNCHANGED vars
  BY <1>1 DEF vars, netVars, clientVars, serverVars, Started
<1>2. ASSUME NEW e \in Endpoint, Connect(e) PROVE Started'
  BY <1>2 DEF Connect, netVars, serverVars, Started, Shape
<1>3. ASSUME NEW e \in Endpoint, SendHello(e) PROVE Started'
  BY <1>3 DEF SendHello, serverVars, Started, Shape
<1>4. ASSUME NEW e \in Endpoint, Ends(e) PROVE Started'
  BY <1>4 DEF Ends, End, serverVars, Started, Shape
<1>5. ASSUME NEW e \in Endpoint, NEW m \in Message, Reads(e, m) PROVE Started'
  BY <1>5 DEF Reads, Handle, Running, serverVars, Started, Shape
<1>6. ASSUME NEW e \in Endpoint, NEW out, Answers(e, out) PROVE Started'
  BY <1>6, ServerSteps DEF Answers, Serves, clientVars, serverVars, Started
<1>7. ASSUME NEW e \in Endpoint, Accepts(e) PROVE Started'
  <2>1. hellos[e] > 0
    BY <1>7, HellosTaken DEF Accepts
  <2>2. client[e] # "off"
    BY <2>1 DEF Started
  <2> QED BY <1>7, <2>2, ServerSteps, AdmitIs DEF Serves, clientVars, Started
<1>8. ASSUME NEW i \in DOMAIN sessions, Drop(i) PROVE Started'
  BY <1>8, ServerSteps, DropIs DEF Serves, clientVars, Started
<1>9. ASSUME NEW p \in Person, TakeEvents(p) PROVE Started'
  BY <1>9 DEF TakeEvents, netVars, serverVars, Started
<1> QED BY <1>1, <1>2, <1>3, <1>4, <1>5, <1>6, <1>7, <1>8, <1>9, Steps

\* A step of the server that tells those without a session nothing but an ack.
LEMMA UninformedOfServing ==
    ASSUME Shape, Table, Uninformed, [Next]_vars, NEW out, Serves(out),
           \A e \in Endpoint : made'[e] = {} =>
              \A m \in To(e, out) : m.type = "HelloAck"
    PROVE  Uninformed'
<1> SUFFICES ASSUME net = "reliable", NEW e \in Endpoint, made'[e] = {}
             PROVE  /\ Running(e) => list[NameOf[e]] = leftover[NameOf[e]]
                    /\ \A k \in DOMAIN queue'[e] : queue'[e][k].type = "HelloAck"
  BY DEF Uninformed, Serves, clientVars, listVars, Running
<1>1. made[e] = {}
  BY MadeGrows
<1>2. /\ Running(e) => list[NameOf[e]] = leftover[NameOf[e]]
      /\ \A k \in DOMAIN queue[e] : queue[e][k].type = "HelloAck"
  BY <1>1 DEF Uninformed
<1> QED BY <1>2, QueueOfServing DEF Serves

LEMMA UninformedStep == Shape /\ Table /\ Alone /\ Uninformed /\ [Next]_vars => Uninformed'
<1> SUFFICES ASSUME Shape, Table, Alone, Uninformed, [Next]_vars PROVE Uninformed'
  OBVIOUS
<1>1. ASSUME net' = net, made' = made,
             \A e \in Endpoint :
                /\ Running(e)' => \/ /\ Running(e) /\ list'[NameOf[e]] = list[NameOf[e]]
                                     /\ leftover'[NameOf[e]] = leftover[NameOf[e]]
                                  \/ list'[NameOf[e]] = leftover'[NameOf[e]]
                /\ queue'[e] = queue[e] \/ DOMAIN queue'[e] = {}
      PROVE  Uninformed'
  BY <1>1 DEF Uninformed
<1>2. CASE UNCHANGED vars
  BY <1>1, <1>2 DEF vars, netVars, clientVars, listVars, serverVars, Running
<1>3. ASSUME NEW e \in Endpoint, Connect(e) \/ SendHello(e) PROVE Uninformed'
  <2>1. CASE Connect(e)
    <3>1. \A f \in Endpoint : Running(f)' => Running(f) \/ f = e
      BY <2>1 DEF Connect, Running, Shape
    <3>2. \A p \in Person : /\ p = NameOf[e] => list'[p] = leftover'[p]
                            /\ p # NameOf[e] => list'[p] = list[p] /\ leftover'[p] = leftover[p]
      BY <2>1 DEF Connect, Shape
    <3> QED BY <1>1, <2>1, <3>1, <3>2, Persons DEF Connect, netVars, serverVars
  <2>2. CASE SendHello(e)
    BY <1>1, <2>2 DEF SendHello, listVars, serverVars, Running
  <2> QED BY <1>3, <2>1, <2>2
<1>4. ASSUME NEW e \in Endpoint, Ends(e) PROVE Uninformed'
  <2>1. PICK state \in {"Disconnected", "Refused"} : End(e, state)
    BY <1>4 DEF Ends
  <2>2. DOMAIN <<>> = {}
    OBVIOUS
  <2>3. \A f \in Endpoint : Running(f)' => Running(f)
    BY <2>1 DEF End, Running, Shape
  <2> QED BY <1>1, <2>1, <2>2, <2>3 DEF End, listVars, Shape, serverVars
<1>9. ASSUME NEW p \in Person, TakeEvents(p) PROVE Uninformed'
  BY <1>1, <1>9 DEF TakeEvents, netVars, serverVars, Running
<1>5. ASSUME NEW e \in Endpoint, NEW m \in Message, Reads(e, m) PROVE Uninformed'
  <2> SUFFICES ASSUME net = "reliable", NEW f \in Endpoint, made[f] = {}
               PROVE  /\ Running(f)' => list'[NameOf[f]] = leftover'[NameOf[f]]
                      /\ \A k \in DOMAIN queue'[f] : queue'[f][k].type = "HelloAck"
    BY <1>5 DEF Uninformed, Reads, Handle, serverVars
  <2>1. /\ Running(f) => list[NameOf[f]] = leftover[NameOf[f]]
        /\ \A k \in DOMAIN queue[f] : queue[f][k].type = "HelloAck"
    BY DEF Uninformed
  <2>2. \A k \in DOMAIN queue'[f] : queue'[f][k].type = "HelloAck"
    BY <1>5, <2>1, QueueOfReading
  <2>3. f = e => m.type = "HelloAck"
    <3>1. sent[e] = {}
      BY DEF Shape
    <3>2. \E j \in DOMAIN queue[e] : m = queue[e][j]
      BY <1>5, <3>1, QueueOfReading
    <3> QED BY <2>1, <3>2
  <2>4. Running(e) /\ (Running(f)' => Running(f))
    BY <1>5 DEF Reads, Handle, Running, Shape
  <2>5. CASE f = e
    BY <1>5, <2>1, <2>2, <2>3, <2>4, <2>5, ListsOfReading DEF Listed, LeftOver
  <2>6. CASE f # e /\ Running(f)
    <3>1. NameOf[f] \in Person \ {NameOf[e]}
      BY <2>4, <2>6, Persons DEF Alone
    <3> QED BY <1>5, <2>1, <2>2, <2>6, <3>1, ListsOfReading
  <2> QED BY <2>2, <2>4, <2>5, <2>6
<1>6. ASSUME NEW e \in Endpoint, NEW out, Answers(e, out) PROVE Uninformed'
  <2>1. \A f \in Endpoint : \A m \in To(f, out) : m.type = "HelloAck"
    BY <1>6 DEF Answers
  <2> QED BY <1>6, <2>1, ServerSteps, UninformedOfServing
<1>7. ASSUME NEW e \in Endpoint, Accepts(e) PROVE Uninformed'
  <2>1. ASSUME NEW f \in Endpoint, made'[f] = {} PROVE To(f, Welcome(e)) = {}
    <3>1. f # e /\ made[f] = {}
      BY <1>7, <2>1, AdmitIs
    <3>2. \A j \in DOMAIN sessions : sessions[j].endpoint # f
      BY <3>1 DEF Table
    <3> QED BY <1>7, <3>1, <3>2, AcceptTells DEF Accepts
  <2> QED BY <1>7, <2>1, ServerSteps, UninformedOfServing
<1>8. ASSUME NEW i \in DOMAIN sessions, Drop(i) PROVE Uninformed'
  <2> DEFINE out == S!Broadcast(S!Without(sessions, i), S!Left(i), i)
  <2>1. ASSUME NEW f \in Endpoint, made'[f] = {} PROVE To(f, out) = {}
    <3>1. made[f] = {}
      BY <1>8, <2>1, DropIs
    <3>2. \A j \in DOMAIN sessions : sessions[j].endpoint # f
      BY <3>1 DEF Table
    <3> QED BY <3>2, DropTells
  <2>2. Serves(out)
    BY <1>8, ServerSteps
  <2> HIDE DEF out
  <2> QED BY <2>1, <2>2, UninformedOfServing
<1> QED BY <1>2, <1>3, <1>4, <1>5, <1>6, <1>7, <1>8, <1>9, Steps

-----------------------------------------------------------------------------
(* On a reliable network the list and the queue make the table.            *)

\* What Exact says of one client.
Informed(e, s) ==
    \A i \in Nat : WillList(e, i) <=> i \in DOMAIN sessions \ {s} \/ WillKeep(e, i)

LEMMA InformedOfReading ==
    ASSUME Shape, NEW e \in Endpoint, NEW m \in Message, Reads(e, m), net = "reliable",
           NEW i \in Nat
    PROVE  (WillList(e, i)' <=> WillList(e, i)) /\ (WillKeep(e, i)' <=> WillKeep(e, i))
<1> DEFINE p == NameOf[e]
           q == queue[e]
<1>1. /\ q # <<>> /\ m = Head(q) /\ queue'[e] = Tail(q)
      /\ q \in Seq(Message)
      /\ list'[p] = Listed(list[p], m) /\ leftover'[p] = LeftOver(leftover[p], m)
  BY ListsOfReading DEF Reads, Shape
<1>2. /\ i \in list'[p] <=> Brings(m, i) \/ (i \in list[p] /\ ~Takes(m, i))
      /\ i \in leftover'[p] <=> i \in leftover[p] /\ ~Takes(m, i)
  BY <1>1 DEF Listed, LeftOver, Brings, Takes
<1>3. /\ Knows(list'[p], Tail(q), i) <=> Knows(list[p], q, i)
      /\ Stays(leftover'[p], Tail(q), i) <=> Stays(leftover[p], q, i)
  BY <1>1, <1>2, KnowsHead
<1> QED BY <1>1, <1>3 DEF WillList, WillKeep

LEMMA InformedOfMessage ==
    ASSUME Shape, NEW out, Serves(out), net = "reliable", NEW e \in Endpoint,
           NEW m \in Message, To(e, out) = {m}, NEW i \in Nat
    PROVE  /\ WillList(e, i)' <=> Brings(m, i) \/ (WillList(e, i) /\ ~Takes(m, i))
           /\ WillKeep(e, i)' <=> WillKeep(e, i) /\ ~Takes(m, i)
<1>1. Sendable(out) /\ Transmit(out) /\ list' = list /\ leftover' = leftover
  BY DEF Serves, clientVars, listVars
<1>2. queue'[e] = Append(queue[e], m)
  BY <1>1, CarriedTo
<1>3. queue[e] \in Seq(Message)
  BY DEF Shape
<1> QED BY <1>1, <1>2, <1>3, KnowsAppend DEF WillList, WillKeep

LEMMA InformedOfWelcome ==
    ASSUME Shape, Table, Uninformed, NEW e \in Endpoint, Accepts(e), Running(e),
           net = "reliable", made[e] = {}, NEW i \in Nat
    PROVE  WillList(e, i)' <=> i \in DOMAIN sessions \/ WillKeep(e, i)'
<1>1. Serves(Welcome(e)) /\ Sendable(Welcome(e)) /\ Transmit(Welcome(e))
  BY ServerSteps DEF Serves
<1>2. PICK l : Line(l, e, Welcome(e))
  BY <1>1, CarriedTo
<1>3. /\ \A j \in DOMAIN sessions : sessions[j].endpoint # e
      /\ DOMAIN sessions \subseteq Nat
  BY DEF Accepts, Table
<1>4. /\ \A m \in To(e, Welcome(e)) : m = S!HelloAck("accepted") \/ Present(m)
      /\ \A j \in DOMAIN sessions : S!Joined(j, sessions[j].username) \in To(e, Welcome(e))
  BY <1>3, AcceptTells
<1>5. ASSUME NEW k \in DOMAIN l
      PROVE  /\ l[k].type # "NotifyPlayerLeft"
             /\ Brings(l[k], i) => i \in DOMAIN sessions
  <2>1. CASE l[k] = S!HelloAck("accepted")
    BY <2>1, AckFields DEF Brings, Results
  <2>2. CASE Present(l[k])
    <3>1. PICK j \in DOMAIN sessions : l[k] = S!Joined(j, sessions[j].username)
      BY <2>2 DEF Present
    <3>2. l[k].type = "NotifyPlayerJoined" /\ l[k].playerId = j
      BY <3>1 DEF S!Joined
    <3> QED BY <3>2 DEF Brings
  <2> QED BY <1>2, <1>4, <2>1, <2>2 DEF Line
<1>6. ASSUME i \in DOMAIN sessions PROVE \E k \in DOMAIN l : Brings(l[k], i)
  <2>1. PICK k \in DOMAIN l : l[k] = S!Joined(i, sessions[i].username)
    BY <1>2, <1>4, <1>6 DEF Line
  <2>2. Brings(l[k], i)
    BY <2>1 DEF Brings, S!Joined
  <2> QED BY <2>2
<1>7. /\ queue'[e] = queue[e] \o l /\ l \in Seq(Message)
      /\ list'[NameOf[e]] = leftover'[NameOf[e]] /\ queue[e] \in Seq(Message)
      /\ \A k \in DOMAIN queue[e] : queue[e][k].type = "HelloAck"
  BY <1>1, <1>2 DEF Line, Uninformed, Serves, clientVars, listVars, Shape
<1>8. \A V : /\ Knows(V, queue[e] \o l, i) <=> i \in V \/ \E k \in DOMAIN l : Brings(l[k], i)
             /\ Stays(V, queue[e] \o l, i) <=> i \in V
  BY <1>5, <1>7, KnowsRoster
<1> QED BY <1>5, <1>6, <1>7, <1>8 DEF WillList, WillKeep

LEMMA NetStays == ASSUME Shape, Table, [Next]_vars PROVE net' = net
<1>1. ASSUME NEW e \in Endpoint, Connect(e) \/ SendHello(e) \/ Ends(e) PROVE net' = net
  BY <1>1 DEF Connect, SendHello, Ends, End, netVars
<1>2. ASSUME NEW e \in Endpoint, NEW m \in Message, Reads(e, m) PROVE net' = net
  BY <1>2 DEF Reads, Handle
<1>3. ASSUME NEW e \in Endpoint, NEW out, Answers(e, out) PROVE net' = net
  BY <1>3, ServerSteps DEF Serves
<1>4. ASSUME NEW e \in Endpoint, Accepts(e) PROVE net' = net
  BY <1>4, ServerSteps DEF Serves
<1>5. ASSUME NEW i \in DOMAIN sessions, Drop(i) PROVE net' = net
  BY <1>5 DEF Drop, Transmit
<1>6. CASE UNCHANGED vars
  BY <1>6 DEF vars, netVars
<1>7. ASSUME NEW p \in Person, TakeEvents(p) PROVE net' = net
  BY <1>7 DEF TakeEvents, netVars
<1> QED BY <1>1, <1>2, <1>3, <1>4, <1>5, <1>6, <1>7, Steps

LEMMA ExactStep == IInv /\ [Next]_vars => Exact'
<1> SUFFICES ASSUME IInv, [Next]_vars PROVE Exact'
  OBVIOUS
<1> SUFFICES ASSUME net = "reliable",
                    NEW e \in Endpoint, NEW s \in DOMAIN sessions',
                    Running(e)', sessions'[s].endpoint = e, made'[e] = {s}
             PROVE  Informed(e, s)'
  <2>1. net' = net
    BY NetStays DEF IInv
  <2> QED BY <2>1 DEF Exact, Informed
<1> USE DEF IInv
<1>1. ASSUME s \in DOMAIN sessions, Running(e), sessions[s].endpoint = e, made[e] = {s}
      PROVE  Informed(e, s)
  BY <1>1 DEF Exact, Informed
<1>2. ASSUME list'[NameOf[e]] = list[NameOf[e]], leftover'[NameOf[e]] = leftover[NameOf[e]],
             queue'[e] = queue[e], Running(e), sessions' = sessions, made' = made
      PROVE  Informed(e, s)'
  BY <1>1, <1>2 DEF Informed, WillList, WillKeep
<1>3. CASE UNCHANGED vars
  BY <1>2, <1>3 DEF vars, netVars, clientVars, listVars, serverVars, Running
<1>4. ASSUME NEW f \in Endpoint, Connect(f) PROVE Informed(e, s)'
  <2>1. made[f] = {} /\ made' = made
    BY <1>4 DEF Connect, Started, serverVars
  <2>2. e # f
    BY <2>1
  <2>3. Running(e) /\ NameOf[e] # NameOf[f] /\ queue' = queue /\ sessions' = sessions
    BY <1>4, <2>2 DEF Connect, Running, Shape, netVars, serverVars
  <2>4. list'[NameOf[e]] = list[NameOf[e]] /\ leftover'[NameOf[e]] = leftover[NameOf[e]]
    BY <1>4, <2>3, Persons DEF Connect, Shape
  <2> QED BY <1>2, <2>1, <2>3, <2>4
<1>5. ASSUME NEW f \in Endpoint, SendHello(f) PROVE Informed(e, s)'
  BY <1>2, <1>5 DEF SendHello, listVars, serverVars, Running
<1>6. ASSUME NEW f \in Endpoint, Ends(f) PROVE Informed(e, s)'
  <2>1. PICK state \in {"Disconnected", "Refused"} : End(f, state)
    BY <1>6 DEF Ends
  <2>2. e # f
    BY <2>1 DEF End, Running, Shape
  <2> QED BY <1>2, <2>1, <2>2 DEF End, listVars, serverVars, Running, Shape
<1>11. ASSUME NEW p \in Person, TakeEvents(p) PROVE Informed(e, s)'
  BY <1>2, <1>11 DEF TakeEvents, netVars, serverVars, Running
<1>7. ASSUME NEW f \in Endpoint, NEW m \in Message, Reads(f, m) PROVE Informed(e, s)'
  <2>1. sessions' = sessions /\ made' = made
    BY <1>7 DEF Reads, Handle, serverVars
  <2>2. CASE e = f
    <3>1. Informed(e, s)
      BY <1>1, <1>7, <2>1, <2>2 DEF Reads
    <3> QED BY <1>7, <2>1, <2>2, <3>1, InformedOfReading DEF Informed
  <2>3. CASE e # f
    <3>1. queue'[e] = queue[e]
      BY <1>7, <2>3, QueueOfReading
    <3>2. Running(e) /\ Running(f)
      BY <1>7, <2>3 DEF Reads, Handle, Running, Shape
    <3>3. NameOf[e] \in Person \ {NameOf[f]}
      BY <2>3, <3>2, Persons DEF Alone
    <3>4. list'[NameOf[e]] = list[NameOf[e]] /\ leftover'[NameOf[e]] = leftover[NameOf[e]]
      BY <1>7, <3>3, ListsOfReading
    <3> QED BY <1>2, <2>1, <3>1, <3>2, <3>4
  <2> QED BY <2>2, <2>3
<1>8. ASSUME NEW f \in Endpoint, NEW out, Answers(f, out) PROVE Informed(e, s)'
  <2>1. sessions' = sessions /\ made' = made /\ Serves(out)
    BY <1>8, ServerSteps DEF Answers, serverVars
  <2>2. Running(e) /\ Informed(e, s)
    BY <1>1, <2>1 DEF Serves, clientVars, Running
  <2>3. CASE To(e, out) = {}
    BY <1>2, <2>1, <2>2, <2>3, CarriedTo DEF Serves, clientVars, listVars
  <2>4. ASSUME NEW m \in Message, To(e, out) = {m} PROVE Informed(e, s)'
    <3>1. m.type = "HelloAck"
      BY <1>8, <2>4 DEF Answers
    <3>2. \A i \in Nat : ~Brings(m, i) /\ ~Takes(m, i)
      BY <3>1 DEF Brings, Takes
    <3> QED BY <2>1, <2>2, <2>4, <3>2, InformedOfMessage DEF Informed
  <2> QED BY <1>8, <2>3, <2>4 DEF Answers
<1>9. ASSUME NEW f \in Endpoint, Accepts(f) PROVE Informed(e, s)'
  <2>1. Serves(Welcome(f)) /\ Running(e)
    BY <1>9, ServerSteps DEF Serves, clientVars, Running
  <2>2. /\ nextId \in Nat /\ nextId \notin made[e] /\ nextId \notin DOMAIN sessions
        /\ DOMAIN sessions' = DOMAIN sessions \cup {nextId}
    <3>1. nextId \in Nat /\ made[e] \subseteq 1 .. nextId - 1
      BY DEF Table
    <3>2. nextId \notin made[e]
      BY <3>1
    <3>3. /\ nextId \notin DOMAIN sessions
          /\ DOMAIN sessions' = DOMAIN sessions \cup {nextId}
      BY <1>9, AdmitIs
    <3> QED BY <3>1, <3>2, <3>3
  <2>3. CASE e = f
    <3>1. s = nextId /\ made[e] = {}
      BY <1>9, <2>2, <2>3, AdmitIs
    <3>2. \A i \in Nat : WillList(e, i)' <=> i \in DOMAIN sessions \/ WillKeep(e, i)'
      BY <1>9, <2>1, <2>3, <3>1, InformedOfWelcome
    <3> QED BY <2>2, <3>1, <3>2 DEF Informed
  <2>4. CASE e # f
    <3>1. s \in DOMAIN sessions /\ sessions[s].endpoint = e /\ made[e] = {s}
      BY <1>9, <2>2, <2>4, AdmitIs
    <3>2. Informed(e, s)
      BY <1>1, <2>1, <3>1
    <3> DEFINE m == S!Joined(nextId, NameOf[f])
    <3>3. To(e, Welcome(f)) = {m}
      BY <1>9, <2>1, <2>4, <3>1, AcceptTells DEF Accepts
    <3>4. m \in Message /\ \A i \in Nat : (Brings(m, i) <=> i = nextId) /\ ~Takes(m, i)
      BY <2>2, NameOfAssumption, JoinedFields DEF NameOfAssumption, Brings, Takes
    <3> HIDE DEF m
    <3>5. \A i \in Nat : /\ WillList(e, i)' <=> i = nextId \/ WillList(e, i)
                         /\ WillKeep(e, i)' <=> WillKeep(e, i)
      BY <2>1, <3>3, <3>4, InformedOfMessage
    <3> QED BY <2>2, <3>1, <3>2, <3>5 DEF Informed
  <2> QED BY <2>3, <2>4
<1>10. ASSUME NEW d \in DOMAIN sessions, Drop(d) PROVE Informed(e, s)'
  <2> DEFINE out == S!Broadcast(S!Without(sessions, d), S!Left(d), d)
             m == S!Left(d)
  <2>1. Serves(out)
    BY <1>10, ServerSteps
  <2>2. /\ DOMAIN sessions' = DOMAIN sessions \ {d} /\ s \in DOMAIN sessions \ {d}
        /\ sessions[s].endpoint = e /\ made[e] = {s} /\ d \in Nat
    <3>1. d \in Nat
      BY DEF Table
    <3> QED BY <1>10, <3>1, DropIs
  <2>3. Running(e)
    BY <2>1 DEF Serves, clientVars, Running
  <2>4. Informed(e, s)
    BY <1>1, <2>2, <2>3
  <2>5. To(e, out) = {m}
    BY <2>2, <2>3, DropTells
  <2>6. m \in Message /\ \A i \in Nat : ~Brings(m, i) /\ (Takes(m, i) <=> i = d)
    BY <2>2, LeftFields DEF Brings, Takes
  <2> HIDE DEF out, m
  <2>7. \A i \in Nat : /\ WillList(e, i)' <=> i # d /\ WillList(e, i)
                       /\ WillKeep(e, i)' <=> i # d /\ WillKeep(e, i)
    BY <2>1, <2>5, <2>6, InformedOfMessage
  <2> QED BY <2>2, <2>4, <2>7 DEF Informed
<1> QED BY <1>3, <1>4, <1>5, <1>6, <1>7, <1>8, <1>9, <1>10, <1>11, Steps

-----------------------------------------------------------------------------
(* The theorems.                                                           *)

LEMMA InitIInv == Init => IInv
<1> SUFFICES ASSUME Init PROVE IInv
  OBVIOUS
<1>1. \A e \in Endpoint : /\ hellos[e] = 0 /\ queue[e] = <<>> /\ sent[e] = {}
                          /\ client[e] = "off" /\ made[e] = {}
  BY DEF Init
<1>2. DOMAIN sessions = {} /\ nextId = 1 /\ DOMAIN <<>> = {}
  BY DEF Init
<1>3. Shape
  <2>1. /\ hellos \in [Endpoint -> Nat] /\ client \in [Endpoint -> States]
        /\ sent \in [Endpoint -> SUBSET Message] /\ net \in {"udp", "reliable"}
    BY DEF Init, States
  <2>2. queue \in [Endpoint -> Seq(Message)]
    BY DEF Init
  <2>3. /\ bodies \in [Person -> SUBSET Nat] /\ list \in [Person -> SUBSET Nat]
        /\ leftover \in [Person -> SUBSET Nat]
    BY DEF Init
  <2> QED BY <1>1, <2>1, <2>2, <2>3 DEF Shape
<1>4. Table
  <2>1. made \in [Endpoint -> SUBSET (1 .. nextId - 1)]
    BY DEF Init
  <2> QED BY <1>1, <1>2, <2>1 DEF Table
<1>5. \A p \in Person : bodies[p] = {} /\ list[p] = {} /\ leftover[p] = {}
  BY DEF Init
<1>6. AllReal /\ Alone /\ Started /\ Uninformed /\ Exact
  BY <1>1, <1>2, <1>5 DEF AllReal, Alone, Running, Started, Uninformed, Exact
<1> QED BY <1>3, <1>4, <1>6 DEF IInv

LEMMA IInvStep == IInv /\ [Next]_vars => IInv'
BY ShapeStep, TableStep, RealStep, AloneStep, StartedStep, UninformedStep, ExactStep DEF IInv

LEMMA Invariance == Spec => []IInv
BY InitIInv, IInvStep, PTL DEF Spec

\* On either network, whatever is lost, repeated or reordered and whoever
\* comes, goes, expires or reconnects: every player in a client's list, and in
\* every join on its way to a client, was let in under that id and name, and
\* is not the client's own person, also not from an earlier connection.
THEOREM ListsReal == Spec => []PictureReal
<1>1. IInv => PictureReal
  BY DEF IInv, AllReal, PictureReal, OnItsWay, Truthful, Real, Other
<1> QED BY <1>1, Invariance, PTL

\* On a reliable network a client that has read all it was sent lists exactly
\* the server's table, and what earlier connections left in m_bodies and no
\* leave has taken out since, unless its session was made twice.
THEOREM ListsExact == Spec => []PictureExact
<1>1. ASSUME IInv PROVE PictureExact
  <2> SUFFICES ASSUME NEW e \in Endpoint,
                      net = "reliable", client[e] = "Connected", queue[e] = <<>>,
                      SessionsOf(e) # {}, Cardinality(made[e]) = 1
               PROVE  list[NameOf[e]] =
                         (DOMAIN sessions \ SessionsOf(e)) \cup leftover[NameOf[e]]
    BY DEF PictureExact
  <2> USE <1>1 DEF IInv
  <2>1. PICK s \in DOMAIN sessions : sessions[s].endpoint = e
    BY DEF SessionsOf
  <2>2. SessionsOf(e) = {s}
    BY <2>1 DEF SessionsOf, Table
  <2>3. made[e] = {s}
    <3>1. made[e] \subseteq 1 .. nextId - 1 /\ nextId - 1 \in Int /\ s \in made[e]
      BY <2>1 DEF Table
    <3>2. IsFiniteSet(made[e])
      BY <3>1, FS_Interval, FS_Subset
    <3>3. PICK x : made[e] = {x}
      BY <3>2, FS_Singleton
    <3> QED BY <3>1, <3>3
  <2>4. \A i \in Nat :
           i \in list[NameOf[e]] <=> i \in DOMAIN sessions \ {s} \/ i \in leftover[NameOf[e]]
    BY <2>1, <2>3, KnowsOfEmpty DEF Exact, Running, WillList, WillKeep
  <2>5. DOMAIN sessions \subseteq Nat
    <3>1. ASSUME NEW i \in DOMAIN sessions PROVE i \in Nat
      BY DEF Table
    <3> QED BY <3>1
  <2>6. list[NameOf[e]] \subseteq Nat /\ leftover[NameOf[e]] \subseteq Nat
    BY Persons DEF Shape
  <2> QED BY <2>2, <2>4, <2>5, <2>6
<1> QED BY <1>1, Invariance, PTL

LEMMA FiniteTable == Table => IsFiniteSet(DOMAIN sessions)
<1> SUFFICES ASSUME Table PROVE IsFiniteSet(DOMAIN sessions)
  OBVIOUS
<1>1. nextId - 1 \in Int /\ DOMAIN sessions \subseteq 1 .. nextId - 1
  <2>1. ASSUME NEW i \in DOMAIN sessions PROVE i \in 1 .. nextId - 1
    BY DEF Table
  <2> QED BY <2>1 DEF Table
<1> QED BY <1>1, FS_Interval, FS_Subset

\* Every step of the whole system lets one player in under a fresh id, lets
\* one go, or leaves the members as they are: what Server does in many steps
\* and what is done here in one are the same to everybody outside.
THEOREM SystemImplementsRoster == Spec => RosterSpec
<1>1. Init => R!Init
  <2> SUFFICES ASSUME Init PROVE R!Init
    OBVIOUS
  <2>1. DOMAIN sessions = {} /\ nextId - 1 = 0
    BY DEF Init
  <2> QED BY <2>1 DEF R!Init, Members
<1>2. IInv /\ [Next]_vars => [R!Next]_(R!vars)
  <2> SUFFICES ASSUME IInv, [Next]_vars PROVE R!Next \/ UNCHANGED R!vars
    OBVIOUS
  <2>1. Shape /\ Table
    BY DEF IInv
  <2>2. CASE UNCHANGED serverVars
    BY <2>2 DEF serverVars, R!vars, Members
  <2>3. ASSUME NEW i \in DOMAIN sessions, Drop(i) PROVE R!Next
    <3>1. Members' = [j \in DOMAIN Members \ {i} |-> Members[j]]
      BY <2>3, DropIs DEF Members
    <3>2. R!Leave(i) /\ i \in DOMAIN Members
      BY <2>3, <3>1, DropIs DEF R!Leave, Members
    <3> QED BY <3>2 DEF R!Next
  <2>4. ASSUME NEW e \in Endpoint, Accepts(e) PROVE R!Next
    <3> DEFINE n == NameOf[e]
               w == [username |-> n, endpoint |-> e]
    <3>1. nextId \in Nat /\ nextId - 1 + 1 = nextId /\ nextId' - 1 = nextId
      BY <2>1, <2>4 DEF Accepts, Table
    <3>2. /\ n \in Name \ {NoName}
          /\ \A j \in DOMAIN sessions : sessions[j].endpoint # e /\ sessions[j].username # n
          /\ ~(Cardinality(DOMAIN sessions) >= MaxPlayers)
      BY <2>4, AcceptedMeans, NameOfAssumption DEF Accepts
    <3>3. w \in R!Who
      BY <3>2 DEF R!Who
    <3>4. Members' = [i \in DOMAIN Members \cup {nextId} |->
                        IF i = nextId THEN w ELSE Members[i]]
      <4>1. /\ DOMAIN sessions' = DOMAIN sessions \cup {nextId} /\ nextId \notin DOMAIN sessions
            /\ sessions'[nextId].endpoint = e /\ sessions'[nextId].username = n
            /\ \A j \in DOMAIN sessions : sessions'[j] = sessions[j]
        BY <2>1, <2>4, AdmitIs
      <4> QED BY <4>1 DEF Members
    <3>5. Cardinality(DOMAIN Members) < MaxPlayers
      <4>1. DOMAIN Members = DOMAIN sessions /\ Cardinality(DOMAIN sessions) \in Nat
        BY <2>1, FiniteTable, FS_CardinalityType DEF Members
      <4> QED BY <3>2, <4>1, CapacityAssumption
    <3>6. \A i \in DOMAIN Members : /\ Members[i].username # w.username
                                    /\ Members[i].endpoint # w.endpoint
      BY <3>2 DEF Members
    <3>7. R!Join(w)
      BY <3>1, <3>4, <3>5, <3>6 DEF R!Join, R!Cardinality, Cardinality
    <3> QED BY <3>3, <3>7 DEF R!Next
  <2> QED BY <2>1, <2>2, <2>3, <2>4, TableSteps
<1> QED BY <1>1, <1>2, Invariance, PTL DEF Spec, RosterSpec, R!Spec
=============================================================================
