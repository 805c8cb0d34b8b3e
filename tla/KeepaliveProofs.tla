-------------------------- MODULE KeepaliveProofs --------------------------
(***************************************************************************)
(* Proofs about pings, pongs and timeouts, for every length of the         *)
(* intervals, of the turns of both loops and of the way of a datagram that *)
(* the assumptions of Keepalive admit.                                     *)
(***************************************************************************)
EXTENDS Keepalive, TLAPS

-----------------------------------------------------------------------------
(* Three products, and the only facts about them that are used.            *)

\* At least so long is the time between n + 1 pings.
Spaced(n) == n * PingInterval

\* At most so long is it.
Spread(n) == n * (PingInterval + ClientTurn)

\* The client has read n pongs after so long.
Reading(n) == n * ClientTurn

-----------------------------------------------------------------------------
(* The invariant.                                                          *)

\* How far the turns are.
ClientElapsed == IF client = "poll" THEN clientNow ELSE 0
ServerElapsed == IF InTurn THEN serverNow ELSE 0

TypeOK ==
    /\ client \in {"poll", "top", "gone"}
    /\ clientNow \in Nat /\ sincePing \in Nat /\ sinceServer \in Nat
    /\ server \in {"turn", "long", "top", "stopped"}
    /\ serverNow \in Nat /\ sinceSeen \in Nat
    /\ session \in BOOLEAN /\ longUsed \in BOOLEAN
    /\ up \in Seq(Nat)
    /\ down \in Seq([sentAt : Nat, age : Nat])
    /\ lost \in 0 .. MaxLost
    /\ fault \in {"none", "cut", "quit", "stop", "kick"}
    /\ since \in Nat

\* What a fault leaves behind, and that without one both sides are there.
Faults ==
    /\ fault = "none" => Connected /\ session /\ server # "stopped"
    /\ fault = "cut" => up = <<>> /\ down = <<>>
    /\ fault = "quit" => ~Connected
    /\ fault = "stop" => server = "stopped"
    /\ fault = "kick" => ~session
    /\ server = "stopped" => fault = "stop"

\* No turn is longer than it may be; the timers were looked at on top of it.
ClientClock ==
    Connected =>
        /\ clientNow <= ClientTurn /\ clientNow <= sincePing
        /\ client = "poll" => sincePing < PingInterval + clientNow
        /\ sincePing < PingInterval + ClientTurn
        /\ client = "poll" => sinceServer < ClientTimeout + clientNow
        /\ sinceServer < ClientTimeout + ClientTurn

ServerClock ==
    server # "stopped" =>
        /\ serverNow <= LongTurn
        /\ server = "turn" => serverNow <= ServerTurn
        /\ server = "long" => longUsed
        /\ InTurn /\ session => sinceSeen < ServerTimeout + serverNow

\* The pings on their way were sent PingInterval apart.
Pings ==
    server # "stopped" =>
        /\ \A k \in 1 .. Len(up) : k < Len(up) => up[k] >= up[k + 1] + PingInterval
        /\ up # <<>> => up[Len(up)] >= sincePing

\* The first ping has not waited for more than the turn it arrived in, or it
\* came behind others while the server was held up.
PingWait ==
    server # "stopped" /\ up # <<>> =>
        \/ up[1] <= Latency + ServerElapsed
        \/ /\ longUsed /\ server # "long"
           /\ up[1] + PingInterval <= Latency + LongTurn + ServerElapsed

\* The order and the distance of all that is on its way.
Line ==
    fault = "none" =>
        /\ \A k \in 1 .. Len(up) : up[k] >= sincePing + Spaced(Len(up) - k)
        /\ \A k \in 1 .. Len(down) :
              down[k].sentAt >= sincePing + Spaced(Len(down) - k + Len(up))
        /\ \A k \in 1 .. Len(down) :
              k < Len(down) => down[k].sentAt >= down[k + 1].sentAt + PingInterval
        /\ down # <<>> /\ up # <<>> => down[Len(down)].sentAt >= up[1] + PingInterval
        /\ down # <<>> => down[1].sentAt <= 2 * Latency + LongTurn + ClientElapsed

\* A pong is at most so much younger than its ping.
PongWay ==
    \A k \in 1 .. Len(down) : down[k].sentAt <= down[k].age + Latency + LongTurn

\* Pongs are in order, and wait for those before them to be read.
PongWait ==
    Connected =>
        /\ Len(down) <= MostPongs
        /\ \A j, k \in 1 .. Len(down) : j <= k => down[j].age >= down[k].age
        /\ \A k \in 1 .. Len(down) :
              down[k].age <= Latency + Reading(MostPongs - k) + ClientElapsed

\* The client heard the server before the k-th of the pings on their way, of
\* those that were lost since then, and no more, was sent.
Heard ==
    fault = "none" =>
        /\ \A k \in 1 .. Len(down) : sinceServer <= Spread(k + lost) + down[k].sentAt
        /\ \A k \in 1 .. Len(up) : sinceServer <= Spread(Len(down) + k + lost) + up[k]
        /\ sinceServer <= Spread(Len(down) + Len(up) + lost) + sincePing

\* The time after which a pong tells the client what is long past.
PongAge == LongTurn + Latency + MostPongs * ClientTurn

\* The server saw the client when it sent the last pong, and not much before
\* the first ping on its way was sent.
Seen ==
    fault = "none" =>
        /\ \A k \in 1 .. Len(down) : sinceSeen <= LongTurn + down[k].age
        /\ up = <<>> => sinceSeen <= PongAge + Spread(lost) + sincePing
        /\ up # <<>> => sinceSeen <= PongAge + PingGap + up[1]
        /\ server = "top" /\ up # <<>> => sinceSeen <= PongAge + PingGap + Latency

\* After a fault, what is on its way is older than the fault.
ClientNotice ==
    fault \in {"cut", "stop", "kick"} /\ Connected =>
        /\ \A k \in 1 .. Len(down) : since <= down[k].age
        /\ since <= sinceServer + Latency + Reading(MostPongs - 1)

ServerNotice ==
    fault \in {"cut", "quit"} /\ session =>
        /\ \A k \in 1 .. Len(up) : since <= up[k]
        /\ \/ since <= sinceSeen + Latency
           \/ /\ longUsed /\ server # "long"
              /\ since + PingInterval <= sinceSeen + Latency + LongTurn
        /\ since < ServerNoticeTime

IInv ==
    /\ TypeOK /\ Faults /\ ClientClock /\ ServerClock
    /\ Pings /\ PingWait /\ Line /\ PongWay /\ PongWait
    /\ Heard /\ Seen /\ ClientNotice /\ ServerNotice

-----------------------------------------------------------------------------
(* Facts about constants and sequences.                                    *)

LEMMA Constants ==
    /\ PingInterval \in Nat /\ PingInterval > 0
    /\ ClientTimeout \in Nat /\ ClientTimeout > 0
    /\ ServerTimeout \in Nat /\ ServerTimeout > 0
    /\ ClientTurn \in Nat /\ ClientTurn > 0 /\ ClientTurn <= PingInterval
    /\ ServerTurn \in Nat /\ ServerTurn > 0 /\ ServerTurn <= PingInterval
    /\ LongTurn \in Nat /\ LongTurn >= ServerTurn
    /\ Latency \in Nat /\ MaxLost \in Nat
BY TimesAssumption, TurnsAssumption

\* A product with a natural number, one factor more and one less.
LEMMA Product ==
    ASSUME NEW n \in Nat, NEW d \in Nat
    PROVE  /\ n * d \in Nat
           /\ (n + 1) * d = n * d + d
           /\ 0 * d = 0
OBVIOUS

LEMMA ProductMonotone ==
    ASSUME NEW n \in Nat, NEW m \in Nat, n <= m, NEW d \in Nat
    PROVE  n * d <= m * d
<1> DEFINE r == m - n
<1>1. r \in Nat /\ m = n + r
  OBVIOUS
<1>2. m * d = n * d + r * d
  BY <1>1
<1>3. r * d \in Nat /\ n * d \in Nat
  BY <1>1
<1> HIDE DEF r
<1> QED BY <1>2, <1>3

LEMMA SpacedFacts ==
    ASSUME NEW n \in Nat
    PROVE  /\ Spaced(n) \in Nat /\ Spaced(0) = 0
           /\ Spaced(n + 1) = Spaced(n) + PingInterval
BY Product, Constants DEF Spaced

LEMMA SpacedMonotone ==
    ASSUME NEW n \in Nat, NEW m \in Nat, n <= m
    PROVE  Spaced(n) <= Spaced(m)
BY ProductMonotone, Constants DEF Spaced

LEMMA SpreadFacts ==
    ASSUME NEW n \in Nat
    PROVE  /\ Spread(n) \in Nat
           /\ Spread(n + 1) = Spread(n) + PingInterval + ClientTurn
<1>1. PingInterval + ClientTurn \in Nat
  BY Constants
<1>2. /\ n * (PingInterval + ClientTurn) \in Nat
      /\ (n + 1) * (PingInterval + ClientTurn)
           = n * (PingInterval + ClientTurn) + (PingInterval + ClientTurn)
  BY <1>1, Product
<1> QED BY <1>2, Constants DEF Spread

LEMMA SpreadMonotone ==
    ASSUME NEW n \in Nat, NEW m \in Nat, n <= m
    PROVE  Spread(n) <= Spread(m)
<1>1. PingInterval + ClientTurn \in Nat
  BY Constants
<1> QED BY <1>1, ProductMonotone DEF Spread

LEMMA ReadingFacts ==
    ASSUME NEW n \in Nat
    PROVE  /\ Reading(n) \in Nat
           /\ Reading(n + 1) = Reading(n) + ClientTurn
BY Product, Constants DEF Reading

LEMMA ReadingMonotone ==
    ASSUME NEW n \in Nat, NEW m \in Nat, n <= m
    PROVE  Reading(n) <= Reading(m)
BY ProductMonotone, Constants DEF Reading

\* So many datagrams sent PingInterval apart are younger than that.
LEMMA MostPongsFact ==
    /\ MostPongs \in Nat /\ MostPongs >= 1
    /\ \A n \in Nat : Spaced(n) <= 2 * Latency + LongTurn + ClientTurn => n + 1 <= MostPongs
<1> DEFINE a == 2 * Latency + LongTurn + ClientTurn
           q == a \div PingInterval
<1>1. a \in Nat
  BY Constants
<1>2. q \in Nat /\ a < (q + 1) * PingInterval
  BY <1>1, Constants
<1>3. MostPongs = 1 + q
  BY DEF MostPongs
<1> HIDE DEF a, q
<1>4. ASSUME NEW n \in Nat, Spaced(n) <= a PROVE n <= q
  <2>1. SUFFICES ASSUME n >= q + 1 PROVE FALSE
    BY <1>2
  <2>2. (q + 1) * PingInterval <= n * PingInterval
    BY <2>1, <1>2, Constants, ProductMonotone
  <2>3. n * PingInterval \in Nat /\ (q + 1) * PingInterval \in Nat
    BY <1>2, Constants, Product
  <2> QED BY <1>1, <1>2, <1>4, <2>2, <2>3 DEF Spaced
<1> QED BY <1>2, <1>3, <1>4 DEF a

\* What the timeouts are long enough for.
LEMMA GapFacts ==
    /\ PingGap \in Nat /\ PongAge \in Nat
    /\ \A l \in 0 .. MaxLost :
          /\ Spread(l) \in Nat
          /\ Spread(l) + PingInterval + ClientTurn <= PingGap
          /\ Spread(l + 1) <= PingGap
    /\ PingGap + 2 * Latency + LongTurn < ClientTimeout
    /\ PingGap + PongAge + Latency < ServerTimeout
    /\ PongAge = LongTurn + Latency + Reading(MostPongs - 1) + ClientTurn
    /\ ClientNoticeTime = ClientTimeout + Latency + Reading(MostPongs - 1) + ClientTurn
    /\ Reading(MostPongs - 1) \in Nat
<1>1. PingGap = Spread(MaxLost + 1)
  BY DEF PingGap, Spread
<1>2. PingGap \in Nat
  BY <1>1, SpreadFacts, Constants
<1>3. MostPongs - 1 \in Nat /\ MostPongs \in Nat /\ (MostPongs - 1) + 1 = MostPongs
  BY MostPongsFact
<1>4. /\ Reading(MostPongs - 1) \in Nat
      /\ MostPongs * ClientTurn = Reading(MostPongs - 1) + ClientTurn
  <2>1. Reading((MostPongs - 1) + 1) = Reading(MostPongs - 1) + ClientTurn
    BY <1>3, ReadingFacts
  <2>2. Reading(MostPongs) = MostPongs * ClientTurn
    BY DEF Reading
  <2> QED BY <1>3, <2>1, <2>2, ReadingFacts
<1>5. ASSUME NEW l \in 0 .. MaxLost
      PROVE  /\ Spread(l) \in Nat
             /\ Spread(l) + PingInterval + ClientTurn <= PingGap
             /\ Spread(l + 1) <= PingGap
  <2>1. l \in Nat /\ l + 1 \in Nat /\ l + 1 <= MaxLost + 1 /\ MaxLost + 1 \in Nat
    BY Constants
  <2> QED BY <1>1, <2>1, SpreadFacts, SpreadMonotone
<1>6. PingGap + 2 * Latency + LongTurn < ClientTimeout
  BY TimeoutsAssumption
<1>7. PingGap + 2 * Latency + LongTurn + MostPongs * ClientTurn < ServerTimeout
  BY TimeoutsAssumption
<1>8. PongAge = LongTurn + Latency + Reading(MostPongs - 1) + ClientTurn
  BY <1>4, Constants DEF PongAge
<1>9. ClientNoticeTime = ClientTimeout + Latency + Reading(MostPongs - 1) + ClientTurn
  BY <1>4, Constants DEF ClientNoticeTime
<1>10. PongAge \in Nat /\ PingGap + PongAge + Latency < ServerTimeout
  BY <1>2, <1>4, <1>7, <1>8, Constants
<1> QED BY <1>2, <1>4, <1>5, <1>6, <1>8, <1>9, <1>10

LEMMA Appended ==
    ASSUME NEW S, NEW s \in Seq(S), NEW e \in S
    PROVE  /\ Append(s, e) \in Seq(S) /\ Append(s, e) # <<>>
           /\ Len(Append(s, e)) = Len(s) + 1
           /\ \A k \in 1 .. Len(s) : Append(s, e)[k] = s[k]
           /\ Append(s, e)[Len(s) + 1] = e
OBVIOUS

LEMMA Taken ==
    ASSUME NEW S, NEW s \in Seq(S), s # <<>>
    PROVE  /\ Tail(s) \in Seq(S) /\ Head(s) = s[1] /\ Head(s) \in S
           /\ Len(Tail(s)) = Len(s) - 1
           /\ \A k \in 1 .. Len(s) - 1 : Tail(s)[k] = s[k + 1]
OBVIOUS

LEMMA Filled ==
    ASSUME NEW S, NEW s \in Seq(S)
    PROVE  /\ Len(s) \in Nat /\ (s # <<>> <=> Len(s) >= 1)
           /\ \A k \in 1 .. Len(s) : s[k] \in S
OBVIOUS

LEMMA QueueTypes ==
    ASSUME TypeOK
    PROVE  /\ Len(up) \in Nat /\ (up # <<>> <=> Len(up) >= 1)
           /\ \A k \in 1 .. Len(up) : up[k] \in Nat
           /\ up # <<>> => Head(up) = up[1]
           /\ Len(down) \in Nat /\ (down # <<>> <=> Len(down) >= 1)
           /\ \A k \in 1 .. Len(down) : down[k].sentAt \in Nat /\ down[k].age \in Nat
           /\ down # <<>> => Head(down) = down[1]
<1>1. up \in Seq(Nat) /\ down \in Seq([sentAt : Nat, age : Nat])
  BY DEF TypeOK
<1>2. \A k \in 1 .. Len(up) : up[k] \in Nat
  BY <1>1
<1>3. ASSUME NEW k \in 1 .. Len(down) PROVE down[k].sentAt \in Nat /\ down[k].age \in Nat
  <2> DEFINE Pong == [sentAt : Nat, age : Nat]
  <2> HIDE DEF Pong
  <2>1. down \in Seq(Pong)
    BY <1>1 DEF Pong
  <2>2. down[k] \in Pong
    BY <2>1
  <2> QED BY <2>2 DEF Pong
<1>4. /\ Len(up) \in Nat /\ (up # <<>> <=> Len(up) >= 1) /\ (up # <<>> => Head(up) = up[1])
  BY <1>1
<1>5. /\ Len(down) \in Nat /\ (down # <<>> <=> Len(down) >= 1)
      /\ down # <<>> => Head(down) = down[1]
  BY <1>1
<1> QED BY <1>2, <1>3, <1>4, <1>5

LEMMA NoticeBegins ==
    ASSUME TypeOK PROVE 0 <= sinceServer + Latency + Reading(MostPongs - 1)
<1>1. sinceServer \in Nat
  BY DEF TypeOK
<1> QED BY <1>1, GapFacts, Constants

-----------------------------------------------------------------------------
(* The invariant holds at first, and in the steps that move no datagram.   *)

LEMMA InitInv == Init => IInv
<1> SUFFICES ASSUME Init PROVE IInv
  OBVIOUS
<1>1. /\ client = "top" /\ clientNow = 0 /\ sincePing = PingInterval /\ sinceServer = 0
      /\ server = "top" /\ serverNow = 0 /\ session = TRUE /\ longUsed = FALSE
      /\ up = <<>> /\ down = <<>> /\ Len(up) = 0 /\ Len(down) = 0
      /\ lost = 0 /\ fault = "none" /\ since = 0
      /\ sinceSeen \in Nat /\ sinceSeen <= Latency
  BY Constants DEF Init
<1>2. TypeOK
  <2>1. up \in Seq(Nat) /\ down \in Seq([sentAt : Nat, age : Nat])
    BY <1>1
  <2>2. lost \in 0 .. MaxLost /\ sincePing \in Nat
    BY <1>1, Constants
  <2> QED BY <1>1, <2>1, <2>2 DEF TypeOK
<1>3. Faults /\ ClientClock /\ ServerClock /\ Pings /\ PingWait
  BY <1>1, Constants DEF Faults, Connected, ClientClock, ServerClock, InTurn, Pings, PingWait
<1>4. Line /\ PongWay
  BY <1>1 DEF Line, PongWay
<1>5. PongWait
  BY <1>1, MostPongsFact DEF PongWait
<1>6. Heard
  <2>1. Spread(0) \in Nat
    BY SpreadFacts
  <2> QED BY <1>1, <2>1, Constants DEF Heard
<1>7. Seen
  <2>1. Spread(0) \in Nat
    BY SpreadFacts
  <2>2. sinceSeen <= PongAge + Spread(lost) + sincePing
    <3>1. PongAge \in Nat /\ PongAge >= Latency
      BY GapFacts, Constants
    <3>2. Spread(lost) \in Nat
      BY <1>1, <2>1
    <3> QED BY <1>1, <3>1, <3>2, Constants
  <2> QED BY <1>1, <2>2 DEF Seen
<1>8. ClientNotice /\ ServerNotice
  BY <1>1 DEF ClientNotice, ServerNotice
<1> QED BY <1>2, <1>3, <1>4, <1>5, <1>6, <1>7, <1>8 DEF IInv

\* The turn ended without a pong, so the first one has not arrived yet.
LEMMA ClientPollEndsInv == ASSUME IInv, ClientPollEnds PROVE IInv'
<1>1. /\ client = "poll" /\ client' = "top" /\ ~PongArrived
      /\ UNCHANGED <<clientNow, sincePing, sinceServer, server, serverNow, session>>
      /\ UNCHANGED <<sinceSeen, longUsed, up, down, lost, fault, since>>
  BY DEF ClientPollEnds, serverVars, netVars, faultVars
<1>2. TypeOK /\ Faults /\ ClientClock /\ ServerClock /\ Line /\ PongWay /\ PongWait
  BY DEF IInv
<1>3. ServerElapsed' = ServerElapsed /\ ClientElapsed' = 0
  BY <1>1 DEF ServerElapsed, ClientElapsed, InTurn
<1>4. TypeOK' /\ Faults'
  BY <1>1, <1>2 DEF TypeOK, Faults, Connected
<1>5. ClientClock'
  BY <1>1, <1>2, Constants DEF TypeOK, ClientClock, Connected
<1>6. (ServerClock /\ Pings /\ PingWait /\ PongWay)'
  BY <1>1, <1>3 DEF IInv, ServerClock, Pings, PingWait, PongWay, InTurn
<1>7. /\ Len(down) \in Nat /\ (down # <<>> <=> Len(down) >= 1)
      /\ \A k \in 1 .. Len(down) : down[k] \in [sentAt : Nat, age : Nat]
  BY <1>2, Filled DEF TypeOK
<1>8. down # <<>> => down[1].age < Latency
  <2>1. down # <<>> => Head(down) = down[1]
    BY <1>2, Taken DEF TypeOK
  <2> QED BY <1>1, <1>7, <2>1, Constants DEF PongArrived
<1>9. down # <<>> => down[1].sentAt <= 2 * Latency + LongTurn
  BY <1>2, <1>7, <1>8, Constants DEF PongWay
<1>10. Line'
  BY <1>1, <1>2, <1>3, <1>7, <1>9, Constants DEF Line
<1>11. PongWait'
  <2>1. Connected /\ Connected'
    BY <1>1 DEF Connected
  <2>2. ASSUME NEW k \in 1 .. Len(down)
        PROVE  down[k].age <= Latency + Reading(MostPongs - k)
    <3>1. MostPongs - k \in Nat
      BY <1>2, <1>7, <2>1, MostPongsFact DEF PongWait
    <3>2. Reading(MostPongs - k) \in Nat
      BY <3>1, ReadingFacts
    <3>3. down[k].age <= down[1].age /\ down[k].age \in Nat /\ down[1].age \in Nat
      BY <1>2, <1>7, <2>1, QueueTypes DEF PongWait
    <3> QED BY <1>7, <1>8, <3>2, <3>3, Constants
  <2>3. ASSUME NEW k \in 1 .. Len(down)
        PROVE  down[k].age <= Latency + Reading(MostPongs - k) + 0
    <3>1. MostPongs - k \in Nat
      BY <1>2, <1>7, <2>1, MostPongsFact DEF PongWait
    <3>2. Reading(MostPongs - k) \in Nat
      BY <3>1, ReadingFacts
    <3>3. Latency + Reading(MostPongs - k) = Latency + Reading(MostPongs - k) + 0
      BY <3>2, Constants
    <3> QED BY <2>2, <3>3
  <2> QED BY <1>1, <1>2, <1>3, <2>1, <2>3 DEF PongWait
<1>12. (Heard /\ Seen /\ ServerNotice)'
  BY <1>1 DEF IInv, Heard, Seen, ServerNotice
<1>13. ClientNotice'
  BY <1>1 DEF IInv, ClientNotice, Connected
<1> QED BY <1>4, <1>5, <1>6, <1>10, <1>11, <1>12, <1>13 DEF IInv

\* Without a fault the session has not expired on top of the server's loop.
LEMMA NotExpired == ASSUME IInv, server = "top", fault = "none" PROVE ~Expired
<1>1. /\ Connected /\ session /\ sincePing < PingInterval + ClientTurn
      /\ sinceSeen \in Nat /\ sincePing \in Nat /\ lost \in 0 .. MaxLost
  BY DEF IInv, TypeOK, Faults, ClientClock
<1>2. /\ Spread(lost) \in Nat /\ Spread(lost) + PingInterval + ClientTurn <= PingGap
      /\ PongAge \in Nat /\ PingGap \in Nat /\ PingGap + PongAge + Latency < ServerTimeout
  BY <1>1, GapFacts
<1>3. CASE up = <<>>
  <2>1. sinceSeen <= PongAge + Spread(lost) + sincePing
    BY <1>3 DEF IInv, Seen
  <2>2. sinceSeen < ServerTimeout
    BY <1>1, <1>2, <2>1, Constants
  <2> QED BY <1>1, <2>2, Constants DEF Expired
<1>4. CASE up # <<>>
  <2>1. sinceSeen <= PongAge + PingGap + Latency
    BY <1>4 DEF IInv, Seen
  <2>2. sinceSeen < ServerTimeout
    BY <1>1, <1>2, <2>1, Constants
  <2> QED BY <1>1, <2>2, Constants DEF Expired
<1> QED BY <1>3, <1>4

LEMMA ServerTopInv == ASSUME IInv, ServerTop PROVE IInv'
<1>1. /\ server = "top" /\ serverNow' = 0 /\ session' = (session /\ ~Expired)
      /\ UNCHANGED <<client, clientNow, sincePing, sinceServer, sinceSeen>>
      /\ UNCHANGED <<up, down, lost, fault, since>>
  BY DEF ServerTop, clientVars, netVars, faultVars
<1>2. \/ server' = "turn" /\ longUsed' = longUsed
      \/ server' = "long" /\ ~longUsed /\ longUsed' = TRUE
  BY DEF ServerTop
<1>3. TypeOK /\ Faults /\ ServerClock
  BY DEF IInv
<1>4. ServerElapsed = 0 /\ ServerElapsed' = 0 /\ ClientElapsed' = ClientElapsed
  BY <1>1, <1>2 DEF ServerElapsed, ClientElapsed, InTurn
<1>5. session' \in BOOLEAN /\ (session' => session /\ ~Expired)
  BY <1>1
<1>6. TypeOK'
  BY <1>1, <1>2, <1>3, <1>5 DEF TypeOK
<1>7. Faults'
  <2>1. fault = "none" => session'
    BY <1>1, <1>3, NotExpired DEF Faults
  <2> QED BY <1>1, <1>2, <1>3, <1>5, <2>1 DEF Faults, Connected
<1>8. ServerClock'
  <2>1. session' => sinceSeen < ServerTimeout
    BY <1>3, <1>5, Constants DEF Expired, TypeOK
  <2> QED BY <1>1, <1>2, <1>3, <2>1, Constants DEF ServerClock, TypeOK
<1>9. (ClientClock /\ PongWay /\ Heard)'
  BY <1>1 DEF IInv, ClientClock, PongWay, Heard, Connected
<1>10. Pings'
  BY <1>1, <1>2 DEF IInv, Pings
<1>11. PingWait'
  BY <1>1, <1>2, <1>4 DEF IInv, PingWait
<1>12. (Line /\ PongWait)'
  BY <1>1, <1>4 DEF IInv, Line, PongWait, Connected
<1>13. Seen'
  BY <1>1, <1>2 DEF IInv, Seen
<1>14. ClientNotice'
  BY <1>1 DEF IInv, ClientNotice, Connected
<1>15. ServerNotice'
  BY <1>1, <1>2, <1>5 DEF IInv, ServerNotice
<1> QED BY <1>6, <1>7, <1>8, <1>9, <1>10, <1>11, <1>12, <1>13, <1>14, <1>15 DEF IInv

LEMMA ServerPollEndsInv == ASSUME IInv, ServerPollEnds PROVE IInv'
<1>1. /\ InTurn /\ ~PingArrived /\ server' = "top" /\ server # "stopped"
      /\ UNCHANGED <<client, clientNow, sincePing, sinceServer, serverNow, session>>
      /\ UNCHANGED <<sinceSeen, longUsed, up, down, lost, fault, since>>
  BY DEF ServerPollEnds, clientVars, netVars, faultVars, InTurn
<1>2. TypeOK /\ Faults /\ ServerClock
  BY DEF IInv
<1>3. ServerElapsed' = 0 /\ ClientElapsed' = ClientElapsed
  BY <1>1 DEF ServerElapsed, ClientElapsed, InTurn
<1>4. up # <<>> => up[1] < Latency /\ up[1] \in Nat
  <2>1. up # <<>> => Head(up) = up[1] /\ Head(up) \in Nat
    BY <1>2, Taken DEF TypeOK
  <2> QED BY <1>1, <2>1, Constants DEF PingArrived
<1>5. TypeOK' /\ Faults'
  BY <1>1, <1>2 DEF TypeOK, Faults, Connected
<1>6. ServerClock'
  BY <1>1, <1>2 DEF ServerClock, InTurn
<1>7. (ClientClock /\ Pings /\ PongWay /\ Heard)'
  BY <1>1 DEF IInv, ClientClock, Pings, PongWay, Heard, Connected
<1>8. PingWait'
  BY <1>1, <1>3, <1>4, Constants DEF PingWait
<1>9. (Line /\ PongWait)'
  BY <1>1, <1>3 DEF IInv, Line, PongWait, Connected
<1>10. Seen'
  <2>1. ASSUME fault = "none", up # <<>> PROVE sinceSeen <= PongAge + PingGap + Latency
    <3>1. sinceSeen <= PongAge + PingGap + up[1]
      BY <2>1 DEF IInv, Seen
    <3>2. PongAge \in Nat /\ PingGap \in Nat /\ sinceSeen \in Nat
      BY <1>2, GapFacts DEF TypeOK
    <3> QED BY <1>4, <2>1, <3>1, <3>2, Constants
  <2> QED BY <1>1, <2>1 DEF IInv, Seen
<1>11. ClientNotice'
  BY <1>1 DEF IInv, ClientNotice, Connected
<1>12. ServerNotice'
  BY <1>1 DEF IInv, ServerNotice
<1> QED BY <1>5, <1>6, <1>7, <1>8, <1>9, <1>10, <1>11, <1>12 DEF IInv

-----------------------------------------------------------------------------
(* What happens to a connection.                                           *)

LEMMA CutInv == ASSUME IInv, Cut PROVE IInv'
<1>1. /\ fault = "none" /\ fault' = "cut" /\ since' = 0 /\ up' = <<>> /\ down' = <<>>
      /\ UNCHANGED <<client, clientNow, sincePing, sinceServer, server, serverNow>>
      /\ UNCHANGED <<session, sinceSeen, longUsed, lost>>
  BY DEF Cut, Happens, clientVars, serverVars
<1>2. TypeOK /\ Faults /\ ClientClock /\ ServerClock /\ PongWait
  BY DEF IInv
<1>3. Len(up') = 0 /\ Len(down') = 0
  BY <1>1
<1>4. TypeOK'
  <2>1. up' \in Seq(Nat) /\ down' \in Seq([sentAt : Nat, age : Nat])
    BY <1>1
  <2> QED BY <1>1, <1>2, <2>1 DEF TypeOK
<1>5. Faults' /\ ClientClock' /\ ServerClock'
  BY <1>1, <1>2 DEF Faults, ClientClock, ServerClock, Connected, InTurn
<1>6. Pings' /\ PingWait' /\ PongWay' /\ Line' /\ Heard' /\ Seen'
  BY <1>1, <1>3 DEF Pings, PingWait, PongWay, Line, Heard, Seen
<1>7. PongWait'
  BY <1>3, MostPongsFact DEF PongWait
<1>8. ClientNotice'
  BY <1>1, <1>2, <1>3, NoticeBegins DEF ClientNotice
<1>9. ServerNotice'
  BY <1>1, <1>2, <1>3, Constants DEF ServerNotice, TypeOK, ServerNoticeTime
<1> QED BY <1>4, <1>5, <1>6, <1>7, <1>8, <1>9 DEF IInv

LEMMA QuitInv == ASSUME IInv, Quit PROVE IInv'
<1>1. /\ fault = "none" /\ fault' = "quit" /\ since' = 0 /\ client' = "gone"
      /\ UNCHANGED <<clientNow, sincePing, sinceServer, server, serverNow>>
      /\ UNCHANGED <<session, sinceSeen, longUsed, up, down, lost>>
  BY DEF Quit, Happens, serverVars, netVars
<1>2. TypeOK /\ Faults /\ ServerClock /\ Pings /\ PingWait /\ PongWay
  BY DEF IInv
<1>3. ServerElapsed' = ServerElapsed /\ ~Connected'
  BY <1>1 DEF ServerElapsed, InTurn, Connected
<1>4. TypeOK' /\ Faults'
  BY <1>1, <1>2, <1>3 DEF TypeOK, Faults
<1>5. ClientClock' /\ PongWait' /\ ClientNotice' /\ Line' /\ Heard' /\ Seen'
  BY <1>1, <1>3 DEF ClientClock, PongWait, ClientNotice, Line, Heard, Seen
<1>6. ServerClock' /\ Pings' /\ PingWait' /\ PongWay'
  BY <1>1, <1>2, <1>3 DEF ServerClock, Pings, PingWait, PongWay, InTurn
<1>7. ServerNotice'
  <2>1. \A k \in 1 .. Len(up) : up[k] \in Nat
    BY <1>2, Filled DEF TypeOK
  <2> QED BY <1>1, <1>2, <2>1, Constants DEF ServerNotice, TypeOK, ServerNoticeTime
<1> QED BY <1>4, <1>5, <1>6, <1>7 DEF IInv

LEMMA StopServerInv == ASSUME IInv, StopServer PROVE IInv'
<1>1. /\ fault = "none" /\ fault' = "stop" /\ since' = 0 /\ server' = "stopped"
      /\ UNCHANGED <<client, clientNow, sincePing, sinceServer, serverNow>>
      /\ UNCHANGED <<session, sinceSeen, longUsed, up, down, lost>>
  BY DEF StopServer, Happens, clientVars, netVars
<1>2. TypeOK /\ Faults /\ ClientClock /\ PongWay /\ PongWait
  BY DEF IInv
<1>3. ClientElapsed' = ClientElapsed
  BY <1>1 DEF ClientElapsed
<1>4. TypeOK' /\ Faults'
  BY <1>1, <1>2 DEF TypeOK, Faults
<1>5. ClientClock' /\ PongWay' /\ PongWait'
  BY <1>1, <1>2, <1>3 DEF ClientClock, PongWay, PongWait, Connected
<1>6. ServerClock' /\ Pings' /\ PingWait' /\ Line' /\ Heard' /\ Seen' /\ ServerNotice'
  BY <1>1 DEF ServerClock, Pings, PingWait, Line, Heard, Seen, ServerNotice
<1>7. ClientNotice'
  <2>1. \A k \in 1 .. Len(down) : 0 <= down[k].age
    BY <1>2, QueueTypes
  <2> QED BY <1>1, <1>2, <2>1, NoticeBegins DEF ClientNotice
<1> QED BY <1>4, <1>5, <1>6, <1>7 DEF IInv

LEMMA KickInv == ASSUME IInv, Kick PROVE IInv'
<1>1. /\ server = "top" /\ fault = "none" /\ fault' = "kick" /\ since' = 0 /\ session' = FALSE
      /\ UNCHANGED <<client, clientNow, sincePing, sinceServer, server, serverNow>>
      /\ UNCHANGED <<sinceSeen, longUsed, up, down, lost>>
  BY DEF Kick, Happens, clientVars, netVars
<1>2. TypeOK /\ ClientClock /\ ServerClock /\ Pings /\ PingWait /\ PongWay /\ PongWait
  BY DEF IInv
<1>3. ClientElapsed' = ClientElapsed /\ ServerElapsed' = ServerElapsed
  BY <1>1 DEF ClientElapsed, ServerElapsed, InTurn
<1>4. TypeOK' /\ Faults'
  BY <1>1, <1>2 DEF TypeOK, Faults
<1>5. ClientClock' /\ ServerClock' /\ Pings' /\ PingWait' /\ PongWay' /\ PongWait'
  BY <1>1, <1>2, <1>3
  DEF ClientClock, ServerClock, Pings, PingWait, PongWay, PongWait, Connected, InTurn
<1>6. Line' /\ Heard' /\ Seen' /\ ServerNotice'
  BY <1>1 DEF Line, Heard, Seen, ServerNotice
<1>7. ClientNotice'
  <2>1. \A k \in 1 .. Len(down) : 0 <= down[k].age
    BY <1>2, QueueTypes
  <2> QED BY <1>1, <1>2, <2>1, NoticeBegins DEF ClientNotice
<1> QED BY <1>4, <1>5, <1>6, <1>7 DEF IInv

-----------------------------------------------------------------------------
(* The client reads a pong.                                                *)

LEMMA ClientReceivesInv == ASSUME IInv, ClientReceives PROVE IInv'
<1> DEFINE N == Len(down)
<1>1. /\ client = "poll" /\ client' = "top" /\ down # <<>> /\ down' = Tail(down)
      /\ sinceServer' = clientNow /\ lost' = 0
      /\ UNCHANGED <<clientNow, sincePing, server, serverNow, session>>
      /\ UNCHANGED <<sinceSeen, longUsed, up, fault, since>>
  BY DEF ClientReceives, serverVars, faultVars
<1>2. TypeOK /\ Faults /\ ClientClock /\ Line /\ PongWay /\ PongWait
  BY DEF IInv
<1>3. /\ N \in Nat /\ N >= 1 /\ Len(up) \in Nat /\ (up # <<>> <=> Len(up) >= 1)
      /\ \A k \in 1 .. N : down[k].sentAt \in Nat /\ down[k].age \in Nat
      /\ \A k \in 1 .. Len(up) : up[k] \in Nat
  BY <1>1, <1>2, QueueTypes
<1>4. /\ down' \in Seq([sentAt : Nat, age : Nat]) /\ Len(down') = N - 1
      /\ \A k \in 1 .. N - 1 : down'[k] = down[k + 1]
  <2>1. down \in Seq([sentAt : Nat, age : Nat])
    BY <1>2 DEF TypeOK
  <2> QED BY <1>1, <2>1, Taken
<1>5. (down' # <<>>) => N >= 2
  <2>1. (down' # <<>>) => Len(down') >= 1
    BY <1>4, Filled
  <2> QED BY <1>3, <1>4, <2>1
<1>6. /\ Connected /\ Connected' /\ ServerElapsed' = ServerElapsed
      /\ ClientElapsed = clientNow /\ ClientElapsed' = 0
  BY <1>1 DEF Connected, ServerElapsed, ClientElapsed, InTurn
<1>7. /\ clientNow \in Nat /\ clientNow <= ClientTurn /\ clientNow <= sincePing
      /\ sincePing \in Nat /\ sinceSeen \in Nat /\ since \in Nat
  BY <1>2, <1>6 DEF TypeOK, ClientClock
<1> HIDE DEF N
<1>8. TypeOK'
  <2>1. 0 \in 0 .. MaxLost
    BY Constants
  <2> QED BY <1>1, <1>2, <1>4, <2>1 DEF TypeOK
<1>9. Faults'
  BY <1>1, <1>2, <1>6 DEF Faults
<1>10. ClientClock'
  BY <1>1, <1>2, <1>6, <1>7, Constants DEF ClientClock
<1>11. ServerClock' /\ Pings' /\ PingWait' /\ ServerNotice'
  BY <1>1, <1>6 DEF IInv, ServerClock, Pings, PingWait, ServerNotice, InTurn
<1>12. PongWay'
  <2>1. ASSUME NEW k \in 1 .. N - 1
        PROVE  down[k + 1].sentAt <= down[k + 1].age + Latency + LongTurn
    <3>1. k + 1 \in 1 .. N
      BY <1>3
    <3> QED BY <1>2, <3>1 DEF PongWay, N
  <2> QED BY <1>4, <2>1 DEF PongWay
<1>13. Line'
  <2> SUFFICES ASSUME fault = "none" PROVE Line'
    BY <1>1 DEF Line
  <2>1. ASSUME NEW k \in 1 .. N - 1
        PROVE  down[k + 1].sentAt >= sincePing + Spaced((N - 1) - k + Len(up))
    <3>1. k + 1 \in 1 .. N /\ N - (k + 1) + Len(up) = (N - 1) - k + Len(up)
      BY <1>3
    <3>2. down[k + 1].sentAt >= sincePing + Spaced(N - (k + 1) + Len(up))
      BY <1>2, <3>1 DEF Line, N
    <3> QED BY <3>1, <3>2
  <2>2. ASSUME NEW k \in 1 .. N - 1, k < N - 1
        PROVE  down[k + 1].sentAt >= down[(k + 1) + 1].sentAt + PingInterval
    <3>1. k + 1 \in 1 .. N /\ k + 1 < N
      BY <1>3, <2>2
    <3> QED BY <1>2, <3>1 DEF Line, N
  <2>3. ASSUME N >= 2, up # <<>>
        PROVE  down'[N - 1].sentAt >= up[1] + PingInterval
    <3>1. down'[N - 1] = down[N]
      BY <1>3, <1>4, <2>3
    <3> QED BY <1>1, <1>2, <2>3, <3>1 DEF Line, N
  <2>4. ASSUME N >= 2
        PROVE  down'[1].sentAt <= 2 * Latency + LongTurn + 0
    <3>1. down'[1] = down[2] /\ down[1].sentAt \in Nat /\ down[2].sentAt \in Nat
      BY <1>3, <1>4, <2>4
    <3>2. down[1].sentAt >= down[2].sentAt + PingInterval
      BY <1>2, <1>3, <2>4 DEF Line, N
    <3>3. down[1].sentAt <= 2 * Latency + LongTurn + clientNow
      BY <1>1, <1>2, <1>6 DEF Line
    <3> QED BY <1>7, <3>1, <3>2, <3>3, Constants
  <2>5. ASSUME NEW k \in 1 .. Len(down')
        PROVE  /\ down'[k].sentAt >= sincePing + Spaced(Len(down') - k + Len(up))
               /\ k < Len(down') => down'[k].sentAt >= down'[k + 1].sentAt + PingInterval
    <3>1. k \in 1 .. N - 1 /\ down'[k] = down[k + 1]
      BY <1>4
    <3>2. ASSUME k < N - 1 PROVE down'[k + 1] = down[(k + 1) + 1]
      <4>1. k + 1 \in 1 .. N - 1
        BY <1>3, <3>1, <3>2
      <4> QED BY <1>4, <4>1
    <3>3. down'[k].sentAt >= sincePing + Spaced(Len(down') - k + Len(up))
      BY <1>4, <2>1, <3>1
    <3>4. k < N - 1 => down'[k].sentAt >= down'[k + 1].sentAt + PingInterval
      BY <2>2, <3>1, <3>2
    <3> QED BY <1>4, <3>3, <3>4
  <2>6. \A k \in 1 .. Len(up) : up[k] >= sincePing + Spaced(Len(up) - k)
    BY <1>2 DEF Line
  <2> QED BY <1>1, <1>4, <1>5, <1>6, <2>3, <2>4, <2>5, <2>6 DEF Line
\* The next one has one less before it.
<1>14. PongWait'
  <2>1. N <= MostPongs /\ MostPongs \in Nat
    BY <1>2, <1>6, MostPongsFact DEF PongWait, N
  <2>2. ASSUME NEW k \in 1 .. N - 1
        PROVE  down[k + 1].age <= Latency + Reading(MostPongs - k) + 0
    <3>1. /\ MostPongs - (k + 1) \in Nat
          /\ (MostPongs - (k + 1)) + 1 = MostPongs - k
          /\ k + 1 \in 1 .. N
      BY <1>3, <2>1
    <3>2. /\ Reading(MostPongs - (k + 1)) \in Nat
          /\ Reading(MostPongs - k) = Reading(MostPongs - (k + 1)) + ClientTurn
      BY <3>1, ReadingFacts
    <3>3. down[k + 1].age <= Latency + Reading(MostPongs - (k + 1)) + clientNow
      BY <1>2, <1>6, <3>1 DEF PongWait, N
    <3>4. down[k + 1].age \in Nat
      BY <1>3, <3>1
    <3> QED BY <1>7, <3>2, <3>3, <3>4, Constants
  <2>3. \A j, k \in 1 .. N - 1 : j <= k => down[j + 1].age >= down[k + 1].age
    BY <1>2, <1>3, <1>6 DEF PongWait, N
  <2>4. N - 1 <= MostPongs
    BY <1>3, <2>1
  <2> QED BY <1>4, <1>6, <2>2, <2>3, <2>4 DEF PongWait
\* What is on its way was sent before the pong came.
<1>15. Heard'
  <2> SUFFICES ASSUME fault = "none" PROVE Heard'
    BY <1>1 DEF Heard
  <2>1. ASSUME NEW k \in 1 .. N - 1 PROVE clientNow <= Spread(k + 0) + down[k + 1].sentAt
    <3>1. k + 1 \in 1 .. N /\ N - (k + 1) + Len(up) \in Nat
      BY <1>3
    <3>2. down[k + 1].sentAt >= sincePing + Spaced(N - (k + 1) + Len(up))
      BY <1>2, <3>1 DEF Line, N
    <3>3. Spaced(N - (k + 1) + Len(up)) \in Nat /\ Spread(k + 0) \in Nat
      <4>1. k + 0 \in Nat
        OBVIOUS
      <4>2. Spread(k + 0) \in Nat
        BY <4>1, SpreadFacts
      <4>3. Spaced(N - (k + 1) + Len(up)) \in Nat
        BY <3>1, SpacedFacts
      <4> QED BY <4>2, <4>3
    <3>4. down[k + 1].sentAt \in Nat
      BY <1>3, <3>1
    <3> QED BY <1>7, <3>2, <3>3, <3>4
  <2>2. ASSUME NEW k \in 1 .. Len(up) PROVE clientNow <= Spread((N - 1) + k + 0) + up[k]
    <3>1. Len(up) - k \in Nat /\ (N - 1) + k + 0 \in Nat
      BY <1>3
    <3>2. up[k] >= sincePing + Spaced(Len(up) - k)
      BY <1>2 DEF Line
    <3>3. Spaced(Len(up) - k) \in Nat /\ Spread((N - 1) + k + 0) \in Nat
      BY <3>1, SpacedFacts, SpreadFacts
    <3>4. up[k] \in Nat
      BY <1>3
    <3> QED BY <1>7, <3>2, <3>3, <3>4
  <2>3. clientNow <= Spread((N - 1) + Len(up) + 0) + sincePing
    <3>1. (N - 1) + Len(up) + 0 \in Nat
      BY <1>3
    <3>2. Spread((N - 1) + Len(up) + 0) \in Nat
      BY <3>1, SpreadFacts
    <3> QED BY <1>7, <3>2
  <2> QED BY <1>1, <1>4, <2>1, <2>2, <2>3 DEF Heard
\* The first pong waited for no more than the turns it takes to read them all.
<1>16. /\ down[1].age \in Nat /\ Reading(MostPongs - 1) \in Nat
       /\ down[1].age <= Latency + Reading(MostPongs - 1) + clientNow
  BY <1>2, <1>3, <1>6, GapFacts DEF PongWait, N
<1>17. Seen'
  <2> SUFFICES ASSUME fault = "none" PROVE Seen'
    BY <1>1 DEF Seen
  <2>1. \A k \in 1 .. N : sinceSeen <= LongTurn + down[k].age
    BY DEF IInv, Seen, N
  <2>2. sinceSeen <= PongAge + Spread(0) + sincePing
    <3>1. sinceSeen <= LongTurn + down[1].age
      BY <1>3, <2>1
    <3>2. Spread(0) \in Nat /\ PongAge \in Nat
          /\ PongAge = LongTurn + Latency + Reading(MostPongs - 1) + ClientTurn
      BY SpreadFacts, GapFacts
    <3> QED BY <1>7, <1>16, <3>1, <3>2, Constants
  <2>3. \A k \in 1 .. N - 1 : sinceSeen <= LongTurn + down[k + 1].age
    BY <1>3, <2>1
  <2>4. /\ up # <<>> => sinceSeen <= PongAge + PingGap + up[1]
        /\ server = "top" /\ up # <<>> => sinceSeen <= PongAge + PingGap + Latency
    BY DEF IInv, Seen
  <2> QED BY <1>1, <1>4, <2>2, <2>3, <2>4 DEF Seen
<1>18. ClientNotice'
  <2> SUFFICES ASSUME fault \in {"cut", "stop", "kick"} PROVE ClientNotice'
    BY <1>1 DEF ClientNotice
  <2>1. \A k \in 1 .. N : since <= down[k].age
    BY <1>6 DEF IInv, ClientNotice, N
  <2>2. since <= clientNow + Latency + Reading(MostPongs - 1)
    <3>1. since <= down[1].age
      BY <1>3, <2>1
    <3> QED BY <1>7, <1>16, <3>1, Constants
  <2>3. \A k \in 1 .. N - 1 : since <= down[k + 1].age
    BY <1>3, <2>1
  <2> QED BY <1>1, <1>4, <2>2, <2>3 DEF ClientNotice
<1> QED BY <1>8, <1>9, <1>10, <1>11, <1>12, <1>13, <1>14, <1>15, <1>17, <1>18 DEF IInv

-----------------------------------------------------------------------------
(* The server reads a ping.                                                *)

\* The first ping waited for the turn it came in, and for the long turn.
LEMMA PingAge ==
    ASSUME IInv, server # "stopped", up # <<>>
    PROVE  up[1] \in Nat /\ up[1] <= Latency + LongTurn
<1>1. /\ TypeOK /\ ServerClock /\ PingWait
  BY DEF IInv
<1>2. up[1] \in Nat /\ serverNow \in Nat
  BY <1>1, QueueTypes DEF TypeOK
<1>3. /\ ServerElapsed \in Nat /\ ServerElapsed <= LongTurn
      /\ server # "long" => ServerElapsed <= ServerTurn
  BY <1>1, <1>2, Constants DEF ServerClock, ServerElapsed, InTurn, TypeOK
<1> QED BY <1>1, <1>2, <1>3, Constants DEF PingWait

\* Either the pong is sent, which happens to a session only, or it is lost,
\* or nothing is sent.
LEMMA ServerReceivesEffect ==
    ASSUME IInv, ServerReceives
    PROVE  /\ InTurn /\ server # "stopped" /\ up # <<>> /\ server' = "top"
           /\ UNCHANGED <<client, clientNow, sincePing, sinceServer>>
           /\ UNCHANGED <<serverNow, session, longUsed, fault, since>>
           /\ session => sinceSeen' = serverNow
           /\ ~session => sinceSeen' = sinceSeen
           /\ Len(up) \in Nat /\ Len(up) >= 1
           /\ up' \in Seq(Nat) /\ Len(up') = Len(up) - 1 /\ (up' # <<>> <=> Len(up) >= 2)
           /\ \A k \in 1 .. Len(up) - 1 : up'[k] = up[k + 1]
           /\ \/ /\ session /\ lost' = lost
                 /\ down' = Append(down, [sentAt |-> up[1], age |-> 0])
              \/ session /\ down' = down /\ lost' = lost + 1 /\ lost < MaxLost
              \/ ~session /\ down' = down /\ lost' = lost
           /\ fault \in {"none", "quit", "kick"}
<1>1. /\ InTurn /\ server # "stopped" /\ up # <<>> /\ server' = "top" /\ up' = Tail(up)
      /\ UNCHANGED <<client, clientNow, sincePing, sinceServer>>
      /\ UNCHANGED <<serverNow, session, longUsed, fault, since>>
  BY DEF ServerReceives, clientVars, faultVars, InTurn
<1>2. session \in BOOLEAN /\ (session => sinceSeen' = serverNow)
      /\ (~session => sinceSeen' = sinceSeen)
  BY DEF ServerReceives, IInv, TypeOK
<1>3. TypeOK /\ Faults
  BY DEF IInv
<1>4. Len(up) \in Nat /\ Len(up) >= 1 /\ Head(up) = up[1] /\ up \in Seq(Nat)
  BY <1>1, <1>3, QueueTypes DEF TypeOK
<1>5. /\ up' \in Seq(Nat) /\ Len(up') = Len(up) - 1
      /\ \A k \in 1 .. Len(up) - 1 : up'[k] = up[k + 1]
  BY <1>1, <1>4, Taken
<1>6. up' # <<>> <=> Len(up) >= 2
  <2>1. up' # <<>> <=> Len(up') >= 1
    BY <1>5, Filled
  <2> QED BY <1>4, <1>5, <2>1
<1>7. fault \in {"none", "quit", "kick"}
  BY <1>1, <1>3 DEF Faults, TypeOK
<1>8. \/ /\ session /\ lost' = lost
         /\ down' = Append(down, [sentAt |-> up[1], age |-> 0])
      \/ session /\ down' = down /\ lost' = lost + 1 /\ lost < MaxLost
      \/ ~session /\ down' = down /\ lost' = lost
  BY <1>1, <1>4, <1>7 DEF ServerReceives, Send
<1> QED BY <1>1, <1>2, <1>4, <1>5, <1>6, <1>7, <1>8

LEMMA ServerReceivesPings == ASSUME IInv, ServerReceives PROVE Pings' /\ PingWait'
<1>1. /\ InTurn /\ server # "stopped" /\ up # <<>> /\ server' = "top"
      /\ longUsed' = longUsed /\ Len(up) \in Nat
      /\ Len(up') = Len(up) - 1 /\ (up' # <<>> <=> Len(up) >= 2)
      /\ \A k \in 1 .. Len(up) - 1 : up'[k] = up[k + 1]
  BY ServerReceivesEffect
<1>2. TypeOK /\ ServerClock /\ Pings /\ PingWait
  BY DEF IInv
<1>3. \A k \in 1 .. Len(up) : up[k] \in Nat
  BY <1>2, QueueTypes
<1>4. ASSUME NEW k \in 1 .. Len(up'), k < Len(up')
      PROVE  up'[k] >= up'[k + 1] + PingInterval
  <2>1. k + 1 \in 1 .. Len(up) /\ k + 1 < Len(up) /\ k + 1 \in 1 .. Len(up) - 1
    BY <1>1, <1>4
  <2>2. up'[k] = up[k + 1] /\ up'[k + 1] = up[(k + 1) + 1]
    BY <1>1, <2>1
  <2> QED BY <1>1, <1>2, <2>1, <2>2 DEF Pings
<1>5. ServerElapsed = serverNow /\ ServerElapsed' = 0
      /\ serverNow \in Nat /\ serverNow <= LongTurn
      /\ (server # "long" => serverNow <= ServerTurn)
  BY <1>1, <1>2 DEF ServerElapsed, ServerClock, InTurn, TypeOK
<1>6. ASSUME Len(up) >= 2
      PROVE  \/ up'[1] <= Latency + 0
             \/ longUsed /\ up'[1] + PingInterval <= Latency + LongTurn + 0
  <2>1. up'[1] = up[2] /\ up[1] >= up[2] + PingInterval /\ up[1] \in Nat /\ up[2] \in Nat
    BY <1>1, <1>2, <1>3, <1>6 DEF Pings
  <2>2. CASE server = "long"
    <3>1. longUsed /\ up[1] <= Latency + serverNow
      BY <1>1, <1>2, <1>5, <2>2 DEF ServerClock, PingWait
    <3> QED BY <1>5, <2>1, <3>1, Constants
  <2>3. CASE server # "long" /\ up[1] <= Latency + serverNow
    BY <1>5, <2>1, <2>3, Constants
  <2>4. CASE server # "long" /\ longUsed
             /\ up[1] + PingInterval <= Latency + LongTurn + serverNow
    BY <1>5, <2>1, <2>4, Constants
  <2> QED BY <1>1, <1>2, <1>5, <2>2, <2>3, <2>4 DEF PingWait
<1>7. Pings'
  <2>1. ASSUME up' # <<>> PROVE up'[Len(up')] >= sincePing'
    <3>1. Len(up) - 1 \in 1 .. Len(up) - 1 /\ up'[Len(up) - 1] = up[(Len(up) - 1) + 1]
      BY <1>1, <2>1
    <3>2. (Len(up) - 1) + 1 = Len(up) /\ sincePing' = sincePing
      BY <1>1, ServerReceivesEffect
    <3> QED BY <1>1, <1>2, <3>1, <3>2 DEF Pings
  <2> QED BY <1>4, <2>1 DEF Pings
<1>8. PingWait'
  BY <1>1, <1>5, <1>6 DEF PingWait
<1> QED BY <1>7, <1>8

\* The line of pongs with the answer to the first ping on it.
Answered ==
    /\ down' \in Seq([sentAt : Nat, age : Nat]) /\ down' # <<>>
    /\ Len(down') = Len(down) + 1
    /\ \A k \in 1 .. Len(down) : down'[k] = down[k]
    /\ down'[Len(down) + 1].sentAt = up[1] /\ down'[Len(down) + 1].age = 0

LEMMA AnswerIsLast ==
    ASSUME TypeOK, up # <<>>, down' = Append(down, [sentAt |-> up[1], age |-> 0])
    PROVE  Answered
<1> DEFINE Pong == [sentAt : Nat, age : Nat]
           pong == [sentAt |-> up[1], age |-> 0]
<1>1. pong \in Pong /\ pong.sentAt = up[1] /\ pong.age = 0
  <2>1. up[1] \in Nat
    BY QueueTypes
  <2> QED BY <2>1
<1>2. down \in Seq(Pong) /\ down' = Append(down, pong)
  BY DEF TypeOK
<1> HIDE DEF Pong, pong
<1>3. /\ down' \in Seq(Pong) /\ down' # <<>> /\ Len(down') = Len(down) + 1
      /\ \A k \in 1 .. Len(down) : down'[k] = down[k]
      /\ down'[Len(down) + 1] = pong
  BY <1>1, <1>2, Appended
<1> QED BY <1>1, <1>3 DEF Answered, Pong

\* The answer takes the place of the ping in the line.
LEMMA AnswerLine ==
    ASSUME IInv, ServerReceives, Answered, fault = "none"
    PROVE  Line'
<1> DEFINE N == Len(down)
           n == Len(up)
<1>1. /\ UNCHANGED <<client, clientNow, sincePing, fault>> /\ up # <<>> /\ server # "stopped"
      /\ n \in Nat /\ n >= 1 /\ Len(up') = n - 1 /\ (up' # <<>> <=> n >= 2)
      /\ \A k \in 1 .. n - 1 : up'[k] = up[k + 1]
  BY ServerReceivesEffect
<1>2. TypeOK /\ Line /\ Pings /\ ClientClock /\ Faults
  BY DEF IInv
<1>3. /\ N \in Nat /\ (down # <<>> <=> N >= 1)
      /\ \A k \in 1 .. N : down[k].sentAt \in Nat
      /\ \A k \in 1 .. n : up[k] \in Nat
  BY <1>2, QueueTypes
<1>4. /\ Len(down') = N + 1 /\ down' # <<>>
      /\ \A k \in 1 .. N : down'[k] = down[k]
      /\ down'[N + 1].sentAt = up[1]
  BY DEF Answered
<1>5. ClientElapsed' = ClientElapsed /\ ClientElapsed \in Nat
  BY <1>1, <1>2 DEF ClientElapsed, TypeOK
<1>6. /\ \A k \in 1 .. n : up[k] >= sincePing + Spaced(n - k)
      /\ \A k \in 1 .. N : down[k].sentAt >= sincePing + Spaced(N - k + n)
      /\ \A k \in 1 .. N : k < N => down[k].sentAt >= down[k + 1].sentAt + PingInterval
      /\ N >= 1 => down[N].sentAt >= up[1] + PingInterval
      /\ N >= 1 => down[1].sentAt <= 2 * Latency + LongTurn + ClientElapsed
  BY <1>1, <1>2, <1>3 DEF Line
<1>7. \A k \in 1 .. n : k < n => up[k] >= up[k + 1] + PingInterval
  BY <1>1, <1>2 DEF Pings
<1> HIDE DEF N, n
<1>8. ASSUME NEW k \in 1 .. n - 1 PROVE up'[k] >= sincePing + Spaced((n - 1) - k)
  <2>1. k + 1 \in 1 .. n /\ n - (k + 1) = (n - 1) - k /\ up'[k] = up[k + 1]
    BY <1>1
  <2>2. up[k + 1] >= sincePing + Spaced(n - (k + 1))
    BY <1>6, <2>1
  <2> QED BY <2>1, <2>2
<1>9. ASSUME NEW k \in 1 .. N + 1
      PROVE  down'[k].sentAt >= sincePing + Spaced((N + 1) - k + (n - 1))
  <2>1. CASE k \in 1 .. N
    <3>1. (N + 1) - k + (n - 1) = N - k + n /\ down'[k] = down[k]
      BY <1>1, <1>3, <1>4, <2>1
    <3>2. down[k].sentAt >= sincePing + Spaced(N - k + n)
      BY <1>6, <2>1
    <3> QED BY <3>1, <3>2
  <2>2. CASE k = N + 1
    <3>1. (N + 1) - k + (n - 1) = n - 1 /\ down'[k].sentAt = up[1]
      BY <1>1, <1>3, <1>4, <2>2
    <3>2. up[1] >= sincePing + Spaced(n - 1)
      BY <1>1, <1>6
    <3> QED BY <3>1, <3>2
  <2> QED BY <1>3, <2>1, <2>2
<1>10. ASSUME NEW k \in 1 .. N + 1, k < N + 1
       PROVE  down'[k].sentAt >= down'[k + 1].sentAt + PingInterval
  <2>1. k \in 1 .. N /\ down'[k] = down[k]
    BY <1>3, <1>4, <1>10
  <2>2. CASE k < N
    <3>1. k + 1 \in 1 .. N /\ down'[k + 1] = down[k + 1]
      BY <1>3, <1>4, <2>1, <2>2
    <3> QED BY <1>6, <2>1, <2>2, <3>1
  <2>3. CASE k = N
    <3>1. down'[k + 1].sentAt = up[1] /\ N >= 1
      BY <1>3, <1>4, <2>1, <2>3
    <3> QED BY <1>6, <2>1, <2>3, <3>1
  <2> QED BY <1>3, <2>1, <2>2, <2>3
<1>11. ASSUME n >= 2 PROVE down'[N + 1].sentAt >= up'[1] + PingInterval
  <2>1. up'[1] = up[2] /\ up[1] >= up[2] + PingInterval
    BY <1>1, <1>7, <1>11
  <2> QED BY <1>4, <2>1
<1>12. down'[1].sentAt <= 2 * Latency + LongTurn + ClientElapsed
  <2>1. CASE N >= 1
    <3>1. 1 \in 1 .. N /\ down'[1] = down[1]
      BY <1>3, <1>4, <2>1
    <3> QED BY <1>6, <2>1, <3>1
  <2>2. CASE N = 0
    <3>1. down'[1].sentAt = up[1]
      BY <1>4, <2>2
    <3>2. up[1] \in Nat /\ up[1] <= Latency + LongTurn
      BY <1>1, PingAge
    <3> QED BY <1>5, <3>1, <3>2, Constants
  <2> QED BY <1>3, <2>1, <2>2
<1> QED BY <1>1, <1>4, <1>5, <1>8, <1>9, <1>10, <1>11, <1>12 DEF Line

\* A lost ping or pong leaves the order of the others as it is.
LEMMA LossLine ==
    ASSUME IInv, ServerReceives, down' = down, fault = "none"
    PROVE  Line'
<1> DEFINE N == Len(down)
           n == Len(up)
<1>1. /\ UNCHANGED <<client, clientNow, sincePing, fault>> /\ up # <<>> /\ server # "stopped"
      /\ n \in Nat /\ n >= 1 /\ Len(up') = n - 1 /\ (up' # <<>> <=> n >= 2)
      /\ \A k \in 1 .. n - 1 : up'[k] = up[k + 1]
  BY ServerReceivesEffect
<1>2. TypeOK /\ Line /\ Pings
  BY DEF IInv
<1>3. /\ N \in Nat /\ (down # <<>> <=> N >= 1) /\ sincePing \in Nat
      /\ \A k \in 1 .. N : down[k].sentAt \in Nat
      /\ \A k \in 1 .. n : up[k] \in Nat
  BY <1>2, QueueTypes DEF TypeOK
<1>4. ClientElapsed' = ClientElapsed
  BY <1>1 DEF ClientElapsed
<1>5. /\ \A k \in 1 .. n : up[k] >= sincePing + Spaced(n - k)
      /\ \A k \in 1 .. N : down[k].sentAt >= sincePing + Spaced(N - k + n)
      /\ \A k \in 1 .. N : k < N => down[k].sentAt >= down[k + 1].sentAt + PingInterval
      /\ N >= 1 => down[N].sentAt >= up[1] + PingInterval
      /\ N >= 1 => down[1].sentAt <= 2 * Latency + LongTurn + ClientElapsed
  BY <1>1, <1>2, <1>3 DEF Line
<1>6. \A k \in 1 .. n : k < n => up[k] >= up[k + 1] + PingInterval
  BY <1>1, <1>2 DEF Pings
<1>7. Len(down') = N
  OBVIOUS
<1> HIDE DEF N, n
<1>8. ASSUME NEW k \in 1 .. n - 1 PROVE up'[k] >= sincePing + Spaced((n - 1) - k)
  <2>1. k + 1 \in 1 .. n /\ n - (k + 1) = (n - 1) - k /\ up'[k] = up[k + 1]
    BY <1>1
  <2>2. up[k + 1] >= sincePing + Spaced(n - (k + 1))
    BY <1>5, <2>1
  <2> QED BY <2>1, <2>2
<1>9. ASSUME NEW k \in 1 .. N
      PROVE  down[k].sentAt >= sincePing + Spaced(N - k + (n - 1))
  <2>1. N - k + (n - 1) \in Nat /\ N - k + n \in Nat /\ N - k + (n - 1) <= N - k + n
    BY <1>1, <1>3
  <2>2. /\ Spaced(N - k + (n - 1)) <= Spaced(N - k + n)
        /\ Spaced(N - k + (n - 1)) \in Nat /\ Spaced(N - k + n) \in Nat
    BY <2>1, SpacedMonotone, SpacedFacts
  <2>3. down[k].sentAt >= sincePing + Spaced(N - k + n)
    BY <1>5
  <2> QED BY <1>3, <2>2, <2>3
<1>10. ASSUME N >= 1, n >= 2 PROVE down[N].sentAt >= up'[1] + PingInterval
  <2>1. up'[1] = up[2] /\ up[1] >= up[2] + PingInterval /\ up[1] \in Nat /\ up[2] \in Nat
    BY <1>1, <1>3, <1>6, <1>10
  <2>2. down[N].sentAt >= up[1] + PingInterval /\ down[N].sentAt \in Nat
    BY <1>3, <1>5, <1>10
  <2> QED BY <2>1, <2>2, Constants
<1> QED BY <1>1, <1>3, <1>4, <1>5, <1>7, <1>8, <1>9, <1>10 DEF Line

\* There are never more pongs than MostPongs.
LEMMA AnswerPongWait ==
    ASSUME IInv, ServerReceives, Answered, fault = "none"
    PROVE  PongWait'
<1> DEFINE N == Len(down)
           n == Len(up)
<1>1. /\ UNCHANGED <<client, clientNow>> /\ n \in Nat /\ n >= 1
  BY ServerReceivesEffect
<1>2. TypeOK /\ Line /\ PongWait /\ ClientClock /\ Faults
  BY DEF IInv
<1>3. Connected /\ Connected'
  BY <1>1, <1>2 DEF Faults, Connected
<1>4. /\ N \in Nat /\ (down # <<>> <=> N >= 1)
      /\ \A k \in 1 .. N : down[k].sentAt \in Nat /\ down[k].age \in Nat
  BY <1>2, QueueTypes
<1>5. /\ Len(down') = N + 1
      /\ \A k \in 1 .. N : down'[k] = down[k]
      /\ down'[N + 1].age = 0
  BY DEF Answered
<1>6. /\ ClientElapsed' = ClientElapsed /\ ClientElapsed \in Nat
      /\ ClientElapsed <= ClientTurn /\ sincePing \in Nat
  BY <1>1, <1>2, <1>3, Constants DEF ClientElapsed, TypeOK, ClientClock
<1>7. N + 1 <= MostPongs
  <2>1. CASE N = 0
    BY <2>1, MostPongsFact
  <2>2. CASE N >= 1
    <3>1. /\ 1 \in 1 .. N /\ N - 1 + n \in Nat /\ N <= N - 1 + n
          /\ down[1].sentAt \in Nat
      BY <1>1, <1>4, <2>2
    <3>2. down[1].sentAt >= sincePing + Spaced(N - 1 + n)
      BY <1>2, <3>1 DEF Line
    <3>3. down[1].sentAt <= 2 * Latency + LongTurn + ClientElapsed
      BY <1>2, <1>4, <2>2 DEF Line
    <3>4. /\ Spaced(N) <= Spaced(N - 1 + n)
          /\ Spaced(N) \in Nat /\ Spaced(N - 1 + n) \in Nat
      BY <1>4, <3>1, SpacedMonotone, SpacedFacts
    <3>5. Spaced(N) <= 2 * Latency + LongTurn + ClientTurn
      BY <1>6, <3>1, <3>2, <3>3, <3>4, Constants
    <3> QED BY <1>4, <3>5, MostPongsFact
  <2> QED BY <1>4, <2>1, <2>2
<1>8. /\ \A j, k \in 1 .. N : j <= k => down[j].age >= down[k].age
      /\ \A k \in 1 .. N : down[k].age <= Latency + Reading(MostPongs - k) + ClientElapsed
  BY <1>2, <1>3 DEF PongWait
<1> HIDE DEF N, n
<1>9. ASSUME NEW j \in 1 .. N + 1, NEW k \in 1 .. N + 1, j <= k
      PROVE  down'[j].age >= down'[k].age
  <2>1. CASE k \in 1 .. N
    BY <1>4, <1>5, <1>8, <1>9, <2>1
  <2>2. CASE k = N + 1 /\ j \in 1 .. N
    BY <1>4, <1>5, <2>2
  <2>3. CASE k = N + 1 /\ j = N + 1
    BY <1>5, <2>3
  <2> QED BY <1>4, <2>1, <2>2, <2>3
<1>10. ASSUME NEW k \in 1 .. N + 1
       PROVE  down'[k].age <= Latency + Reading(MostPongs - k) + ClientElapsed
  <2>1. CASE k \in 1 .. N
    BY <1>5, <1>8, <2>1
  <2>2. CASE k = N + 1
    <3>1. MostPongs - k \in Nat
      BY <1>4, <1>7, <2>2, MostPongsFact
    <3>2. Reading(MostPongs - k) \in Nat
      BY <3>1, ReadingFacts
    <3> QED BY <1>5, <1>6, <2>2, <3>2, Constants
  <2> QED BY <1>4, <2>1, <2>2
<1> QED BY <1>5, <1>6, <1>7, <1>9, <1>10 DEF PongWait

\* The k-th on its way is the k-th still, or the one lost counts in its place.
LEMMA ServerReceivesHeard ==
    ASSUME IInv, ServerReceives, fault = "none",
           \/ Answered /\ lost' = lost
           \/ down' = down /\ lost' = lost + 1
    PROVE  Heard'
<1> DEFINE N == Len(down)
           n == Len(up)
<1>1. /\ UNCHANGED <<sinceServer, sincePing, fault>>
      /\ n \in Nat /\ n >= 1 /\ Len(up') = n - 1
      /\ \A k \in 1 .. n - 1 : up'[k] = up[k + 1]
  BY ServerReceivesEffect
<1>2. TypeOK /\ Heard
  BY DEF IInv
<1>3. /\ N \in Nat /\ lost \in Nat /\ sinceServer \in Nat /\ sincePing \in Nat
      /\ \A k \in 1 .. N : down[k].sentAt \in Nat
      /\ \A k \in 1 .. n : up[k] \in Nat
  BY <1>2, QueueTypes, Constants DEF TypeOK
<1>4. /\ \A k \in 1 .. N : sinceServer <= Spread(k + lost) + down[k].sentAt
      /\ \A k \in 1 .. n : sinceServer <= Spread(N + k + lost) + up[k]
      /\ sinceServer <= Spread(N + n + lost) + sincePing
  BY <1>2 DEF Heard
<1>5. CASE Answered /\ lost' = lost
  <2>1. /\ Len(down') = N + 1
        /\ \A k \in 1 .. N : down'[k] = down[k]
        /\ down'[N + 1].sentAt = up[1]
    BY <1>5 DEF Answered
  <2> HIDE DEF N, n
  <2>2. ASSUME NEW k \in 1 .. N + 1 PROVE sinceServer <= Spread(k + lost) + down'[k].sentAt
    <3>1. CASE k \in 1 .. N
      BY <1>4, <2>1, <3>1
    <3>2. CASE k = N + 1
      BY <1>1, <1>4, <2>1, <3>2
    <3> QED BY <1>3, <3>1, <3>2
  <2>3. ASSUME NEW k \in 1 .. n - 1
        PROVE  sinceServer <= Spread((N + 1) + k + lost) + up'[k]
    <3>1. k + 1 \in 1 .. n /\ up'[k] = up[k + 1]
      BY <1>1
    <3>2. (N + 1) + k + lost = N + (k + 1) + lost
      BY <1>3
    <3>3. sinceServer <= Spread(N + (k + 1) + lost) + up[k + 1]
      BY <1>4, <3>1
    <3> QED BY <3>1, <3>2, <3>3
  <2>4. sinceServer <= Spread((N + 1) + (n - 1) + lost) + sincePing
    <3>1. (N + 1) + (n - 1) + lost = N + n + lost
      BY <1>1, <1>3
    <3> QED BY <1>4, <3>1
  <2> QED BY <1>1, <1>5, <2>1, <2>2, <2>3, <2>4 DEF Heard
<1>6. CASE down' = down /\ lost' = lost + 1
  <2>1. Len(down') = N
    BY <1>6
  <2> HIDE DEF N, n
  <2>2. ASSUME NEW k \in 1 .. N PROVE sinceServer <= Spread(k + (lost + 1)) + down[k].sentAt
    <3>1. k + lost \in Nat /\ k + (lost + 1) \in Nat /\ k + lost <= k + (lost + 1)
      BY <1>3
    <3>2. /\ Spread(k + lost) <= Spread(k + (lost + 1))
          /\ Spread(k + lost) \in Nat /\ Spread(k + (lost + 1)) \in Nat
      BY <3>1, SpreadMonotone, SpreadFacts
    <3>3. down[k].sentAt \in Nat /\ sinceServer <= Spread(k + lost) + down[k].sentAt
      BY <1>3, <1>4
    <3> QED BY <1>3, <3>2, <3>3
  <2>3. ASSUME NEW k \in 1 .. n - 1
        PROVE  sinceServer <= Spread(N + k + (lost + 1)) + up'[k]
    <3>1. k + 1 \in 1 .. n /\ up'[k] = up[k + 1]
      BY <1>1
    <3>2. N + k + (lost + 1) = N + (k + 1) + lost
      BY <1>3
    <3>3. sinceServer <= Spread(N + (k + 1) + lost) + up[k + 1]
      BY <1>4, <3>1
    <3> QED BY <3>1, <3>2, <3>3
  <2>4. sinceServer <= Spread(N + (n - 1) + (lost + 1)) + sincePing
    <3>1. N + (n - 1) + (lost + 1) = N + n + lost
      BY <1>1, <1>3
    <3> QED BY <1>4, <3>1
  <2> QED BY <1>1, <1>6, <2>1, <2>2, <2>3, <2>4 DEF Heard
<1> QED BY <1>5, <1>6

\* The time noted is that of the reading on top of the turn.
LEMMA ServerReceivesSeen ==
    ASSUME IInv, ServerReceives, fault = "none",
           \/ Answered
           \/ down' = down
    PROVE  Seen'
<1>1. /\ fault' = fault /\ serverNow' = serverNow /\ sincePing' = sincePing
      /\ server # "stopped" /\ (session => sinceSeen' = serverNow)
      /\ up' \in Seq(Nat)
  BY ServerReceivesEffect
<1>2. TypeOK /\ Faults /\ ServerClock
  BY DEF IInv
<1>3. /\ sinceSeen' = serverNow /\ serverNow \in Nat /\ serverNow <= LongTurn
      /\ sincePing \in Nat
  BY <1>1, <1>2 DEF Faults, ServerClock, TypeOK
<1>4. lost' \in Nat /\ PongAge \in Nat /\ PingGap \in Nat /\ LongTurn <= PongAge
  <2>1. lost \in Nat
    BY <1>2 DEF TypeOK
  <2>2. lost' = lost \/ lost' = lost + 1
    BY ServerReceivesEffect
  <2>3. PongAge \in Nat /\ PingGap \in Nat /\ LongTurn <= PongAge
    BY GapFacts, Constants
  <2> QED BY <2>1, <2>2, <2>3
<1>5. \A k \in 1 .. Len(down') : down'[k].age \in Nat
  <2>1. Len(down) \in Nat /\ \A k \in 1 .. Len(down) : down[k].age \in Nat
    BY <1>2, QueueTypes
  <2>2. CASE down' = down
    BY <2>1, <2>2
  <2>3. CASE Answered
    <3> SUFFICES ASSUME NEW k \in 1 .. Len(down') PROVE down'[k].age \in Nat
      OBVIOUS
    <3>1. k \in 1 .. Len(down) \/ k = Len(down) + 1
      BY <2>1, <2>3 DEF Answered
    <3> QED BY <2>1, <2>3, <3>1 DEF Answered
  <2> QED BY <2>2, <2>3
<1>6. \A k \in 1 .. Len(down') : sinceSeen' <= LongTurn + down'[k].age
  BY <1>3, <1>5, Constants
<1>7. sinceSeen' <= PongAge + Spread(lost') + sincePing
  <2>1. Spread(lost') \in Nat
    BY <1>4, SpreadFacts
  <2> QED BY <1>3, <1>4, <2>1, Constants
<1>8. up' # <<>> => up'[1] \in Nat
  BY <1>1
<1>9. /\ up' # <<>> => sinceSeen' <= PongAge + PingGap + up'[1]
      /\ sinceSeen' <= PongAge + PingGap + Latency
  BY <1>3, <1>4, <1>8, Constants
<1> QED BY <1>1, <1>6, <1>7, <1>9 DEF Seen

LEMMA ServerReceivesNotice ==
    ASSUME IInv, ServerReceives PROVE ServerNotice'
<1>1. /\ InTurn /\ up # <<>> /\ server # "stopped" /\ server' = "top"
      /\ UNCHANGED <<serverNow, session, longUsed, fault, since>>
      /\ (session => sinceSeen' = serverNow) /\ Len(up) \in Nat /\ Len(up) >= 1
      /\ Len(up') = Len(up) - 1
      /\ \A k \in 1 .. Len(up) - 1 : up'[k] = up[k + 1]
  BY ServerReceivesEffect
<1> SUFFICES ASSUME fault \in {"cut", "quit"}, session PROVE ServerNotice'
  BY <1>1 DEF ServerNotice
<1>2. TypeOK /\ ServerClock /\ PingWait
  BY DEF IInv
<1>3. \A k \in 1 .. Len(up) : since <= up[k] /\ up[k] \in Nat
  BY <1>2, QueueTypes DEF IInv, ServerNotice
<1>4. \A k \in 1 .. Len(up') : since <= up'[k]
  <2>1. ASSUME NEW k \in 1 .. Len(up) - 1 PROVE since <= up[k + 1]
    <3>1. k + 1 \in 1 .. Len(up)
      BY <1>1
    <3> QED BY <1>3, <3>1
  <2> QED BY <1>1, <2>1
<1>5. /\ serverNow \in Nat /\ serverNow <= LongTurn /\ since \in Nat
      /\ server # "long" => serverNow <= ServerTurn
      /\ ServerElapsed = serverNow
      /\ since <= up[1] /\ up[1] \in Nat
  BY <1>1, <1>2, <1>3 DEF TypeOK, ServerClock, ServerElapsed, InTurn
<1>6. /\ \/ since <= serverNow + Latency
         \/ longUsed /\ since + PingInterval <= serverNow + Latency + LongTurn
      /\ since < ServerNoticeTime
  BY <1>1, <1>2, <1>5, Constants DEF PingWait, ServerNoticeTime
<1> QED BY <1>1, <1>4, <1>6 DEF ServerNotice

LEMMA ServerReceivesInv == ASSUME IInv, ServerReceives PROVE IInv'
<1>1. /\ InTurn /\ server # "stopped" /\ up # <<>> /\ server' = "top"
      /\ UNCHANGED <<client, clientNow, sincePing, sinceServer>>
      /\ UNCHANGED <<serverNow, session, longUsed, fault, since>>
      /\ (session => sinceSeen' = serverNow) /\ (~session => sinceSeen' = sinceSeen)
      /\ up' \in Seq(Nat) /\ fault \in {"none", "quit", "kick"}
  BY ServerReceivesEffect
<1>2. TypeOK /\ Faults /\ ServerClock /\ PongWay /\ PongWait /\ ClientClock
  BY DEF IInv
<1>3. \/ session /\ Answered /\ lost' = lost
      \/ session /\ down' = down /\ lost' = lost + 1 /\ lost < MaxLost
      \/ ~session /\ down' = down /\ lost' = lost
  BY <1>1, <1>2, AnswerIsLast, ServerReceivesEffect
<1>4. fault = "none" \/ ~Connected \/ down' = down
  BY <1>1, <1>2, <1>3 DEF Faults
<1>5. fault = "none" => session
  BY <1>2 DEF Faults
<1>6. TypeOK'
  <2>1. down' \in Seq([sentAt : Nat, age : Nat])
    BY <1>2, <1>3 DEF Answered, TypeOK
  <2>2. lost' \in 0 .. MaxLost
    BY <1>2, <1>3, Constants DEF TypeOK
  <2>3. sinceSeen' \in Nat
    BY <1>1, <1>2 DEF TypeOK
  <2> QED BY <1>1, <1>2, <2>1, <2>2, <2>3 DEF TypeOK
<1>7. Faults'
  BY <1>1, <1>2 DEF Faults, Connected
<1>8. ClientClock' /\ ServerClock'
  BY <1>1, <1>2 DEF ClientClock, ServerClock, Connected, InTurn
<1>9. Pings' /\ PingWait' /\ ServerNotice'
  BY ServerReceivesPings, ServerReceivesNotice
<1>10. Line'
  BY <1>1, <1>3, AnswerLine, LossLine DEF Line
<1>11. PongWay'
  <2>1. CASE down' = down
    BY <1>2, <2>1 DEF PongWay
  <2>2. CASE Answered
    <3>1. up[1] \in Nat /\ up[1] <= Latency + LongTurn
      BY <1>1, PingAge
    <3>2. Len(down) \in Nat
      BY <1>2, QueueTypes
    <3>3. ASSUME NEW k \in 1 .. Len(down) + 1
          PROVE  down'[k].sentAt <= down'[k].age + Latency + LongTurn
      <4>1. CASE k \in 1 .. Len(down)
        BY <1>2, <2>2, <4>1 DEF Answered, PongWay
      <4>2. CASE k = Len(down) + 1
        BY <2>2, <3>1, <4>2, Constants DEF Answered
      <4> QED BY <3>2, <4>1, <4>2
    <3> QED BY <2>2, <3>3 DEF Answered, PongWay
  <2> QED BY <1>3, <2>1, <2>2
<1>12. PongWait'
  <2>1. ClientElapsed' = ClientElapsed /\ Connected' = Connected
    BY <1>1 DEF ClientElapsed, Connected
  <2>2. CASE down' = down \/ ~Connected
    BY <1>2, <2>1, <2>2 DEF PongWait
  <2> QED BY <1>3, <1>4, <2>2, AnswerPongWait
<1>13. Heard'
  BY <1>1, <1>3, <1>5, ServerReceivesHeard DEF Heard
<1>14. Seen'
  BY <1>1, <1>3, <1>5, ServerReceivesSeen DEF Seen
<1>15. ClientNotice'
  <2>1. (fault \in {"cut", "stop", "kick"} /\ Connected) => down' = down
    BY <1>4
  <2> QED BY <1>1, <2>1 DEF IInv, ClientNotice, Connected
<1> QED BY <1>6, <1>7, <1>8, <1>9, <1>10, <1>11, <1>12, <1>13, <1>14, <1>15 DEF IInv

-----------------------------------------------------------------------------
(* The top of the client's loop.                                           *)

\* Without a fault the server was heard before the timeout.
LEMMA NotSilent == ASSUME IInv, client = "top", fault = "none" PROVE ~ServerSilent
<1> DEFINE N == Len(down)
           n == Len(up)
<1>1. TypeOK /\ Faults /\ ClientClock /\ Heard /\ Line
  BY DEF IInv
<1>2. /\ N \in Nat /\ (down # <<>> <=> N >= 1) /\ n \in Nat /\ (up # <<>> <=> n >= 1)
      /\ \A k \in 1 .. N : down[k].sentAt \in Nat
  BY <1>1, QueueTypes
<1>3. /\ sinceServer \in Nat /\ sincePing \in Nat /\ lost \in 0 .. MaxLost /\ lost \in Nat
      /\ sincePing < PingInterval + ClientTurn /\ server # "stopped" /\ ClientElapsed = 0
  BY <1>1, Constants DEF TypeOK, Faults, ClientClock, Connected, ClientElapsed
<1>4. /\ Spread(lost) \in Nat /\ Spread(lost + 1) \in Nat /\ PingGap \in Nat
      /\ Spread(lost) + PingInterval + ClientTurn <= PingGap
      /\ Spread(lost + 1) <= PingGap
      /\ PingGap + 2 * Latency + LongTurn < ClientTimeout
  BY <1>3, GapFacts, SpreadFacts
<1>5. /\ \A k \in 1 .. N : sinceServer <= Spread(k + lost) + down[k].sentAt
      /\ \A k \in 1 .. n : sinceServer <= Spread(N + k + lost) + up[k]
      /\ sinceServer <= Spread(N + n + lost) + sincePing
  BY <1>1 DEF Heard
<1>6. N >= 1 => down[1].sentAt <= 2 * Latency + LongTurn + 0
  BY <1>1, <1>2, <1>3 DEF Line
<1>7. n >= 1 => up[1] \in Nat /\ up[1] <= Latency + LongTurn
  BY <1>2, <1>3, PingAge
<1> HIDE DEF N, n
<1>8. sinceServer < ClientTimeout
  <2>1. CASE N >= 1
    <3>1. 1 \in 1 .. N /\ 1 + lost = lost + 1
      BY <1>2, <1>3, <2>1
    <3>2. sinceServer <= Spread(lost + 1) + down[1].sentAt /\ down[1].sentAt \in Nat
      <4>1. sinceServer <= Spread(1 + lost) + down[1].sentAt
        BY <1>5, <3>1
      <4> QED BY <1>2, <3>1, <4>1
    <3> QED BY <1>3, <1>4, <1>6, <2>1, <3>2, Constants
  <2>2. CASE N = 0 /\ n >= 1
    <3>1. 1 \in 1 .. n /\ N + 1 + lost = lost + 1
      BY <1>2, <1>3, <2>2
    <3>2. sinceServer <= Spread(lost + 1) + up[1]
      <4>1. sinceServer <= Spread(N + 1 + lost) + up[1]
        BY <1>5, <3>1
      <4> QED BY <3>1, <4>1
    <3> QED BY <1>3, <1>4, <1>7, <2>2, <3>2, Constants
  <2>3. CASE N = 0 /\ n = 0
    <3>1. N + n + lost = lost
      BY <1>3, <2>3
    <3>2. sinceServer <= Spread(lost) + sincePing
      BY <1>5, <3>1
    <3> QED BY <1>3, <1>4, <3>2, Constants
  <2> QED BY <1>2, <2>1, <2>2, <2>3
<1> QED BY <1>3, <1>8, Constants DEF ServerSilent

\* A ping is sent or lost when it is due, and otherwise none is.
Pinged == /\ fault # "cut" /\ lost' = lost /\ sincePing' = 0
          /\ up' \in Seq(Nat) /\ up' # <<>> /\ Len(up') = Len(up) + 1
          /\ \A k \in 1 .. Len(up) : up'[k] = up[k]
          /\ up'[Len(up) + 1] = 0

LEMMA ClientTopEffect ==
    ASSUME IInv, ClientTop
    PROVE  /\ client = "top" /\ clientNow' = 0 /\ client' \in {"gone", "poll"}
           /\ client' = "gone" <=> ServerSilent
           /\ UNCHANGED <<sinceServer, server, serverNow, session, sinceSeen>>
           /\ UNCHANGED <<longUsed, down, fault, since>>
           /\ \/ sincePing >= PingInterval /\ Pinged
              \/ /\ sincePing >= PingInterval /\ up' = up /\ lost' = lost + 1
                 /\ lost < MaxLost /\ sincePing' = 0
              \/ /\ up' = up /\ lost' = lost
                 /\ \/ fault = "cut" /\ sincePing' = 0
                    \/ sincePing < PingInterval /\ sincePing' = sincePing
<1>1. /\ client = "top" /\ clientNow' = 0
      /\ client' = IF ServerSilent THEN "gone" ELSE "poll"
      /\ UNCHANGED <<sinceServer, server, serverNow, session, sinceSeen>>
      /\ UNCHANGED <<longUsed, down, fault, since>>
  BY DEF ClientTop, serverVars, faultVars
<1>2. client' \in {"gone", "poll"} /\ (client' = "gone" <=> ServerSilent)
  BY <1>1
<1>3. up \in Seq(Nat) /\ sincePing \in Nat
  BY DEF IInv, TypeOK
<1>4. \/ PingDue /\ Send(up, 0, up') /\ sincePing' = 0
      \/ ~PingDue /\ UNCHANGED <<up, lost, sincePing>>
  BY DEF ClientTop
<1>5. ASSUME fault # "cut", up' = Append(up, 0), lost' = lost, sincePing' = 0 PROVE Pinged
  BY <1>3, <1>5, Appended DEF Pinged
<1>6. CASE PingDue /\ Send(up, 0, up') /\ sincePing' = 0
  BY <1>1, <1>2, <1>5, <1>6 DEF PingDue, Send
<1>7. CASE ~PingDue /\ UNCHANGED <<up, lost, sincePing>>
  <2>1. sincePing < PingInterval
    BY <1>3, <1>7, Constants DEF PingDue
  <2> QED BY <1>1, <1>2, <1>7, <2>1
<1> QED BY <1>4, <1>6, <1>7

LEMMA ClientTopPings == ASSUME IInv, ClientTop PROVE Pings' /\ PingWait'
<1>1. /\ client = "top" /\ server' = server /\ serverNow' = serverNow /\ longUsed' = longUsed
      /\ \/ sincePing >= PingInterval /\ Pinged
         \/ up' = up /\ (sincePing' = 0 \/ sincePing' = sincePing)
  BY ClientTopEffect
<1>2. TypeOK /\ Pings /\ PingWait
  BY DEF IInv
<1>3. /\ Len(up) \in Nat /\ (up # <<>> <=> Len(up) >= 1)
      /\ \A k \in 1 .. Len(up) : up[k] \in Nat
      /\ sincePing \in Nat
  BY <1>2, QueueTypes DEF TypeOK
<1>4. ServerElapsed' = ServerElapsed /\ ServerElapsed \in Nat
  BY <1>1, <1>2 DEF ServerElapsed, InTurn, TypeOK
<1>5. CASE up' = up
  <2>1. sincePing' <= sincePing /\ sincePing' \in Nat
    BY <1>1, <1>3, Constants DEF Pinged
  <2>2. up # <<>> => up[Len(up)] \in Nat
    BY <1>3
  <2>3. Pings'
    BY <1>1, <1>2, <1>3, <1>5, <2>1, <2>2 DEF Pings
  <2> QED BY <1>1, <1>2, <1>4, <1>5, <2>3 DEF PingWait
<1>6. CASE sincePing >= PingInterval /\ Pinged
  <2>1. ASSUME server # "stopped", NEW k \in 1 .. Len(up) + 1, k < Len(up) + 1
        PROVE  up'[k] >= up'[k + 1] + PingInterval
    <3>1. k \in 1 .. Len(up) /\ up'[k] = up[k] /\ up[k] \in Nat
      BY <1>3, <1>6, <2>1 DEF Pinged
    <3>2. CASE k < Len(up)
      <4>1. k + 1 \in 1 .. Len(up) /\ up'[k + 1] = up[k + 1]
        BY <1>3, <1>6, <3>1, <3>2 DEF Pinged
      <4> QED BY <1>2, <2>1, <3>1, <3>2, <4>1 DEF Pings
    <3>3. CASE k = Len(up)
      <4>1. up'[k + 1] = 0
        BY <1>6, <3>3 DEF Pinged
      <4>2. up[k] >= sincePing
        BY <1>2, <1>3, <2>1, <3>1, <3>3 DEF Pings
      <4> QED BY <1>3, <1>6, <3>1, <4>1, <4>2, Constants
    <3> QED BY <1>3, <3>1, <3>2, <3>3
  <2>2. Pings'
    BY <1>1, <1>6, <2>1 DEF Pings, Pinged
  <2>3. CASE up = <<>>
    <3>1. up'[1] = 0
      BY <1>3, <1>6, <2>3 DEF Pinged
    <3> QED BY <1>4, <2>2, <3>1, Constants DEF PingWait
  <2>4. CASE up # <<>>
    <3>1. up'[1] = up[1]
      BY <1>3, <1>6, <2>4 DEF Pinged
    <3> QED BY <1>1, <1>2, <1>4, <2>2, <2>4, <3>1 DEF PingWait
  <2> QED BY <2>3, <2>4
<1> QED BY <1>1, <1>5, <1>6

LEMMA ClientTopLine == ASSUME IInv, ClientTop, fault = "none" PROVE Line'
<1> DEFINE N == Len(down)
           n == Len(up)
<1>1. /\ client = "top" /\ clientNow' = 0 /\ down' = down /\ fault' = fault
      /\ \/ sincePing >= PingInterval /\ Pinged
         \/ up' = up /\ (sincePing' = 0 \/ sincePing' = sincePing)
  BY ClientTopEffect
<1>2. TypeOK /\ Line
  BY DEF IInv
<1>3. /\ N \in Nat /\ n \in Nat /\ (up # <<>> <=> n >= 1) /\ (down # <<>> <=> N >= 1)
      /\ \A k \in 1 .. N : down[k].sentAt \in Nat
      /\ \A k \in 1 .. n : up[k] \in Nat
      /\ sincePing \in Nat
  BY <1>2, QueueTypes DEF TypeOK
<1>4. ClientElapsed' = 0 /\ ClientElapsed = 0
  BY <1>1 DEF ClientElapsed
<1>5. /\ \A k \in 1 .. n : up[k] >= sincePing + Spaced(n - k)
      /\ \A k \in 1 .. N : down[k].sentAt >= sincePing + Spaced(N - k + n)
      /\ \A k \in 1 .. N : k < N => down[k].sentAt >= down[k + 1].sentAt + PingInterval
      /\ N >= 1 /\ n >= 1 => down[N].sentAt >= up[1] + PingInterval
      /\ N >= 1 => down[1].sentAt <= 2 * Latency + LongTurn + 0
  BY <1>2, <1>3, <1>4 DEF Line
<1>6. CASE up' = up
  <2>1. sincePing' <= sincePing /\ sincePing' \in Nat
    BY <1>1, <1>3, Constants DEF Pinged
  <2>2. ASSUME NEW k \in 1 .. n PROVE up[k] >= sincePing' + Spaced(n - k)
    <3>1. n - k \in Nat
      BY <1>3
    <3>2. Spaced(n - k) \in Nat /\ up[k] \in Nat /\ up[k] >= sincePing + Spaced(n - k)
      BY <1>3, <1>5, <3>1, SpacedFacts
    <3> QED BY <1>3, <2>1, <3>2
  <2>3. ASSUME NEW k \in 1 .. N PROVE down[k].sentAt >= sincePing' + Spaced(N - k + n)
    <3>1. N - k + n \in Nat
      BY <1>3
    <3>2. /\ Spaced(N - k + n) \in Nat /\ down[k].sentAt \in Nat
          /\ down[k].sentAt >= sincePing + Spaced(N - k + n)
      BY <1>3, <1>5, <3>1, SpacedFacts
    <3> QED BY <1>3, <2>1, <3>2
  <2> QED BY <1>1, <1>3, <1>4, <1>5, <1>6, <2>2, <2>3 DEF Line
<1>7. CASE sincePing >= PingInterval /\ Pinged
  <2>1. /\ sincePing' = 0 /\ up' # <<>> /\ Len(up') = n + 1
        /\ \A k \in 1 .. n : up'[k] = up[k]
        /\ up'[n + 1] = 0
    BY <1>7 DEF Pinged
  <2> HIDE DEF N, n
  <2>2. ASSUME NEW k \in 1 .. n + 1 PROVE up'[k] >= 0 + Spaced((n + 1) - k)
    <3>1. CASE k \in 1 .. n
      <4>1. n - k \in Nat /\ (n - k) + 1 = (n + 1) - k
        BY <1>3, <3>1
      <4>2. /\ Spaced(n - k) \in Nat
            /\ Spaced((n + 1) - k) = Spaced(n - k) + PingInterval
        BY <4>1, SpacedFacts
      <4>3. up'[k] = up[k] /\ up[k] \in Nat /\ up[k] >= sincePing + Spaced(n - k)
        BY <1>3, <1>5, <2>1, <3>1
      <4> QED BY <1>3, <1>7, <4>2, <4>3, Constants
    <3>2. CASE k = n + 1
      <4>1. (n + 1) - k = 0 /\ up'[k] = 0
        BY <1>3, <2>1, <3>2
      <4>2. Spaced((n + 1) - k) = 0
        BY <4>1, SpacedFacts
      <4> QED BY <4>1, <4>2
    <3> QED BY <1>3, <3>1, <3>2
  <2>3. ASSUME NEW k \in 1 .. N PROVE down[k].sentAt >= 0 + Spaced(N - k + (n + 1))
    <3>1. N - k + n \in Nat /\ (N - k + n) + 1 = N - k + (n + 1)
      BY <1>3
    <3>2. /\ Spaced(N - k + n) \in Nat
          /\ Spaced(N - k + (n + 1)) = Spaced(N - k + n) + PingInterval
      BY <3>1, SpacedFacts
    <3>3. down[k].sentAt \in Nat /\ down[k].sentAt >= sincePing + Spaced(N - k + n)
      BY <1>3, <1>5
    <3> QED BY <1>3, <1>7, <3>2, <3>3, Constants
  <2>4. ASSUME N >= 1 PROVE down[N].sentAt >= up'[1] + PingInterval
    <3>1. CASE n >= 1
      <4>1. up'[1] = up[1]
        BY <1>3, <2>1, <3>1
      <4> QED BY <1>5, <2>4, <3>1, <4>1
    <3>2. CASE n = 0
      <4>1. up'[1] = 0 /\ N - N + n = 0 /\ N \in 1 .. N
        BY <1>3, <2>1, <2>4, <3>2
      <4>2. Spaced(N - N + n) = 0
        BY <4>1, SpacedFacts
      <4>3. down[N].sentAt \in Nat /\ down[N].sentAt >= sincePing + Spaced(N - N + n)
        BY <1>3, <1>5, <4>1
      <4> QED BY <1>3, <1>7, <4>1, <4>2, <4>3, Constants
    <3> QED BY <1>3, <3>1, <3>2
  <2>5. Len(down) = N
    BY DEF N
  <2> QED BY <1>1, <1>3, <1>4, <1>5, <2>1, <2>2, <2>3, <2>4, <2>5 DEF Line
<1> QED BY <1>1, <1>6, <1>7

LEMMA ClientTopHeard == ASSUME IInv, ClientTop, fault = "none" PROVE Heard'
<1> DEFINE N == Len(down)
           n == Len(up)
<1>1. /\ client = "top" /\ down' = down /\ fault' = fault /\ sinceServer' = sinceServer
      /\ \/ sincePing >= PingInterval /\ Pinged
         \/ /\ up' = up /\ lost' = lost + 1 /\ sincePing' = 0
         \/ /\ up' = up /\ lost' = lost /\ sincePing' = sincePing
  BY ClientTopEffect
<1>2. TypeOK /\ Heard /\ Faults /\ ClientClock
  BY DEF IInv
<1>3. /\ N \in Nat /\ n \in Nat /\ lost \in Nat /\ sinceServer \in Nat /\ sincePing \in Nat
      /\ \A k \in 1 .. N : down[k].sentAt \in Nat
      /\ \A k \in 1 .. n : up[k] \in Nat
      /\ sincePing < PingInterval + ClientTurn
  BY <1>2, QueueTypes, Constants DEF TypeOK, Faults, ClientClock
<1>4. /\ \A k \in 1 .. N : sinceServer <= Spread(k + lost) + down[k].sentAt
      /\ \A k \in 1 .. n : sinceServer <= Spread(N + k + lost) + up[k]
      /\ sinceServer <= Spread(N + n + lost) + sincePing
  BY <1>2 DEF Heard
<1>5. sinceServer <= Spread((N + n + lost) + 1) + 0
  <2>1. N + n + lost \in Nat
    BY <1>3
  <2>2. /\ Spread(N + n + lost) \in Nat
        /\ Spread((N + n + lost) + 1) = Spread(N + n + lost) + PingInterval + ClientTurn
    BY <2>1, SpreadFacts
  <2> QED BY <1>3, <1>4, <2>2, Constants
<1>6. ASSUME NEW i \in Nat, NEW t \in Nat, sinceServer <= Spread(i) + t
      PROVE  sinceServer <= Spread(i + 1) + t
  <2>1. Spread(i) \in Nat /\ Spread(i + 1) = Spread(i) + PingInterval + ClientTurn
    BY SpreadFacts
  <2> QED BY <1>3, <1>6, <2>1, Constants
<1>7. CASE up' = up /\ lost' = lost /\ sincePing' = sincePing
  BY <1>1, <1>4, <1>7 DEF Heard
<1>8. CASE up' = up /\ lost' = lost + 1 /\ sincePing' = 0
  <2> HIDE DEF N, n
  <2>1. ASSUME NEW k \in 1 .. N PROVE sinceServer <= Spread(k + (lost + 1)) + down[k].sentAt
    <3>1. k + lost \in Nat /\ (k + lost) + 1 = k + (lost + 1)
      BY <1>3
    <3>2. down[k].sentAt \in Nat /\ sinceServer <= Spread(k + lost) + down[k].sentAt
      BY <1>3, <1>4
    <3>3. sinceServer <= Spread((k + lost) + 1) + down[k].sentAt
      BY <1>6, <3>1, <3>2
    <3> QED BY <3>1, <3>3
  <2>2. ASSUME NEW k \in 1 .. n PROVE sinceServer <= Spread(N + k + (lost + 1)) + up[k]
    <3>1. N + k + lost \in Nat /\ (N + k + lost) + 1 = N + k + (lost + 1)
      BY <1>3
    <3>2. up[k] \in Nat /\ sinceServer <= Spread(N + k + lost) + up[k]
      BY <1>3, <1>4
    <3>3. sinceServer <= Spread((N + k + lost) + 1) + up[k]
      BY <1>6, <3>1, <3>2
    <3> QED BY <3>1, <3>3
  <2>3. sinceServer <= Spread(N + n + (lost + 1)) + 0
    <3>1. N + n + (lost + 1) = (N + n + lost) + 1
      BY <1>3
    <3> QED BY <1>5, <3>1
  <2> QED BY <1>1, <1>8, <2>1, <2>2, <2>3 DEF Heard, N, n
<1>9. CASE sincePing >= PingInterval /\ Pinged
  <2>1. /\ sincePing' = 0 /\ lost' = lost /\ Len(up') = n + 1
        /\ \A k \in 1 .. n : up'[k] = up[k]
        /\ up'[n + 1] = 0
    BY <1>9 DEF Pinged
  <2> HIDE DEF N, n
  <2>2. N + (n + 1) + lost = (N + n + lost) + 1
    BY <1>3
  <2>3. sinceServer <= Spread(N + (n + 1) + lost) + 0
    BY <1>5, <2>2
  <2>4. ASSUME NEW k \in 1 .. n + 1 PROVE sinceServer <= Spread(N + k + lost) + up'[k]
    <3>1. CASE k \in 1 .. n
      BY <1>4, <2>1, <3>1
    <3>2. CASE k = n + 1
      BY <2>1, <2>3, <3>2
    <3> QED BY <1>3, <3>1, <3>2
  <2> QED BY <1>1, <1>4, <2>1, <2>3, <2>4 DEF Heard, N
<1> QED BY <1>1, <1>7, <1>8, <1>9

LEMMA ClientTopSeen == ASSUME IInv, ClientTop, fault = "none" PROVE Seen'
<1>1. /\ client = "top" /\ down' = down /\ fault' = fault
      /\ sinceSeen' = sinceSeen /\ server' = server
      /\ \/ sincePing >= PingInterval /\ Pinged
         \/ /\ up' = up /\ lost' = lost + 1 /\ sincePing' = 0
         \/ /\ up' = up /\ lost' = lost /\ sincePing' = sincePing
  BY ClientTopEffect
<1>2. TypeOK /\ Seen /\ Faults /\ ClientClock
  BY DEF IInv
<1>3. /\ lost \in 0 .. MaxLost /\ lost \in Nat /\ sinceSeen \in Nat /\ sincePing \in Nat
      /\ sincePing < PingInterval + ClientTurn
      /\ Len(up) \in Nat /\ (up # <<>> <=> Len(up) >= 1)
  BY <1>2, QueueTypes, Constants DEF TypeOK, Faults, ClientClock
<1>4. /\ Spread(lost) \in Nat /\ PongAge \in Nat /\ PingGap \in Nat
      /\ Spread(lost) + PingInterval + ClientTurn <= PingGap
      /\ Spread(lost + 1) = Spread(lost) + PingInterval + ClientTurn
  BY <1>3, GapFacts, SpreadFacts
<1>5. up = <<>> => /\ sinceSeen <= PongAge + Spread(lost + 1) + 0
                   /\ sinceSeen <= PongAge + PingGap + 0
                   /\ sinceSeen <= PongAge + PingGap + Latency
  <2>1. up = <<>> => sinceSeen <= PongAge + Spread(lost) + sincePing
    BY <1>1, <1>2 DEF Seen
  <2> QED BY <1>3, <1>4, <2>1, Constants
<1>6. CASE up' = up
  BY <1>1, <1>2, <1>5, <1>6 DEF Seen, Pinged
<1>7. CASE Pinged
  <2>1. up' # <<>> /\ (up = <<>> => up'[1] = 0) /\ (up # <<>> => up'[1] = up[1])
    BY <1>3, <1>7 DEF Pinged
  <2> QED BY <1>1, <1>2, <1>5, <2>1 DEF Seen
<1> QED BY <1>1, <1>6, <1>7

LEMMA ClientTopInv == ASSUME IInv, ClientTop PROVE IInv'
<1>1. /\ client = "top" /\ clientNow' = 0 /\ client' \in {"gone", "poll"}
      /\ (client' = "gone" <=> ServerSilent)
      /\ UNCHANGED <<sinceServer, server, serverNow, session, sinceSeen>>
      /\ UNCHANGED <<longUsed, down, fault, since>>
  BY ClientTopEffect
<1>2. \/ sincePing >= PingInterval /\ Pinged
      \/ /\ sincePing >= PingInterval /\ up' = up /\ lost' = lost + 1
         /\ lost < MaxLost /\ sincePing' = 0
      \/ /\ up' = up /\ lost' = lost
         /\ \/ fault = "cut" /\ sincePing' = 0
            \/ sincePing < PingInterval /\ sincePing' = sincePing
  BY ClientTopEffect
<1>3. TypeOK /\ Faults /\ ClientClock /\ ServerClock /\ PongWay /\ PongWait
  BY DEF IInv
<1>4. Connected /\ ClientElapsed = 0 /\ ClientElapsed' = 0
  BY <1>1 DEF Connected, ClientElapsed
<1>5. TypeOK'
  <2>1. up' \in Seq(Nat) /\ lost' \in 0 .. MaxLost /\ sincePing' \in Nat
    BY <1>2, <1>3, Constants DEF TypeOK, Pinged
  <2> QED BY <1>1, <1>3, <2>1 DEF TypeOK
<1>6. Faults'
  <2>1. fault = "none" => Connected'
    BY <1>1, NotSilent DEF Connected
  <2>2. fault # "quit"
    BY <1>3, <1>4 DEF Faults
  <2>3. fault = "cut" => up' = <<>>
    BY <1>2, <1>3 DEF Faults, Pinged
  <2> QED BY <1>1, <1>3, <2>1, <2>2, <2>3 DEF Faults
<1>7. ClientClock'
  <2>1. sincePing' < PingInterval /\ sincePing' \in Nat
    BY <1>2, <1>3, Constants DEF Pinged, TypeOK
  <2>2. Connected' => sinceServer < ClientTimeout /\ sinceServer \in Nat
    BY <1>1, <1>3, Constants DEF Connected, ServerSilent, TypeOK
  <2> QED BY <1>1, <2>1, <2>2, Constants DEF ClientClock
<1>8. ServerClock' /\ PongWay'
  BY <1>1, <1>3 DEF ServerClock, PongWay, InTurn
<1>9. Pings' /\ PingWait'
  BY ClientTopPings
<1>10. Line' /\ Heard' /\ Seen'
  <2>1. CASE fault = "none"
    BY <2>1, ClientTopLine, ClientTopHeard, ClientTopSeen
  <2>2. CASE fault # "none"
    BY <1>1, <2>2 DEF Line, Heard, Seen
  <2> QED BY <2>1, <2>2
<1>11. PongWait'
  BY <1>1, <1>3, <1>4 DEF PongWait
<1>12. ClientNotice'
  BY <1>1, <1>4 DEF IInv, ClientNotice
<1>13. ServerNotice'
  <2>1. fault # "quit"
    BY <1>3, <1>4 DEF Faults
  <2>2. fault = "cut" => up' = up
    BY <1>2 DEF Pinged
  <2> QED BY <1>1, <2>1, <2>2 DEF IInv, ServerNotice
<1> QED BY <1>5, <1>6, <1>7, <1>8, <1>9, <1>10, <1>11, <1>12, <1>13 DEF IInv

-----------------------------------------------------------------------------
(* Time passes.                                                            *)

LEMMA PassEffect ==
    ASSUME IInv, Pass
    PROVE  /\ client \in {"poll", "gone"} /\ server # "top"
           /\ UNCHANGED <<client, server, session, longUsed, lost, fault>>
           /\ client = "poll" =>
                /\ clientNow < ClientTurn /\ clientNow' = clientNow + 1
                /\ sincePing' = sincePing + 1 /\ sinceServer' = sinceServer + 1
           /\ client = "gone" => UNCHANGED <<clientNow, sincePing, sinceServer, down>>
           /\ server # "stopped" =>
                /\ serverNow' = serverNow + 1
                /\ server = "turn" => serverNow < ServerTurn
                /\ server = "long" => serverNow < LongTurn
                /\ session => sinceSeen' = sinceSeen + 1
                /\ ~session => sinceSeen' = sinceSeen
           /\ server = "stopped" => UNCHANGED <<serverNow, sinceSeen, up>>
           /\ since' \in Nat /\ since' <= since + 1
           /\ fault = "none" => since' = since
<1>1. TypeOK
  BY DEF IInv
<1>2. /\ client \in {"poll", "gone"} /\ server # "top"
      /\ UNCHANGED <<client, server, session, longUsed, lost, fault>>
      /\ (client = "poll" => clientNow < ClientTurn)
      /\ (server = "turn" => serverNow < ServerTurn)
      /\ (server = "long" => serverNow < LongTurn)
  BY <1>1 DEF Pass, TypeOK
<1>3. client = "poll" =>
        /\ clientNow' = clientNow + 1
        /\ sincePing' = sincePing + 1 /\ sinceServer' = sinceServer + 1
  BY DEF Pass, Connected
<1>4. client = "gone" => UNCHANGED <<clientNow, sincePing, sinceServer, down>>
  BY DEF Pass, Connected
<1>5. server # "stopped" => /\ serverNow' = serverNow + 1
                            /\ session => sinceSeen' = sinceSeen + 1
                            /\ ~session => sinceSeen' = sinceSeen
  BY DEF Pass
<1>6. server = "stopped" => UNCHANGED <<serverNow, sinceSeen, up>>
  BY DEF Pass
<1>7. since' = since + 1 \/ since' = since
  BY DEF Pass
<1>8. fault = "none" => since' = since
  BY DEF Pass
<1>9. since' \in Nat /\ since' <= since + 1
  BY <1>1, <1>7 DEF TypeOK
<1> QED BY <1>2, <1>3, <1>4, <1>5, <1>6, <1>8, <1>9

LEMMA PassPings ==
    ASSUME IInv, Pass
    PROVE  /\ up' \in Seq(Nat) /\ Len(up') = Len(up) /\ (up' = <<>> <=> up = <<>>)
           /\ server # "stopped" => \A k \in 1 .. Len(up) : up'[k] = up[k] + 1
<1>1. up \in Seq(Nat)
  BY DEF IInv, TypeOK
<1>2. CASE server = "stopped"
  BY <1>1, <1>2 DEF Pass
<1>3. CASE server # "stopped"
  <2>1. up' = [k \in DOMAIN up |-> up[k] + 1]
    BY <1>3 DEF Pass
  <2>2. DOMAIN up = 1 .. Len(up) /\ Len(up) \in Nat
    BY <1>1
  <2>3. \A k \in 1 .. Len(up) : up[k] + 1 \in Nat
    BY <1>1
  <2>4. up' = [k \in 1 .. Len(up) |-> up[k] + 1]
    BY <2>1, <2>2
  <2>5. up' \in Seq(Nat) /\ Len(up') = Len(up)
    BY <2>2, <2>3, <2>4
  <2>6. \A k \in 1 .. Len(up) : up'[k] = up[k] + 1
    BY <2>4
  <2>7. up' = <<>> <=> up = <<>>
    <3>1. up' # <<>> <=> Len(up') >= 1
      BY <2>5, Filled
    <3>2. up # <<>> <=> Len(up) >= 1
      BY <1>1, Filled
    <3> QED BY <2>5, <3>1, <3>2
  <2> QED BY <2>5, <2>6, <2>7
<1> QED BY <1>2, <1>3

LEMMA PassPongs ==
    ASSUME IInv, Pass
    PROVE  /\ down' \in Seq([sentAt : Nat, age : Nat])
           /\ Len(down') = Len(down) /\ (down' = <<>> <=> down = <<>>)
           /\ client = "poll" =>
                \A k \in 1 .. Len(down) : /\ down'[k].sentAt = down[k].sentAt + 1
                                          /\ down'[k].age = down[k].age + 1
<1> DEFINE Pong == [sentAt : Nat, age : Nat]
           older(k) == [sentAt |-> down[k].sentAt + 1, age |-> down[k].age + 1]
<1>1. down \in Seq(Pong) /\ TypeOK
  BY DEF IInv, TypeOK
<1>2. \A k \in 1 .. Len(down) : down[k].sentAt \in Nat /\ down[k].age \in Nat
  BY <1>1, QueueTypes
<1>3. \A k \in 1 .. Len(down) : /\ older(k) \in Pong
                                /\ older(k).sentAt = down[k].sentAt + 1
                                /\ older(k).age = down[k].age + 1
  BY <1>2
<1>4. CASE ~Connected
  <2>1. down' = down
    BY <1>4 DEF Pass
  <2> QED BY <1>1, <1>4, <2>1 DEF Connected
<1>5. CASE Connected
  <2>1. down' = [k \in DOMAIN down |-> older(k)]
    BY <1>5 DEF Pass
  <2> HIDE DEF Pong, older
  <2>2. DOMAIN down = 1 .. Len(down) /\ Len(down) \in Nat
    BY <1>1
  <2>3. down' = [k \in 1 .. Len(down) |-> older(k)]
    BY <2>1, <2>2
  <2>4. down' \in Seq(Pong) /\ Len(down') = Len(down)
    BY <1>3, <2>2, <2>3
  <2>5. \A k \in 1 .. Len(down) : down'[k] = older(k)
    BY <2>3
  <2>6. down' = <<>> <=> down = <<>>
    <3>1. down' # <<>> <=> Len(down') >= 1
      BY <2>4, Filled
    <3>2. down # <<>> <=> Len(down) >= 1
      BY <1>1, Filled
    <3> QED BY <2>4, <3>1, <3>2
  <2> QED BY <1>3, <2>4, <2>5, <2>6 DEF Pong
<1> QED BY <1>4, <1>5

\* The age of all that is on its way, and of what a timer counts from, grows
\* by the same.
LEMMA PassNetInv ==
    ASSUME IInv, Pass
    PROVE  Pings' /\ PingWait' /\ PongWay' /\ PongWait'
<1>1. /\ client \in {"poll", "gone"} /\ server # "top"
      /\ UNCHANGED <<client, server, longUsed>>
      /\ client = "poll" => clientNow' = clientNow + 1 /\ sincePing' = sincePing + 1
      /\ client = "gone" => sincePing' = sincePing /\ down' = down
      /\ server # "stopped" => serverNow' = serverNow + 1
  BY PassEffect
<1>2. TypeOK /\ Pings /\ PingWait /\ PongWay /\ PongWait
  BY DEF IInv
<1>3. /\ Len(up) \in Nat /\ (up # <<>> <=> Len(up) >= 1)
      /\ \A k \in 1 .. Len(up) : up[k] \in Nat
      /\ Len(down) \in Nat /\ (down # <<>> <=> Len(down) >= 1)
      /\ \A k \in 1 .. Len(down) : down[k].sentAt \in Nat /\ down[k].age \in Nat
      /\ sincePing \in Nat /\ sincePing' \in Nat /\ sincePing' <= sincePing + 1
      /\ serverNow \in Nat /\ clientNow \in Nat
  BY <1>1, <1>2, QueueTypes DEF TypeOK
<1>4. /\ Len(up') = Len(up) /\ (up' = <<>> <=> up = <<>>)
      /\ server # "stopped" => \A k \in 1 .. Len(up) : up'[k] = up[k] + 1
  BY PassPings
<1>5. /\ Len(down') = Len(down) /\ (down' = <<>> <=> down = <<>>)
      /\ client = "poll" =>
           \A k \in 1 .. Len(down) : /\ down'[k].sentAt = down[k].sentAt + 1
                                     /\ down'[k].age = down[k].age + 1
  BY PassPongs
<1>6. server # "stopped" =>
        ServerElapsed' = ServerElapsed + 1 /\ ServerElapsed \in Nat
  BY <1>1, <1>2, <1>3 DEF ServerElapsed, InTurn, TypeOK
<1>7. client = "poll" => ClientElapsed' = ClientElapsed + 1 /\ ClientElapsed \in Nat
  BY <1>1, <1>3 DEF ClientElapsed
<1>8. Pings'
  <2> SUFFICES ASSUME server # "stopped" PROVE Pings'
    BY <1>1 DEF Pings
  <2>1. ASSUME NEW k \in 1 .. Len(up), k < Len(up)
        PROVE  up'[k] >= up'[k + 1] + PingInterval
    <3>1. k + 1 \in 1 .. Len(up)
      BY <1>3, <2>1
    <3>2. /\ up'[k] = up[k] + 1 /\ up'[k + 1] = up[k + 1] + 1
          /\ up[k] \in Nat /\ up[k + 1] \in Nat
      BY <1>3, <1>4, <3>1
    <3>3. up[k] >= up[k + 1] + PingInterval
      BY <1>2, <2>1 DEF Pings
    <3> QED BY <3>2, <3>3, Constants
  <2>2. ASSUME up # <<>> PROVE up'[Len(up)] >= sincePing'
    <3>1. Len(up) \in 1 .. Len(up)
      BY <1>3, <2>2
    <3>2. up'[Len(up)] = up[Len(up)] + 1 /\ up[Len(up)] \in Nat
      BY <1>3, <1>4, <3>1
    <3>3. up[Len(up)] >= sincePing
      BY <1>2, <2>2 DEF Pings
    <3> QED BY <1>3, <3>2, <3>3
  <2> QED BY <1>4, <2>1, <2>2 DEF Pings
<1>9. PingWait'
  <2> SUFFICES ASSUME server # "stopped", up # <<>> PROVE PingWait'
    BY <1>1, <1>4 DEF PingWait
  <2>1. 1 \in 1 .. Len(up)
    BY <1>3
  <2>2. up'[1] = up[1] + 1 /\ up[1] \in Nat
    BY <1>3, <1>4, <2>1
  <2>3. \/ up[1] <= Latency + ServerElapsed
        \/ /\ longUsed /\ server # "long"
           /\ up[1] + PingInterval <= Latency + LongTurn + ServerElapsed
    BY <1>2 DEF PingWait
  <2>4. \/ up'[1] <= Latency + ServerElapsed'
        \/ /\ longUsed /\ server # "long"
           /\ up'[1] + PingInterval <= Latency + LongTurn + ServerElapsed'
    BY <1>6, <2>2, <2>3, Constants
  <2> QED BY <1>1, <2>4 DEF PingWait
<1>10. PongWay'
  <2>1. CASE client = "gone"
    BY <1>1, <1>2, <2>1 DEF PongWay
  <2>2. CASE client = "poll"
    <3>1. ASSUME NEW k \in 1 .. Len(down)
          PROVE  down'[k].sentAt <= down'[k].age + Latency + LongTurn
      <4>1. /\ down'[k].sentAt = down[k].sentAt + 1 /\ down'[k].age = down[k].age + 1
            /\ down[k].sentAt \in Nat /\ down[k].age \in Nat
            /\ down[k].sentAt <= down[k].age + Latency + LongTurn
        BY <1>2, <1>3, <1>5, <2>2 DEF PongWay
      <4> QED BY <4>1, Constants
    <3> QED BY <1>5, <3>1 DEF PongWay
  <2> QED BY <1>1, <2>1, <2>2
<1>11. PongWait'
  <2> SUFFICES ASSUME client = "poll" PROVE PongWait'
    BY <1>1 DEF PongWait, Connected
  <2>1. Connected
    BY DEF Connected
  <2>2. \A k \in 1 .. Len(down) : /\ down'[k].age = down[k].age + 1
                                  /\ down[k].age \in Nat
    BY <1>3, <1>5
  <2>3. ASSUME NEW j \in 1 .. Len(down), NEW k \in 1 .. Len(down), j <= k
        PROVE  down'[j].age >= down'[k].age
    <3>1. down[j].age >= down[k].age
      BY <1>2, <2>1, <2>3 DEF PongWait
    <3> QED BY <2>2, <3>1
  <2>4. ASSUME NEW k \in 1 .. Len(down)
        PROVE  down'[k].age <= Latency + Reading(MostPongs - k) + ClientElapsed'
    <3>1. MostPongs - k \in Nat
      BY <1>2, <1>3, <2>1, MostPongsFact DEF PongWait
    <3>2. /\ Reading(MostPongs - k) \in Nat
          /\ down[k].age <= Latency + Reading(MostPongs - k) + ClientElapsed
      BY <1>2, <2>1, <3>1, ReadingFacts DEF PongWait
    <3> QED BY <1>7, <2>2, <3>2, Constants
  <2> QED BY <1>2, <1>5, <2>1, <2>3, <2>4 DEF PongWait
<1> QED BY <1>8, <1>9, <1>10, <1>11

LEMMA PassLineInv ==
    ASSUME IInv, Pass, fault = "none"
    PROVE  Line' /\ Heard' /\ Seen'
<1>1. TypeOK /\ Faults /\ Line /\ Heard /\ Seen
  BY DEF IInv
<1>2. client = "poll" /\ server # "stopped" /\ server # "top" /\ session
  BY <1>1, PassEffect DEF Faults, Connected
<1>3. /\ clientNow' = clientNow + 1 /\ sincePing' = sincePing + 1 /\ client' = client
      /\ sinceServer' = sinceServer + 1 /\ sinceSeen' = sinceSeen + 1
      /\ server' = server /\ lost' = lost /\ fault' = fault
  BY <1>2, PassEffect
<1>4. /\ Len(up) \in Nat /\ (up # <<>> <=> Len(up) >= 1)
      /\ \A k \in 1 .. Len(up) : up[k] \in Nat
      /\ Len(down) \in Nat /\ (down # <<>> <=> Len(down) >= 1)
      /\ \A k \in 1 .. Len(down) : down[k].sentAt \in Nat /\ down[k].age \in Nat
      /\ sincePing \in Nat /\ sinceServer \in Nat /\ sinceSeen \in Nat
      /\ clientNow \in Nat /\ lost \in Nat
  BY <1>1, QueueTypes, Constants DEF TypeOK
<1>5. /\ Len(up') = Len(up) /\ (up' = <<>> <=> up = <<>>)
      /\ \A k \in 1 .. Len(up) : up'[k] = up[k] + 1
  BY <1>2, PassPings
<1>6. /\ Len(down') = Len(down) /\ (down' = <<>> <=> down = <<>>)
      /\ \A k \in 1 .. Len(down) : /\ down'[k].sentAt = down[k].sentAt + 1
                                   /\ down'[k].age = down[k].age + 1
  BY <1>2, PassPongs
<1>7. ClientElapsed' = ClientElapsed + 1 /\ ClientElapsed \in Nat
  BY <1>2, <1>3, <1>4 DEF ClientElapsed
<1>8. Line'
  <2>1. ASSUME NEW k \in 1 .. Len(up) PROVE up'[k] >= sincePing' + Spaced(Len(up) - k)
    <3>1. Len(up) - k \in Nat
      BY <1>4
    <3>2. Spaced(Len(up) - k) \in Nat /\ up[k] >= sincePing + Spaced(Len(up) - k)
      BY <1>1, <3>1, SpacedFacts DEF Line
    <3> QED BY <1>3, <1>4, <1>5, <3>2
  <2>2. ASSUME NEW k \in 1 .. Len(down)
        PROVE  down'[k].sentAt >= sincePing' + Spaced(Len(down) - k + Len(up))
    <3>1. Len(down) - k + Len(up) \in Nat
      BY <1>4
    <3>2. /\ Spaced(Len(down) - k + Len(up)) \in Nat
          /\ down[k].sentAt >= sincePing + Spaced(Len(down) - k + Len(up))
      BY <1>1, <3>1, SpacedFacts DEF Line
    <3> QED BY <1>3, <1>4, <1>6, <3>2
  <2>3. ASSUME NEW k \in 1 .. Len(down), k < Len(down)
        PROVE  down'[k].sentAt >= down'[k + 1].sentAt + PingInterval
    <3>1. k + 1 \in 1 .. Len(down)
      BY <1>4, <2>3
    <3>2. down[k].sentAt >= down[k + 1].sentAt + PingInterval
      BY <1>1, <2>3 DEF Line
    <3>3. down'[k].sentAt = down[k].sentAt + 1 /\ down'[k + 1].sentAt = down[k + 1].sentAt + 1
      BY <1>6, <3>1
    <3>4. down[k].sentAt \in Nat /\ down[k + 1].sentAt \in Nat /\ PingInterval \in Nat
      BY <1>4, <3>1, Constants
    <3> QED BY ONLY <3>2, <3>3, <3>4
  <2>4. ASSUME down # <<>>, up # <<>>
        PROVE  down'[Len(down)].sentAt >= up'[1] + PingInterval
    <3>1. Len(down) \in 1 .. Len(down) /\ 1 \in 1 .. Len(up)
      BY <1>4, <2>4
    <3>2. down[Len(down)].sentAt >= up[1] + PingInterval
      BY <1>1, <2>4 DEF Line
    <3> QED BY <1>4, <1>5, <1>6, <3>1, <3>2, Constants
  <2>5. ASSUME down # <<>>
        PROVE  down'[1].sentAt <= 2 * Latency + LongTurn + ClientElapsed'
    <3>1. 1 \in 1 .. Len(down)
      BY <1>4, <2>5
    <3>2. down[1].sentAt <= 2 * Latency + LongTurn + ClientElapsed
      BY <1>1, <2>5 DEF Line
    <3> QED BY <1>4, <1>6, <1>7, <3>1, <3>2, Constants
  <2> QED BY <1>5, <1>6, <2>1, <2>2, <2>3, <2>4, <2>5 DEF Line
<1>9. Heard'
  <2>1. ASSUME NEW k \in 1 .. Len(down)
        PROVE  sinceServer' <= Spread(k + lost) + down'[k].sentAt
    <3>1. k + lost \in Nat
      BY <1>4
    <3>2. Spread(k + lost) \in Nat /\ sinceServer <= Spread(k + lost) + down[k].sentAt
      BY <1>1, <3>1, SpreadFacts DEF Heard
    <3> QED BY <1>3, <1>4, <1>6, <3>2
  <2>2. ASSUME NEW k \in 1 .. Len(up)
        PROVE  sinceServer' <= Spread(Len(down) + k + lost) + up'[k]
    <3>1. Len(down) + k + lost \in Nat
      BY <1>4
    <3>2. /\ Spread(Len(down) + k + lost) \in Nat
          /\ sinceServer <= Spread(Len(down) + k + lost) + up[k]
      BY <1>1, <3>1, SpreadFacts DEF Heard
    <3> QED BY <1>3, <1>4, <1>5, <3>2
  <2>3. sinceServer' <= Spread(Len(down) + Len(up) + lost) + sincePing'
    <3>1. Len(down) + Len(up) + lost \in Nat
      BY <1>4
    <3>2. /\ Spread(Len(down) + Len(up) + lost) \in Nat
          /\ sinceServer <= Spread(Len(down) + Len(up) + lost) + sincePing
      BY <1>1, <3>1, SpreadFacts DEF Heard
    <3> QED BY <1>3, <1>4, <3>2
  <2> QED BY <1>3, <1>5, <1>6, <2>1, <2>2, <2>3 DEF Heard
<1>10. Seen'
  <2>1. ASSUME NEW k \in 1 .. Len(down) PROVE sinceSeen' <= LongTurn + down'[k].age
    <3>1. sinceSeen <= LongTurn + down[k].age
      BY <1>1 DEF Seen
    <3> QED BY <1>3, <1>4, <1>6, <3>1, Constants
  <2>2. up = <<>> => sinceSeen' <= PongAge + Spread(lost) + sincePing'
    <3>1. up = <<>> => sinceSeen <= PongAge + Spread(lost) + sincePing
      BY <1>1 DEF Seen
    <3>2. Spread(lost) \in Nat /\ PongAge \in Nat
      BY <1>4, SpreadFacts, GapFacts
    <3> QED BY <1>3, <1>4, <3>1, <3>2
  <2>3. up # <<>> => sinceSeen' <= PongAge + PingGap + up'[1]
    <3>1. up # <<>> => /\ sinceSeen <= PongAge + PingGap + up[1]
                       /\ up'[1] = up[1] + 1 /\ up[1] \in Nat
      BY <1>1, <1>4, <1>5 DEF Seen
    <3>2. PingGap \in Nat /\ PongAge \in Nat
      BY GapFacts
    <3> QED BY <1>3, <1>4, <3>1, <3>2
  <2> QED BY <1>2, <1>3, <1>5, <1>6, <2>1, <2>2, <2>3 DEF Seen
<1> QED BY <1>8, <1>9, <1>10

\* The ages that ServerNotice compares, when time passes.
LEMMA OlderBoth ==
  ASSUME NEW a \in Nat, NEW b \in Nat, NEW a2 \in Nat,
         NEW p \in Nat, NEW q \in Nat, NEW r \in Nat,
         a2 <= a + 1, a + p <= b + q + r
  PROVE  a2 + p <= (b + 1) + q + r
OBVIOUS

LEMMA NoticedInTime ==
  ASSUME NEW a \in Nat, NEW b \in Nat, NEW n \in Nat, NEW t \in Nat, NEW q \in Nat,
         NEW r \in Nat, NEW s \in Nat, NEW p \in Nat, b < t + n, s <= p,
         \/ n <= r /\ a <= b + q
         \/ n <= s /\ a + p <= b + q + r
  PROVE  a < t + q + r
OBVIOUS

LEMMA PassNoticeInv ==
    ASSUME IInv, Pass, ServerClock'
    PROVE  ClientNotice' /\ ServerNotice'
<1>1. /\ client \in {"poll", "gone"} /\ server # "top"
      /\ UNCHANGED <<client, server, session, longUsed, fault>>
      /\ client = "poll" => sinceServer' = sinceServer + 1
      /\ server # "stopped" =>
           /\ serverNow' = serverNow + 1
           /\ server = "turn" => serverNow < ServerTurn
           /\ server = "long" => serverNow < LongTurn
           /\ session => sinceSeen' = sinceSeen + 1
      /\ since' \in Nat /\ since' <= since + 1
  BY PassEffect
<1>2. TypeOK /\ Faults /\ ClientNotice /\ ServerNotice
  BY DEF IInv
<1>3. /\ since \in Nat /\ sinceServer \in Nat /\ sinceSeen \in Nat /\ serverNow \in Nat
      /\ \A k \in 1 .. Len(down) : down[k].age \in Nat
      /\ \A k \in 1 .. Len(up) : up[k] \in Nat
  BY <1>2, QueueTypes DEF TypeOK
<1>4. ClientNotice'
  <2> SUFFICES ASSUME fault \in {"cut", "stop", "kick"}, client = "poll" PROVE ClientNotice'
    BY <1>1 DEF ClientNotice, Connected
  <2>1. /\ \A k \in 1 .. Len(down) : since <= down[k].age
        /\ since <= sinceServer + Latency + Reading(MostPongs - 1)
    BY <1>2 DEF ClientNotice, Connected
  <2>2. Len(down') = Len(down) /\ \A k \in 1 .. Len(down) : down'[k].age = down[k].age + 1
    BY PassPongs
  <2>3. ASSUME NEW k \in 1 .. Len(down) PROVE since' <= down'[k].age
    <3>1. down[k].age \in Nat /\ since <= down[k].age /\ down'[k].age = down[k].age + 1
      BY <1>3, <2>1, <2>2
    <3>2. since \in Nat /\ since' \in Nat /\ since' <= since + 1
      BY <1>1, <1>3
    <3> QED BY <3>1, <3>2
  <2>4. since' <= sinceServer' + Latency + Reading(MostPongs - 1)
    <3>1. sinceServer' = sinceServer + 1 /\ since' \in Nat /\ since' <= since + 1
      BY <1>1
    <3>2. Reading(MostPongs - 1) \in Nat
      BY GapFacts
    <3> QED BY <1>3, <2>1, <3>1, <3>2, Constants
  <2> QED BY <2>2, <2>3, <2>4 DEF ClientNotice
<1>5. ServerNotice'
  <2> SUFFICES ASSUME fault \in {"cut", "quit"}, session PROVE ServerNotice'
    BY <1>1 DEF ServerNotice
  <2>1. server # "stopped" /\ InTurn /\ InTurn'
    BY <1>1, <1>2 DEF Faults, InTurn, TypeOK
  <2>2. /\ Len(up') = Len(up) /\ \A k \in 1 .. Len(up) : up'[k] = up[k] + 1
    BY <2>1, PassPings
  <2>3. /\ \A k \in 1 .. Len(up) : since <= up[k]
        /\ \/ since <= sinceSeen + Latency
           \/ /\ longUsed /\ server # "long"
              /\ since + PingInterval <= sinceSeen + Latency + LongTurn
    BY <1>2 DEF ServerNotice
  <2>4. ASSUME NEW k \in 1 .. Len(up) PROVE since' <= up'[k]
    BY <1>1, <1>3, <2>2, <2>3
  <2>5. \/ since' <= sinceSeen' + Latency
        \/ /\ longUsed /\ server # "long"
           /\ since' + PingInterval <= sinceSeen' + Latency + LongTurn
    <3>1. sinceSeen' = sinceSeen + 1 /\ since' \in Nat /\ since' <= since + 1
      BY <1>1, <2>1
    <3>2. since \in Nat /\ sinceSeen \in Nat
      BY <1>3
    <3>3. since <= sinceSeen + Latency => since' <= sinceSeen' + Latency
      BY <3>1, <3>2, Constants
    <3>4. since + PingInterval <= sinceSeen + Latency + LongTurn
            => since' + PingInterval <= sinceSeen' + Latency + LongTurn
      <4>1. /\ PingInterval \in Nat /\ Latency \in Nat /\ LongTurn \in Nat
            /\ since' \in Nat /\ since' <= since + 1
        BY <3>1, Constants
      <4>2. ASSUME since + PingInterval <= sinceSeen + Latency + LongTurn
            PROVE  since' + PingInterval <= (sinceSeen + 1) + Latency + LongTurn
        BY <3>2, <4>1, <4>2, OlderBoth
      <4> QED BY <3>1, <4>2
    <3> QED BY <2>3, <3>3, <3>4
  \* The session has not expired, so it was seen since the timeout.
  <2>6. /\ sinceSeen' < ServerTimeout + serverNow' /\ serverNow' <= LongTurn
        /\ server # "long" => serverNow' <= ServerTurn
        /\ sinceSeen' \in Nat /\ serverNow' \in Nat
    BY <1>1, <1>3, <2>1, Constants DEF ServerClock, InTurn
  <2>7. since' < ServerNoticeTime
    <3>1. since' \in Nat /\ sinceSeen' \in Nat /\ serverNow' \in Nat
      BY <1>1, <2>6
    <3>2. /\ sinceSeen' < ServerTimeout + serverNow' /\ serverNow' <= LongTurn
          /\ server # "long" => serverNow' <= ServerTurn
      BY <2>6
    <3>3. /\ ServerTimeout \in Nat /\ Latency \in Nat /\ LongTurn \in Nat
          /\ ServerTurn \in Nat /\ PingInterval \in Nat /\ ServerTurn <= PingInterval
      BY Constants
    <3>4. \/ serverNow' <= LongTurn /\ since' <= sinceSeen' + Latency
          \/ /\ serverNow' <= ServerTurn
             /\ since' + PingInterval <= sinceSeen' + Latency + LongTurn
      BY <2>5, <3>2
    <3>5. since' < ServerTimeout + Latency + LongTurn
      BY <3>1, <3>2, <3>3, <3>4, NoticedInTime
    <3> QED BY <3>5 DEF ServerNoticeTime
  <2> QED BY <1>1, <2>2, <2>4, <2>5, <2>7 DEF ServerNotice
<1> QED BY <1>4, <1>5

LEMMA PassInv == ASSUME IInv, Pass PROVE IInv'
<1>1. /\ client \in {"poll", "gone"} /\ server # "top"
      /\ UNCHANGED <<client, server, session, longUsed, lost, fault>>
      /\ client = "poll" =>
           /\ clientNow < ClientTurn /\ clientNow' = clientNow + 1
           /\ sincePing' = sincePing + 1 /\ sinceServer' = sinceServer + 1
      /\ client = "gone" => UNCHANGED <<clientNow, sincePing, sinceServer, down>>
      /\ server # "stopped" =>
           /\ serverNow' = serverNow + 1
           /\ server = "turn" => serverNow < ServerTurn
           /\ server = "long" => serverNow < LongTurn
           /\ session => sinceSeen' = sinceSeen + 1
           /\ ~session => sinceSeen' = sinceSeen
      /\ server = "stopped" => UNCHANGED <<serverNow, sinceSeen, up>>
      /\ since' \in Nat
  BY PassEffect
<1>2. TypeOK /\ Faults /\ ClientClock /\ ServerClock
  BY DEF IInv
<1>3. TypeOK'
  <2>1. up' \in Seq(Nat) /\ down' \in Seq([sentAt : Nat, age : Nat])
    BY PassPings, PassPongs
  <2>2. clientNow' \in Nat /\ sincePing' \in Nat /\ sinceServer' \in Nat
    <3>1. clientNow \in Nat /\ sincePing \in Nat /\ sinceServer \in Nat
      BY <1>2 DEF TypeOK
    <3>2. CASE client = "poll"
      BY <1>1, <3>1, <3>2
    <3>3. CASE client = "gone"
      BY <1>1, <3>1, <3>3
    <3> QED BY <1>1, <3>2, <3>3
  <2>3. serverNow' \in Nat /\ sinceSeen' \in Nat
    <3>1. serverNow \in Nat /\ sinceSeen \in Nat /\ session \in BOOLEAN
      BY <1>2 DEF TypeOK
    <3>2. CASE server = "stopped"
      BY <1>1, <3>1, <3>2
    <3>3. CASE server # "stopped" /\ session
      BY <1>1, <3>1, <3>3
    <3>4. CASE server # "stopped" /\ ~session
      BY <1>1, <3>1, <3>4
    <3> QED BY <3>1, <3>2, <3>3, <3>4
  <2> QED BY <1>1, <1>2, <2>1, <2>2, <2>3 DEF TypeOK
<1>4. Faults'
  <2>1. (up' = <<>> <=> up = <<>>) /\ (down' = <<>> <=> down = <<>>)
    BY PassPings, PassPongs
  <2> QED BY <1>1, <1>2, <2>1 DEF Faults, Connected
<1>5. ClientClock'
  BY <1>1, <1>2, Constants DEF ClientClock, Connected, TypeOK
<1>6. ServerClock'
  BY <1>1, <1>2, Constants DEF ServerClock, InTurn, TypeOK
<1>7. (Line /\ Heard /\ Seen)'
  <2>1. CASE fault = "none"
    BY <2>1, PassLineInv
  <2>2. CASE fault # "none"
    BY <1>1, <2>2 DEF Line, Heard, Seen
  <2> QED BY <2>1, <2>2
<1> QED BY <1>3, <1>4, <1>5, <1>6, <1>7, PassNetInv, PassNoticeInv DEF IInv

-----------------------------------------------------------------------------
(* The theorems.                                                           *)

LEMMA StepInv == IInv /\ [Next]_vars => IInv'
<1> SUFFICES ASSUME IInv, [Next]_vars PROVE IInv'
  OBVIOUS
<1>1. CASE UNCHANGED vars
  BY <1>1
  DEF vars, clientVars, serverVars, netVars, faultVars, IInv, TypeOK, Faults, ClientClock,
      ServerClock, Pings, PingWait, Line, PongWay, PongWait, Heard, Seen, ClientNotice,
      ServerNotice, Connected, InTurn, ClientElapsed, ServerElapsed
<1>2. CASE Next
  BY <1>2, PassInv, ClientTopInv, ClientReceivesInv, ClientPollEndsInv, ServerTopInv,
     ServerReceivesInv, ServerPollEndsInv, CutInv, QuitInv, StopServerInv, KickInv DEF Next
<1> QED BY <1>1, <1>2

LEMMA Invariant == Spec => []IInv
  BY InitInv, StepInv, PTL DEF Spec

\* With timeouts longer than the gap that lost pings leave, the way of the
\* datagrams and one turn that is held up, no client that is there is given up
\* and no client gives up a server that is there: NetClient::Run and the loop
\* of main.cpp, whatever the order of their turns.
THEOREM NobodyIsDropped == Spec => []NoFalseDrop
<1>1. IInv => NoFalseDrop
  BY DEF IInv, Faults, NoFalseDrop
<1> QED BY <1>1, Invariant, PTL

\* A client whose server is gone, whose network is gone or who was kicked is
\* no longer connected when ClientNoticeTime is over.
THEOREM ClientFindsOut == Spec => []ClientNotices
<1>1. ASSUME IInv PROVE ClientNotices
  <2> SUFFICES ASSUME fault \in {"cut", "stop", "kick"}, Connected PROVE since < ClientNoticeTime
    <3>1. since \in Nat
      BY <1>1 DEF IInv, TypeOK
    <3>2. ClientNoticeTime \in Nat
      BY GapFacts, Constants
    <3> QED BY <3>1, <3>2 DEF ClientNotices
  <2>1. since <= sinceServer + Latency + Reading(MostPongs - 1)
    BY <1>1 DEF IInv, ClientNotice
  <2>2. sinceServer < ClientTimeout + ClientTurn /\ sinceServer \in Nat /\ since \in Nat
    BY <1>1 DEF IInv, ClientClock, TypeOK
  <2> QED BY <2>1, <2>2, GapFacts, Constants
<1> QED BY <1>1, Invariant, PTL

\* The session of a client that is gone without a word does not stay for
\* longer than until ServerNoticeTime is over.
THEOREM ServerFindsOut == Spec => []ServerNotices
<1>1. ASSUME IInv PROVE ServerNotices
  <2> SUFFICES ASSUME fault \in {"cut", "quit"}, session PROVE since < ServerNoticeTime
    <3>1. since \in Nat /\ ServerNoticeTime \in Nat
      BY <1>1, Constants DEF IInv, TypeOK, ServerNoticeTime
    <3> QED BY <3>1 DEF ServerNotices
  <2> QED BY <1>1 DEF IInv, ServerNotice
<1> QED BY <1>1, Invariant, PTL

\* Without a fault the round trip that the client reports of a pong
\* (lastRttMs) is at most this long, though a ping may have waited for a turn
\* that was held up and the pong for one of the client's turns.
RoundTripBounded ==
    fault = "none" /\ client = "poll" /\ down # <<>> =>
        Head(down).sentAt <= 2 * Latency + LongTurn + ClientTurn

THEOREM RoundTripIsBounded == Spec => []RoundTripBounded
<1>1. ASSUME IInv PROVE RoundTripBounded
  <2> SUFFICES ASSUME fault = "none", client = "poll", down # <<>>
               PROVE  Head(down).sentAt <= 2 * Latency + LongTurn + ClientTurn
    BY DEF RoundTripBounded
  <2>1. TypeOK /\ Line /\ ClientClock
    BY <1>1 DEF IInv
  <2>2. /\ Head(down) = down[1] /\ down[1].sentAt \in Nat
        /\ clientNow \in Nat /\ clientNow <= ClientTurn
    BY <2>1, QueueTypes DEF TypeOK, ClientClock, Connected
  <2>3. down[1].sentAt <= 2 * Latency + LongTurn + clientNow
    BY <2>1 DEF Line, ClientElapsed
  <2> QED BY <2>2, <2>3, Constants
<1> QED BY <1>1, Invariant, PTL
=============================================================================
