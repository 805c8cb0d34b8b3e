----------------------------- MODULE WireProofs -----------------------------
(***************************************************************************)
(* What Wire's properties rest on, for all messages, limits and damage:    *)
(* where the parts of a flattened sequence stand; that each kind of field  *)
(* is read back as it was written (ReadsBack), and what is read of it      *)
(* stands in the bytes (ReadsWhatStands); the same for all the fields of a *)
(* message, by induction over them (FieldsReadBack, FieldsStand); and what *)
(* damage leaves true of a datagram (WireInv).                             *)
(***************************************************************************)
EXTENDS Wire, SequenceTheorems, WellFoundedInduction, TLAPS

\* A place in a part that begins behind the first a and ends at b.
LEMMA PlaceWithin ==
  ASSUME NEW a \in Nat, NEW b \in Nat, NEW c \in Nat, NEW l \in Nat, b = a + l, b <= c,
         NEW i \in Nat, 1 <= i, i <= l
  PROVE  a + i \in 1 .. c
OBVIOUS

\* The bounds between which the bytes of a string stand, behind its length.
LEMMA SpanOf ==
  ASSUME NEW p \in Nat, NEW l \in Nat
  PROVE  /\ p + 3 \in Int /\ p + 2 + l \in Int
         /\ (IF p + 3 <= p + 2 + l THEN (p + 2 + l) - (p + 3) + 1 ELSE 0) = l
         /\ (p + 2 + l) - (p + 3) + 1 = l
OBVIOUS

\* Induction over 1 .. n, for what is stated as a set of numbers.
LEMMA UpTo ==
  ASSUME NEW n \in Nat, NEW S, 1 \in S, \A m \in 1 .. n - 1 : m \in S => m + 1 \in S
  PROVE  1 .. n \subseteq S
<1> SUFFICES ASSUME (1 .. n) \ S # {} PROVE FALSE
  OBVIOUS
<1> DEFINE R == (1 .. n) \ S
<1>1. R \subseteq Nat /\ R # {}
  OBVIOUS
<1>2. PICK m \in R : \A k \in R : ~(<<k, m>> \in OpToRel(<, Nat))
  BY <1>1, NatLessThanWellFounded, WFMin
<1>3. \A k \in R : ~(k < m)
  BY <1>1, <1>2 DEF OpToRel
<1>4. m \in 1 .. n /\ m \notin S /\ m # 1
  OBVIOUS
<1>5. m - 1 \in S
  BY <1>3, <1>4
<1> QED BY <1>4, <1>5

-----------------------------------------------------------------------------
(* Sequences of sequences.                                                 *)

\* What FlattenSeq is defined by: each of these is one part longer.
LEMMA Flattened ==
  ASSUME NEW T, NEW s \in Seq(Seq(T)), s # <<>>
  PROVE  \E f \in [1 .. Len(s) -> Seq(T)] :
            /\ f[1] = s[1]
            /\ \A k \in 1 .. Len(s) - 1 : f[k + 1] = f[k] \o s[k + 1]
            /\ FlattenSeq(s) = f[Len(s)]
<1> DEFINE n == Len(s)
           Is(f, m) == f = [i \in 1 .. m |-> IF i = 1 THEN s[i] ELSE f[i - 1] \o s[i]]
           F == CHOOSE f : Is(f, n)
           S == {m \in 1 .. n : \E f : Is(f, m)}
<1>1. n \in Nat /\ n > 0
  OBVIOUS
<1>2. 1 \in S
  <2>1. Is([i \in 1 .. 1 |-> s[1]], 1)
    OBVIOUS
  <2> HIDE DEF Is
  <2>2. \E f : Is(f, 1)
    BY <2>1
  <2> QED BY <1>1, <2>2
<1>3. ASSUME NEW m \in 1 .. n - 1, m \in S PROVE m + 1 \in S
  <2>1. PICK f : Is(f, m)
    BY <1>3
  <2> DEFINE g == [i \in 1 .. m + 1 |-> IF i = m + 1 THEN f[m] \o s[i] ELSE f[i]]
  <2>2. m \in Nat /\ m >= 1 /\ m + 1 \in 1 .. n /\ m + 1 # 1 /\ (m + 1) - 1 = m
    BY <1>1
  <2>3. ASSUME NEW i \in 1 .. m + 1
        PROVE  g[i] = IF i = 1 THEN s[i] ELSE g[i - 1] \o s[i]
    <3>1. CASE i = m + 1
      <4>1. i - 1 = m /\ m \in 1 .. m + 1 /\ m # m + 1 /\ i # 1
        BY <2>2, <3>1
      <4>2. g[i] = f[m] \o s[i] /\ g[m] = f[m]
        BY <3>1, <4>1
      <4> HIDE DEF g
      <4> QED BY <4>1, <4>2
    <3>2. CASE i \in 1 .. m
      <4>1. g[i] = f[i] /\ (i # 1 => i - 1 \in 1 .. m /\ g[i - 1] = f[i - 1])
        BY <2>2, <3>2
      <4>2. f[i] = IF i = 1 THEN s[i] ELSE f[i - 1] \o s[i]
        BY <2>1, <3>2
      <4> HIDE DEF g
      <4> QED BY <4>1, <4>2
    <3> QED BY <2>2, <3>1, <3>2
  <2>4. Is(g, m + 1)
    BY <2>3
  <2> HIDE DEF Is, g
  <2>5. \E h : Is(h, m + 1)
    BY <2>4
  <2> QED BY <2>2, <2>5
<1>4. \E f : Is(f, n)
  <2>1. 1 .. n \subseteq S
    <3> HIDE DEF S
    <3> QED BY <1>1, <1>2, <1>3, UpTo
  <2>2. n \in S
    <3> HIDE DEF S
    <3> QED BY <1>1, <2>1
  <2> HIDE DEF Is
  <2> QED BY <2>2
<1>5. F = [i \in 1 .. n |-> IF i = 1 THEN s[i] ELSE F[i - 1] \o s[i]]
  BY <1>4
<1>6. FlattenSeq(s) = F[n]
  <2>1. Len(s) # 0
    BY <1>1
  <2> QED BY <2>1, Zenon DEF FlattenSeq
<1> HIDE DEF F
<1>7. F[1] = s[1] /\ \A k \in 1 .. n - 1 : F[k + 1] = F[k] \o s[k + 1]
  <2>1. \A i \in 1 .. n : F[i] = IF i = 1 THEN s[i] ELSE F[i - 1] \o s[i]
    BY <1>5
  <2>2. \A k \in 1 .. n - 1 : k + 1 \in 1 .. n /\ k + 1 # 1 /\ (k + 1) - 1 = k
    BY <1>1
  <2>3. 1 \in 1 .. n
    BY <1>1
  <2> HIDE DEF n
  <2>4. F[1] = s[1]
    BY <2>1, <2>3
  <2>5. ASSUME NEW k \in 1 .. n - 1 PROVE F[k + 1] = F[k] \o s[k + 1]
    <3>1. F[k + 1] = F[(k + 1) - 1] \o s[k + 1]
      BY <2>1, <2>2
    <3> QED BY <2>2, <3>1
  <2> QED BY <2>4, <2>5
<1>8. \A k \in 1 .. n : F[k] \in Seq(T)
  <2> DEFINE U == {k \in 1 .. n : F[k] \in Seq(T)}
  <2>1. 1 \in U
    BY <1>1, <1>7
  <2>2. \A m \in 1 .. n - 1 : m \in U => m + 1 \in U
    <3> SUFFICES ASSUME NEW m \in 1 .. n - 1, m \in U PROVE m + 1 \in U
      OBVIOUS
    <3>1. F[m] \in Seq(T) /\ s[m + 1] \in Seq(T)
      BY <1>1
    <3>2. F[m] \o s[m + 1] \in Seq(T)
      BY <3>1
    <3>3. F[m + 1] = F[m] \o s[m + 1]
      BY <1>7
    <3>4. m + 1 \in 1 .. n
      BY <1>1
    <3>5. F[m + 1] \in Seq(T)
      BY <3>2, <3>3
    <3> QED BY <3>4, <3>5
  <2> HIDE DEF U
  <2>3. 1 .. n \subseteq U
    BY <1>1, <2>1, <2>2, UpTo
  <2> QED BY <2>3 DEF U
<1>9. F \in [1 .. n -> Seq(T)]
  BY <1>5, <1>8
<1> QED BY <1>6, <1>7, <1>9

LEMMA Concatenated ==
  ASSUME NEW T, NEW a \in Seq(T), NEW b \in Seq(T)
  PROVE  /\ a \o b \in Seq(T) /\ Len(a \o b) = Len(a) + Len(b)
         /\ \A i \in 1 .. Len(a) : (a \o b)[i] = a[i]
         /\ \A i \in 1 .. Len(b) : (a \o b)[Len(a) + i] = b[i]
OBVIOUS

\* Where the parts are in the whole, and that nothing else is in it.
Positions(s, whole, pos) ==
    /\ pos \in [0 .. Len(s) -> Nat] /\ pos[0] = 0 /\ Len(whole) = pos[Len(s)]
    /\ \A k \in 1 .. Len(s) :
          /\ pos[k] = pos[k - 1] + Len(s[k]) /\ pos[k] <= pos[Len(s)]
          /\ \A i \in 1 .. Len(s[k]) : whole[pos[k - 1] + i] = s[k][i]
    /\ \A j \in 1 .. pos[Len(s)] :
          \E k \in 1 .. Len(s) : \E i \in 1 .. Len(s[k]) : j = pos[k - 1] + i

LEMMA Flattening ==
  ASSUME NEW T, NEW s \in Seq(Seq(T)), s # <<>>
  PROVE  FlattenSeq(s) \in Seq(T) /\ \E pos : Positions(s, FlattenSeq(s), pos)
<1>1. PICK f \in [1 .. Len(s) -> Seq(T)] :
            /\ f[1] = s[1]
            /\ \A k \in 1 .. Len(s) - 1 : f[k + 1] = f[k] \o s[k + 1]
            /\ FlattenSeq(s) = f[Len(s)]
  BY Flattened
<1> DEFINE n == Len(s)
           pos == [k \in 0 .. n |-> IF k = 0 THEN 0 ELSE Len(f[k])]
           Part(m, k) == /\ pos[k] <= pos[m]
                         /\ \A i \in 1 .. Len(s[k]) : f[m][pos[k - 1] + i] = s[k][i]
           Covered(m) == \A j \in 1 .. pos[m] : \E k \in 1 .. m :
                            \E i \in 1 .. Len(s[k]) : j = pos[k - 1] + i
           S == {m \in 1 .. n : (\A k \in 1 .. m : Part(m, k)) /\ Covered(m)}
<1>2. n \in Nat /\ n > 0 /\ \A k \in 1 .. n : s[k] \in Seq(T) /\ Len(s[k]) \in Nat
  OBVIOUS
<1>3. /\ pos \in [0 .. n -> Nat] /\ pos[0] = 0
      /\ \A k \in 1 .. n : pos[k] = Len(f[k]) /\ f[k] \in Seq(T)
  <2>1. \A k \in 1 .. n : f[k] \in Seq(T) /\ Len(f[k]) \in Nat
    BY <1>2
  <2>2. \A k \in 0 .. n : k = 0 \/ k \in 1 .. n
    BY <1>2
  <2>3. 0 \in 0 .. n /\ \A k \in 1 .. n : k \in 0 .. n /\ k # 0
    BY <1>2
  <2> HIDE DEF n
  <2> QED BY <2>1, <2>2, <2>3
<1>4. pos[1] = Len(s[1])
  <2> HIDE DEF pos
  <2> QED BY <1>1, <1>2, <1>3
<1>5. ASSUME NEW m \in 1 .. n - 1
      PROVE  /\ pos[m + 1] = pos[m] + Len(s[m + 1])
             /\ \A i \in 1 .. pos[m] : f[m + 1][i] = f[m][i]
             /\ \A i \in 1 .. Len(s[m + 1]) : f[m + 1][pos[m] + i] = s[m + 1][i]
  <2>1. /\ f[m] \in Seq(T) /\ s[m + 1] \in Seq(T) /\ f[m + 1] = f[m] \o s[m + 1]
        /\ pos[m] = Len(f[m]) /\ pos[m + 1] = Len(f[m + 1])
    <3>1. m \in 1 .. n /\ m + 1 \in 1 .. n
      BY <1>2
    <3> HIDE DEF pos
    <3> QED BY <1>1, <1>2, <1>3, <3>1
  <2> DEFINE a == f[m]
             b == s[m + 1]
  <2>2. a \in Seq(T) /\ b \in Seq(T) /\ f[m + 1] = a \o b /\ pos[m] = Len(a)
    BY <2>1
  <2>3. pos[m + 1] = Len(a \o b)
    BY <2>1
  <2> HIDE DEF pos, n, a, b
  <2>4. /\ Len(a \o b) = Len(a) + Len(b)
        /\ \A i \in 1 .. Len(a) : (a \o b)[i] = a[i]
        /\ \A i \in 1 .. Len(b) : (a \o b)[Len(a) + i] = b[i]
    BY <2>2, Concatenated
  <2>5. /\ pos[m + 1] = pos[m] + Len(b)
        /\ \A i \in 1 .. pos[m] : f[m + 1][i] = a[i]
        /\ \A i \in 1 .. Len(b) : f[m + 1][pos[m] + i] = b[i]
    BY <2>2, <2>3, <2>4
  <2> QED BY <2>5 DEF a, b
<1>6. \A k \in 1 .. n : pos[k] = pos[k - 1] + Len(s[k])
  <2> SUFFICES ASSUME NEW k \in 1 .. n PROVE pos[k] = pos[k - 1] + Len(s[k])
    OBVIOUS
  <2> HIDE DEF pos
  <2>1. CASE k = 1
    BY <1>2, <1>3, <1>4, <2>1
  <2>2. CASE k # 1
    <3>1. k - 1 \in 1 .. n - 1 /\ (k - 1) + 1 = k
      BY <1>2, <2>2
    <3> QED BY <1>5, <3>1
  <2> QED BY <2>1, <2>2
<1> HIDE DEF pos
<1>7. 1 \in S
  <2>1. Part(1, 1)
    <3>1. pos[1 - 1] = 0 /\ pos[1] \in Nat
      BY <1>2, <1>3
    <3>2. \A i \in 1 .. Len(s[1]) : f[1][0 + i] = s[1][i]
      BY <1>1, <1>2
    <3> QED BY <3>1, <3>2
  <2>2. Covered(1)
    BY <1>1, <1>2, <1>3, <1>4
  <2> QED BY <1>2, <2>1, <2>2
<1>8. ASSUME NEW m \in 1 .. n - 1, m \in S PROVE m + 1 \in S
  <2>1. (\A k \in 1 .. m : Part(m, k)) /\ Covered(m)
    BY <1>8
  <2>2. /\ pos[m] \in Nat /\ pos[m + 1] \in Nat /\ pos[m] <= pos[m + 1]
        /\ pos[m + 1] = pos[m] + Len(s[m + 1]) /\ Len(s[m + 1]) \in Nat
        /\ m \in Nat /\ m + 1 \in 1 .. n
    BY <1>2, <1>3, <1>5
  <2>3. ASSUME NEW k \in 1 .. m PROVE Part(m + 1, k)
    <3>1. /\ pos[k] <= pos[m]
          /\ \A i \in 1 .. Len(s[k]) : f[m][pos[k - 1] + i] = s[k][i]
      BY <2>1
    <3>2. pos[k] = pos[k - 1] + Len(s[k]) /\ pos[k - 1] \in Nat /\ pos[k] \in Nat /\ Len(s[k]) \in Nat
      <4>1. k \in 1 .. n /\ k \in 0 .. n /\ k - 1 \in 0 .. n
        BY <1>2
      <4> HIDE DEF n
      <4> QED BY <1>2, <1>3, <1>6, <4>1
    <3>3. ASSUME NEW i \in 1 .. Len(s[k]) PROVE pos[k - 1] + i \in 1 .. pos[m]
      <4>1. pos[k] <= pos[m] /\ pos[m] \in Nat
        BY <3>1, <2>2
      <4> HIDE DEF n
      <4>2. i \in Nat /\ 1 <= i /\ i <= Len(s[k])
        BY <3>2
      <4> QED BY ONLY <3>2, <4>1, <4>2, PlaceWithin
    <3>4. \A i \in 1 .. pos[m] : f[m + 1][i] = f[m][i]
      BY <1>5
    <3>5. \A i \in 1 .. Len(s[k]) : f[m + 1][pos[k - 1] + i] = s[k][i]
      BY <3>1, <3>3, <3>4
    <3>6. pos[k] <= pos[m + 1]
      BY <3>1, <3>2, <2>2
    <3> QED BY <3>5, <3>6
  <2>4. Part(m + 1, m + 1)
    <3>1. (m + 1) - 1 = m
      BY <2>2
    <3> QED BY <1>5, <2>2, <3>1
  <2>5. Covered(m + 1)
    <3> SUFFICES ASSUME NEW j \in 1 .. pos[m + 1]
                 PROVE  \E k \in 1 .. m + 1 : \E i \in 1 .. Len(s[k]) : j = pos[k - 1] + i
      OBVIOUS
    <3>1. CASE j <= pos[m]
      <4>1. j \in 1 .. pos[m]
        BY <2>2, <3>1
      <4>2. PICK k \in 1 .. m : \E i \in 1 .. Len(s[k]) : j = pos[k - 1] + i
        BY <2>1, <4>1
      <4>3. k \in 1 .. m + 1
        BY <2>2
      <4> QED BY <4>2, <4>3
    <3>2. CASE j > pos[m]
      <4>1. j - pos[m] \in 1 .. Len(s[m + 1]) /\ j = pos[(m + 1) - 1] + (j - pos[m])
        BY <2>2, <3>2
      <4> QED BY <2>2, <4>1
    <3> QED BY <2>2, <3>1, <3>2
  <2>6. \A k \in 1 .. m + 1 : Part(m + 1, k)
    <3> HIDE DEF Part
    <3> QED BY <2>2, <2>3, <2>4
  <2> HIDE DEF Part, Covered
  <2> QED BY <2>2, <2>5, <2>6
<1>9. n \in S
  <2>1. 1 .. n \subseteq S
    <3> HIDE DEF S
    <3> QED BY <1>2, <1>7, <1>8, UpTo
  <2>2. n \in 1 .. n
    BY <1>2
  <2> HIDE DEF S
  <2> QED BY <2>1, <2>2
<1>10. /\ FlattenSeq(s) = f[n] /\ f[n] \in Seq(T) /\ Len(f[n]) = pos[n]
       /\ \A k \in 1 .. n : Part(n, k)
       /\ Covered(n)
  <2>1. n \in 1 .. n
    BY <1>2
  <2> HIDE DEF n, Part, Covered
  <2> QED BY <1>1, <1>3, <1>9, <2>1 DEF n
<1>11. /\ pos[0] = 0
       /\ FlattenSeq(s) \in Seq(T) /\ Len(FlattenSeq(s)) = pos[Len(s)]
       /\ \A k \in 1 .. Len(s) :
             /\ pos[k] = pos[k - 1] + Len(s[k]) /\ pos[k] <= pos[Len(s)]
             /\ \A i \in 1 .. Len(s[k]) : FlattenSeq(s)[pos[k - 1] + i] = s[k][i]
       /\ \A j \in 1 .. pos[Len(s)] :
             \E k \in 1 .. Len(s) : \E i \in 1 .. Len(s[k]) : j = pos[k - 1] + i
  BY <1>3, <1>6, <1>10
<1>12. pos \in [0 .. Len(s) -> Nat]
  BY <1>3
<1>13. Positions(s, FlattenSeq(s), pos)
  BY <1>11, <1>12 DEF Positions
<1> HIDE DEF pos
<1> QED BY <1>11, <1>13

-----------------------------------------------------------------------------
(* Layouts, fields and messages.                                           *)

Number == {"u32", "u64", "f32"}
Kind   == {"bool", "str"} \cup Number

\* Only an ack has a truth value, as its first field.
LEMMA Layouts ==
  /\ DOMAIN Layout = {"Hello", "HelloAck", "Ping", "Pong", "PlayerState", "NotifyPlayerState",
                      "NotifyPlayerJoined", "NotifyPlayerLeft"}
  /\ Layout.HelloAck = <<"bool", "u32", "str">>
  /\ \A type \in DOMAIN Layout :
        /\ Layout[type] \in Seq(Kind) /\ Layout[type] # <<>>
        /\ type # "HelloAck" => Layout[type] \in Seq(Kind \ {"bool"})
<1> DEFINE K == Kind \ {"bool"}
<1>1. /\ DOMAIN Layout = {"Hello", "HelloAck", "Ping", "Pong", "PlayerState", "NotifyPlayerState",
                          "NotifyPlayerJoined", "NotifyPlayerLeft"}
      /\ Layout.HelloAck = <<"bool", "u32", "str">>
      /\ Layout.Hello = <<"u32", "str">> /\ Layout.NotifyPlayerJoined = <<"u32", "str">>
      /\ Layout.Ping = <<"u64">> /\ Layout.Pong = <<"u64">>
      /\ Layout.NotifyPlayerLeft = <<"u32">>
      /\ Layout.PlayerState = <<"u64">> \o Vec3 \o <<"f32">>
      /\ Layout.NotifyPlayerState = <<"u32", "u64">> \o Vec3 \o <<"f32">>
  BY DEF Layout
<1>2. /\ <<"u64">> \in Seq(K) /\ <<"u32">> \in Seq(K) /\ <<"f32">> \in Seq(K)
      /\ <<"u32", "str">> \in Seq(K) /\ <<"u32", "u64">> \in Seq(K) /\ Vec3 \in Seq(K)
  BY DEF Kind, Number, Vec3
<1>3. <<"bool", "u32", "str">> \in Seq(Kind)
  BY DEF Kind, Number
<1>4. \A x \in Seq(K) : x \in Seq(Kind)
  OBVIOUS
<1>5. Len(<<"u64">>) = 1 /\ Len(<<"u32", "u64">>) = 2 /\ Len(<<"f32">>) = 1
  OBVIOUS
<1> HIDE DEF K
<1>6. /\ <<"u64">> \o Vec3 \o <<"f32">> \in Seq(K)
      /\ <<"u32", "u64">> \o Vec3 \o <<"f32">> \in Seq(K)
  <2>1. <<"u64">> \o Vec3 \in Seq(K) /\ <<"u32", "u64">> \o Vec3 \in Seq(K)
    BY <1>2, Concatenated
  <2> QED BY <1>2, <2>1, Concatenated
<1>7. \A x, y \in Seq(K) : Len(y) = 1 => x \o y # <<>>
  <2> SUFFICES ASSUME NEW x \in Seq(K), NEW y \in Seq(K), Len(y) = 1 PROVE x \o y # <<>>
    OBVIOUS
  <2>1. Len(x \o y) = Len(x) + Len(y)
    BY Concatenated
  <2>2. Len(x) \in Nat
    OBVIOUS
  <2>3. Len(x \o y) # 0
    BY <2>1, <2>2
  <2> QED BY <2>3
<1>8. /\ <<"u64">> \o Vec3 \o <<"f32">> # <<>>
      /\ <<"u32", "u64">> \o Vec3 \o <<"f32">> # <<>>
  <2>1. <<"u64">> \o Vec3 \in Seq(K) /\ <<"u32", "u64">> \o Vec3 \in Seq(K)
    BY <1>2, Concatenated
  <2> QED BY <1>2, <1>5, <1>7, <2>1
<1>9. ASSUME NEW type \in DOMAIN Layout, type # "HelloAck"
      PROVE  Layout[type] \in Seq(K) /\ Layout[type] # <<>>
  <2>1. CASE type \in {"PlayerState", "NotifyPlayerState"}
    BY <1>1, <1>6, <1>8, <2>1
  <2>2. CASE type \in {"Hello", "Ping", "Pong", "NotifyPlayerJoined", "NotifyPlayerLeft"}
    <3>1. <<"u32", "str">> # <<>> /\ <<"u64">> # <<>> /\ <<"u32">> # <<>>
      OBVIOUS
    <3> QED BY <1>1, <1>2, <2>2, <3>1
  <2> QED BY <1>1, <1>9, <2>1, <2>2
<1>10. Layout.HelloAck \in Seq(Kind) /\ Layout.HelloAck # <<>>
  BY <1>1, <1>3
<1>11. ASSUME NEW type \in DOMAIN Layout
       PROVE  /\ Layout[type] \in Seq(Kind) /\ Layout[type] # <<>>
              /\ type # "HelloAck" => Layout[type] \in Seq(K)
  BY <1>4, <1>9, <1>10
<1> QED BY <1>1, <1>11 DEF K

LEMMA TruthValues ==
  ASSUME NEW type \in DOMAIN Layout, NEW k \in DOMAIN Layout[type], Layout[type][k] = "bool"
  PROVE  type = "HelloAck" /\ k = 1
<1>1. CASE type = "HelloAck"
  <2>1. Layout[type] = <<"bool", "u32", "str">>
    BY <1>1, Layouts
  <2>2. k \in 1 .. 3 /\ <<"bool", "u32", "str">>[k] = "bool"
    BY <2>1
  <2> QED BY <1>1, <2>2
<1>2. CASE type # "HelloAck"
  <2>1. Layout[type] \in Seq(Kind \ {"bool"})
    BY <1>2, Layouts
  <2> QED BY <2>1
<1> QED BY <1>1, <1>2

LEMMA TypeBytes ==
  /\ DOMAIN Types = 1 .. 8
  /\ \A n \in DOMAIN Types : Types[n] \in DOMAIN Layout /\ TypeByte(Types[n]) = n
  /\ \A type \in DOMAIN Layout : TypeByte(type) \in 1 .. 8 /\ Types[TypeByte(type)] = type
<1>1. DOMAIN Types = 1 .. 8
  BY DEF Types
<1>2. \A n \in 1 .. 8 : Types[n] \in DOMAIN Layout
  BY Layouts DEF Types
<1>3. \A n, m \in 1 .. 8 : Types[n] = Types[m] => n = m
  BY DEF Types
<1>4. ASSUME NEW type \in DOMAIN Layout PROVE \E n \in 1 .. 8 : Types[n] = type
  BY Layouts DEF Types
<1>5. ASSUME NEW type \in DOMAIN Layout PROVE TypeByte(type) \in 1 .. 8 /\ Types[TypeByte(type)] = type
  BY <1>1, <1>4 DEF TypeByte
<1>6. ASSUME NEW n \in 1 .. 8 PROVE TypeByte(Types[n]) = n
  BY <1>2, <1>3, <1>5
<1> QED BY <1>1, <1>2, <1>5, <1>6

-----------------------------------------------------------------------------
(* What is written.                                                        *)

LEMMA Words16 ==
  /\ WordSize \in Nat
  /\ \A l \in Nat : l < WordSize => l \in Word /\ l % WordSize = l
  /\ \A l \in Nat : l % WordSize \in Word
  /\ \A l \in Word : l \in Nat /\ l < WordSize
<1> DEFINE n == WordSize
<1>1. n \in Nat /\ n > 0
  BY DEF WordSize
<1>2. Word = 0 .. n - 1
  BY DEF Word
<1> HIDE DEF n
<1>3. \A l \in Nat : l < n => l \in 0 .. n - 1 /\ l % n = l
  BY <1>1
<1>4. \A l \in Nat : l % n \in 0 .. n - 1
  BY <1>1
<1>5. \A l \in 0 .. n - 1 : l \in Nat /\ l < n
  BY <1>1
<1> QED BY <1>1, <1>2, <1>3, <1>4, <1>5 DEF n

\* The bytes of one field, as the bytes of a word.
LEMMA WordBytes ==
  ASSUME NEW w \in Word
  PROVE  /\ U16(w) \in Seq(Byte) /\ Len(U16(w)) = 2
         /\ U16(w)[1] = w % 256 /\ U16(w)[2] = (w \div 256) % 256
         /\ w % 256 \in Byte /\ (w \div 256) % 256 \in Byte
         /\ (w % 256) + 256 * ((w \div 256) % 256) = w
<1>1. /\ w % 256 \in Byte /\ (w \div 256) % 256 \in Byte
      /\ (w % 256) + 256 * ((w \div 256) % 256) = w
  <2>1. w \in Nat /\ w < 65536
    BY Words16 DEF WordSize
  <2>2. w \div 256 \in Nat /\ w % 256 \in 0 .. 255 /\ w = 256 * (w \div 256) + (w % 256)
    BY <2>1
  <2> DEFINE h == w \div 256
             l == w % 256
  <2>3. h \in Nat /\ l \in 0 .. 255 /\ w = 256 * h + l
    BY <2>2
  <2> HIDE DEF h, l
  <2>4. h < 256
    BY <2>1, <2>3
  <2>5. h % 256 = h
    BY <2>3, <2>4
  <2>6. l \in Byte /\ h % 256 \in Byte /\ l + 256 * (h % 256) = w
    BY <2>3, <2>4, <2>5 DEF Byte
  <2> QED BY <2>6 DEF h, l
<1>2. U16(w) = <<w % 256, (w \div 256) % 256>>
  BY DEF U16
<1> DEFINE a == w % 256
           b == (w \div 256) % 256
<1> HIDE DEF a, b
<1>3. a \in Byte /\ b \in Byte => <<a, b>> \in Seq(Byte) /\ Len(<<a, b>>) = 2 /\ <<a, b>>[1] = a /\ <<a, b>>[2] = b
  OBVIOUS
<1> QED BY <1>1, <1>2, <1>3 DEF a, b

LEMMA TwoWords ==
  ASSUME NEW x, x[1] \in Word, x[2] \in Word
  PROVE  /\ U32(x) \in Seq(Byte) /\ Len(U32(x)) = 4
         /\ U32(x)[1] = x[1] % 256 /\ U32(x)[2] = (x[1] \div 256) % 256
         /\ U32(x)[3] = x[2] % 256 /\ U32(x)[4] = (x[2] \div 256) % 256
<1> DEFINE a == U16(x[1])
           b == U16(x[2])
<1>1. /\ a \in Seq(Byte) /\ Len(a) = 2 /\ b \in Seq(Byte) /\ Len(b) = 2
      /\ a[1] = x[1] % 256 /\ a[2] = (x[1] \div 256) % 256
      /\ b[1] = x[2] % 256 /\ b[2] = (x[2] \div 256) % 256
  BY WordBytes
<1>2. U32(x) = a \o b
  BY DEF U32
<1> HIDE DEF a, b
<1>3. /\ a \o b \in Seq(Byte) /\ Len(a \o b) = Len(a) + Len(b)
      /\ \A i \in 1 .. Len(a) : (a \o b)[i] = a[i]
      /\ \A i \in 1 .. Len(b) : (a \o b)[Len(a) + i] = b[i]
  <2>1. a \in Seq(Byte) /\ b \in Seq(Byte)
    BY <1>1
  <2> QED BY <2>1, Concatenated
<1>4. /\ Len(a \o b) = 4
      /\ (a \o b)[1] = a[1] /\ (a \o b)[2] = a[2] /\ (a \o b)[3] = b[1] /\ (a \o b)[4] = b[2]
  <2>1. \A i \in 1 .. 2 : (a \o b)[i] = a[i] /\ (a \o b)[2 + i] = b[i]
    BY <1>1, <1>3
  <2>2. 1 \in 1 .. 2 /\ 2 \in 1 .. 2 /\ 2 + 1 = 3 /\ 2 + 2 = 4
    OBVIOUS
  <2> QED BY <1>1, <1>3, <2>1, <2>2
<1> QED BY <1>1, <1>2, <1>3, <1>4

LEMMA FourWords ==
  ASSUME NEW x, x[1] \in Word, x[2] \in Word, x[3] \in Word, x[4] \in Word
  PROVE  /\ U64(x) \in Seq(Byte) /\ Len(U64(x)) = 8
         /\ U64(x)[1] = x[1] % 256 /\ U64(x)[2] = (x[1] \div 256) % 256
         /\ U64(x)[3] = x[2] % 256 /\ U64(x)[4] = (x[2] \div 256) % 256
         /\ U64(x)[5] = x[3] % 256 /\ U64(x)[6] = (x[3] \div 256) % 256
         /\ U64(x)[7] = x[4] % 256 /\ U64(x)[8] = (x[4] \div 256) % 256
<1> DEFINE y == <<x[3], x[4]>>
           a == U32(x)
           b == U32(y)
<1>1. y[1] = x[3] /\ y[2] = x[4]
  OBVIOUS
<1> HIDE DEF y
<1>2. /\ a \in Seq(Byte) /\ Len(a) = 4
      /\ a[1] = x[1] % 256 /\ a[2] = (x[1] \div 256) % 256
      /\ a[3] = x[2] % 256 /\ a[4] = (x[2] \div 256) % 256
  BY TwoWords
<1>3. /\ b \in Seq(Byte) /\ Len(b) = 4
      /\ b[1] = x[3] % 256 /\ b[2] = (x[3] \div 256) % 256
      /\ b[3] = x[4] % 256 /\ b[4] = (x[4] \div 256) % 256
  BY <1>1, TwoWords
<1>4. U64(x) = a \o b
  BY DEF U64, y
<1> HIDE DEF a, b
<1>5. /\ a \o b \in Seq(Byte) /\ Len(a \o b) = Len(a) + Len(b)
      /\ \A i \in 1 .. Len(a) : (a \o b)[i] = a[i]
      /\ \A i \in 1 .. Len(b) : (a \o b)[Len(a) + i] = b[i]
  <2>1. a \in Seq(Byte) /\ b \in Seq(Byte)
    BY <1>2, <1>3
  <2> QED BY <2>1, Concatenated
<1>6. Len(a \o b) = 8 /\ \A i \in 1 .. 4 : (a \o b)[i] = a[i] /\ (a \o b)[4 + i] = b[i]
  BY <1>2, <1>3, <1>5
<1>7. /\ (a \o b)[1] = a[1] /\ (a \o b)[2] = a[2] /\ (a \o b)[3] = a[3] /\ (a \o b)[4] = a[4]
      /\ (a \o b)[5] = b[1] /\ (a \o b)[6] = b[2] /\ (a \o b)[7] = b[3] /\ (a \o b)[8] = b[4]
  <2>1. /\ 1 \in 1 .. 4 /\ 2 \in 1 .. 4 /\ 3 \in 1 .. 4 /\ 4 \in 1 .. 4
        /\ 4 + 1 = 5 /\ 4 + 2 = 6 /\ 4 + 3 = 7 /\ 4 + 4 = 8
    OBVIOUS
  <2>2. (a \o b)[4 + 1] = b[1] /\ (a \o b)[4 + 2] = b[2]
    BY <1>6, <2>1
  <2>3. (a \o b)[4 + 3] = b[3] /\ (a \o b)[4 + 4] = b[4]
    BY <1>6, <2>1
  <2>4. /\ (a \o b)[1] = a[1] /\ (a \o b)[2] = a[2]
        /\ (a \o b)[3] = a[3] /\ (a \o b)[4] = a[4]
    BY <1>6, <2>1
  <2> QED BY ONLY <2>1, <2>2, <2>3, <2>4
<1> QED BY <1>2, <1>3, <1>4, <1>5, <1>6, <1>7

LEMMA NumberBytes ==
  ASSUME NEW kind \in Number, NEW x \in Values(kind)
  PROVE  /\ Words[kind] \in {2, 4} /\ x \in [1 .. Words[kind] -> Word]
         /\ Written(kind, x) \in Seq(Byte) /\ Len(Written(kind, x)) = 2 * Words[kind]
         /\ \A k \in 1 .. Words[kind] :
               /\ Written(kind, x)[2 * k - 1] = x[k] % 256
               /\ Written(kind, x)[2 * k] = (x[k] \div 256) % 256
<1>1. /\ Words[kind] = IF kind = "u64" THEN 4 ELSE 2
      /\ Values(kind) = [1 .. Words[kind] -> Word]
      /\ Written(kind, x) = IF kind = "u64" THEN U64(x) ELSE U32(x)
  BY DEF Number, Words, Values, Written
<1>2. CASE kind = "u64"
  <2>1. x[1] \in Word /\ x[2] \in Word /\ x[3] \in Word /\ x[4] \in Word
    BY <1>1, <1>2
  <2>2. 1 .. 4 = {1, 2, 3, 4}
    OBVIOUS
  <2> QED BY <1>1, <1>2, <2>1, <2>2, FourWords
<1>3. CASE kind # "u64"
  <2>1. x[1] \in Word /\ x[2] \in Word
    BY <1>1, <1>3
  <2>2. 1 .. 2 = {1, 2}
    OBVIOUS
  <2> QED BY <1>1, <1>3, <2>1, <2>2, TwoWords
<1> QED BY <1>2, <1>3

LEMMA StringBytes ==
  ASSUME NEW x \in Seq(Byte)
  PROVE  /\ Written("str", x) \in Seq(Byte) /\ Len(Written("str", x)) = 2 + Len(x)
         /\ Len(x) < WordSize => /\ Written("str", x)[1] = Len(x) % 256
                              /\ Written("str", x)[2] = (Len(x) \div 256) % 256
         /\ \A i \in 1 .. Len(x) : Written("str", x)[2 + i] = x[i]
<1> DEFINE n == Len(x) % WordSize
           a == U16(n)
<1>1. n \in Word /\ Len(x) \in Nat /\ (Len(x) < WordSize => n = Len(x))
  <2>1. Len(x) \in Nat
    OBVIOUS
  <2> DEFINE l == Len(x)
  <2>2. l \in Nat
    BY <2>1
  <2> HIDE DEF l
  <2>3. l % WordSize \in Word /\ (l < WordSize => l % WordSize = l)
    BY <2>2, Words16, Zenon
  <2> QED BY <2>1, <2>3 DEF l
<1>2. Written("str", x) = a \o x
  BY DEF Written
<1>3. /\ a \in Seq(Byte) /\ Len(a) = 2
      /\ a[1] = n % 256 /\ a[2] = (n \div 256) % 256
  <2> HIDE DEF n
  <2> QED BY <1>1, WordBytes
<1> HIDE DEF a, n
<1>4. /\ a \o x \in Seq(Byte) /\ Len(a \o x) = Len(a) + Len(x)
      /\ \A i \in 1 .. Len(a) : (a \o x)[i] = a[i]
      /\ \A i \in 1 .. Len(x) : (a \o x)[Len(a) + i] = x[i]
  <2>1. a \in Seq(Byte) /\ x \in Seq(Byte)
    BY <1>3
  <2> QED BY <2>1, Concatenated
<1>5. (a \o x)[1] = a[1] /\ (a \o x)[2] = a[2]
  <2>1. 1 \in 1 .. Len(a) /\ 2 \in 1 .. Len(a)
    BY <1>3
  <2> QED BY <1>4, <2>1
<1> DEFINE b == a \o x
<1>6. b \in Seq(Byte) /\ Len(b) = 2 + Len(x) /\ \A i \in 1 .. Len(x) : b[2 + i] = x[i]
  BY <1>3, <1>4
<1>7. b[1] = n % 256 /\ b[2] = (n \div 256) % 256
  BY <1>3, <1>5
<1>8. Written("str", x) = b
  BY <1>2
<1> HIDE DEF b
<1> QED BY <1>1, <1>6, <1>7, <1>8

\* The bytes in front of a string of n bytes.
HasLength(w, n) ==
    Len(w) = 2 + n /\ w[1] = n % 256 /\ w[2] = (n \div 256) % 256

LEMMA LengthBytes ==
  ASSUME NEW x \in Seq(Byte), Len(x) < WordSize
  PROVE  HasLength(Written("str", x), Len(x))
<1>1. Len(Written("str", x)) = 2 + Len(x)
  BY StringBytes
<1>2. Written("str", x)[1] = Len(x) % 256 /\ Written("str", x)[2] = (Len(x) \div 256) % 256
  BY StringBytes
<1> QED BY <1>1, <1>2 DEF HasLength

LEMMA TruthBytes ==
  ASSUME NEW x \in BOOLEAN
  PROVE  /\ Written("bool", x) \in Seq(Byte) /\ Len(Written("bool", x)) = 1
         /\ Written("bool", x)[1] = IF x THEN 1 ELSE 0
BY DEF Written, Byte

LEMMA WrittenTyped ==
  ASSUME NEW kind \in Kind, NEW x \in Values(kind)
  PROVE  Written(kind, x) \in Seq(Byte)
<1>1. CASE kind = "bool"
  <2>1. x \in BOOLEAN
    BY <1>1 DEF Values
  <2> QED BY <1>1, <2>1, TruthBytes
<1>2. CASE kind = "str"
  <2>1. x \in Seq(Byte)
    BY <1>2 DEF Values
  <2> QED BY <1>2, <2>1, StringBytes
<1>3. CASE kind \in Number
  BY <1>3, NumberBytes
<1> QED BY <1>1, <1>2, <1>3 DEF Kind

-----------------------------------------------------------------------------
(* What is read.                                                           *)

Reader == [data : Seq(Byte), at : Nat, failed : BOOLEAN]

\* The bytes w are what the reader comes to next.
Ahead(r, w) ==
    /\ ~r.failed /\ r.at + Len(w) <= Len(r.data)
    /\ \A i \in 1 .. Len(w) : r.data[r.at + i] = w[i]

\* After a failure nothing more is read.
LEMMA FailureSticks ==
  ASSUME NEW kind, NEW r, r.failed
  PROVE  Read(kind, r).r.failed
<1>1. \A n : ~Available(r, n)
  BY DEF Available
<1>2. Failed(r).failed
  BY DEF Failed
<1>3. ReadBool(r).r = Failed(r) /\ \A n : ReadWords(r, n).r = Failed(r)
  BY <1>1 DEF ReadBool, ReadWords
<1>4. ReadStr(r).r.failed
  BY <1>2, <1>3 DEF ReadStr, Failed
<1> QED BY <1>2, <1>3, <1>4 DEF Read

LEMMA PastIs ==
  ASSUME NEW r \in Reader, NEW n \in Nat
  PROVE  /\ Past(r, n) = [data |-> r.data, at |-> r.at + n, failed |-> r.failed]
         /\ Past(r, n) \in Reader
<1>1. Past(r, n) = [data |-> r.data, at |-> r.at + n, failed |-> r.failed]
  BY DEF Past, Reader
<1> QED BY <1>1 DEF Reader

LEMMA PastTwice ==
  ASSUME NEW r \in Reader, NEW m \in Nat, NEW n \in Nat
  PROVE  Past(Past(r, m), n) = Past(r, m + n)
<1> DEFINE q == Past(r, m)
<1>1. q \in Reader /\ q.data = r.data /\ q.at = r.at + m /\ q.failed = r.failed
  BY PastIs
<1> HIDE DEF q
<1>2. Past(q, n) = [data |-> q.data, at |-> q.at + n, failed |-> q.failed]
  BY <1>1, PastIs
<1>3. q.at + n = r.at + (m + n)
  BY <1>1 DEF Reader
<1>4. Past(r, m + n) = [data |-> r.data, at |-> r.at + (m + n), failed |-> r.failed]
  <2>1. m + n \in Nat
    OBVIOUS
  <2> QED BY <2>1, PastIs
<1>5. Past(q, n) = Past(r, m + n)
  BY <1>1, <1>2, <1>3, <1>4
<1> QED BY <1>5 DEF q

LEMMA WordRead ==
  ASSUME NEW w \in Word, NEW r, NEW k,
         r.data[r.at + 2 * k - 1] = w % 256, r.data[r.at + 2 * k] = (w \div 256) % 256
  PROVE  WordAt(r, k) = w
BY WordBytes DEF WordAt

LEMMA NumberReadsBack ==
  ASSUME NEW kind \in Number, NEW x \in Values(kind), NEW r \in Reader,
         Ahead(r, Written(kind, x))
  PROVE  Read(kind, r) = [r |-> Past(r, Len(Written(kind, x))), value |-> x]
<1> DEFINE n == Words[kind]
           w == Written(kind, x)
<1>1. /\ n \in {2, 4} /\ x \in [1 .. n -> Word] /\ Len(w) = 2 * n
      /\ \A k \in 1 .. n : w[2 * k - 1] = x[k] % 256 /\ w[2 * k] = (x[k] \div 256) % 256
  BY NumberBytes
<1>2. /\ ~r.failed /\ r.at + Len(w) <= Len(r.data)
      /\ \A i \in 1 .. Len(w) : r.data[r.at + i] = w[i]
  BY DEF Ahead
<1>3. r.at \in Nat /\ Len(r.data) \in Nat
  BY DEF Reader
<1>4. Read(kind, r) = ReadWords(r, n)
  BY DEF Read, Number
<1> HIDE DEF n, w
<1>5. Available(r, 2 * n)
  <2>1. n \in Nat /\ r.at + 2 * n <= Len(r.data)
    BY <1>1, <1>2
  <2>2. Len(r.data) - r.at >= 2 * n
    BY ONLY <1>3, <2>1
  <2> QED BY <1>2, <2>2 DEF Available
<1>6. ASSUME NEW k \in 1 .. n PROVE WordAt(r, k) = x[k]
  <2>1. 2 * k - 1 \in 1 .. Len(w) /\ 2 * k \in 1 .. Len(w) /\ r.at + 2 * k - 1 = r.at + (2 * k - 1)
    BY <1>1, <1>3
  <2>2. r.data[r.at + 2 * k - 1] = x[k] % 256 /\ r.data[r.at + 2 * k] = (x[k] \div 256) % 256
    BY <1>1, <1>2, <2>1
  <2>3. x[k] \in Word
    BY <1>1
  <2> QED BY <2>2, <2>3, WordRead
<1>7. [k \in 1 .. n |-> WordAt(r, k)] = x
  BY <1>1, <1>6
<1>8. ReadWords(r, n) = [r |-> Past(r, Len(w)), value |-> x]
  BY <1>1, <1>5, <1>7 DEF ReadWords
<1> QED BY <1>4, <1>8 DEF w

\* The length in front of a string is read first.
LEMMA LengthRead ==
  ASSUME NEW x \in Seq(Byte), Len(x) < WordSize, NEW r \in Reader, Ahead(r, Written("str", x))
  PROVE  ReadWords(r, 1).r = Past(r, 2) /\ ReadWords(r, 1).value[1] = Len(x)
<1> DEFINE w == Written("str", x)
<1>1. /\ Len(w) = 2 + Len(x) /\ Len(x) \in Word
      /\ w[1] = Len(x) % 256 /\ w[2] = (Len(x) \div 256) % 256
  <2> DEFINE l == Len(x)
  <2>1. l \in Nat /\ l < WordSize
    OBVIOUS
  <2> HIDE DEF l
  <2>2. l \in Word
    BY <2>1, Words16
  <2> QED BY <2>2, StringBytes DEF l
<1>2. /\ ~r.failed /\ r.at + Len(w) <= Len(r.data)
      /\ \A i \in 1 .. Len(w) : r.data[r.at + i] = w[i]
  BY DEF Ahead
<1>3. r.at \in Nat /\ Len(r.data) \in Nat /\ Len(x) \in Nat
  BY DEF Reader
<1> HIDE DEF w
<1>4. Available(r, 2 * 1)
  BY <1>1, <1>2, <1>3 DEF Available
<1>5. r.data[r.at + 1] = w[1] /\ r.data[r.at + 2] = w[2]
  BY <1>1, <1>2, <1>3
<1>6. WordAt(r, 1) = Len(x)
  <2>1. r.at + 2 * 1 - 1 = r.at + 1 /\ r.at + 2 * 1 = r.at + 2
    BY <1>3
  <2> QED BY <1>1, <1>5, <2>1, WordRead
<1>7. ReadWords(r, 1) = [r |-> Past(r, 2), value |-> [k \in 1 .. 1 |-> WordAt(r, k)]]
  BY <1>4 DEF ReadWords
<1> QED BY <1>6, <1>7

LEMMA StringReadsBack ==
  ASSUME NEW x \in Seq(Byte), Len(x) < WordSize, Len(x) <= kMaxStringSize,
         NEW r \in Reader, Ahead(r, Written("str", x))
  PROVE  Read("str", r) = [r |-> Past(r, Len(Written("str", x))), value |-> x]
<1> DEFINE size == ReadWords(r, 1)
           w == Written("str", x)
           y == SubSeq(r.data, size.r.at + 1, size.r.at + size.value[1])
<1>1. size.r = Past(r, 2) /\ size.value[1] = Len(x)
  BY LengthRead
<1>2. /\ Len(w) = 2 + Len(x) /\ \A i \in 1 .. Len(x) : w[2 + i] = x[i]
  BY StringBytes
<1>3. /\ ~r.failed /\ r.at + Len(w) <= Len(r.data)
      /\ \A i \in 1 .. Len(w) : r.data[r.at + i] = w[i]
  BY DEF Ahead
<1>4. /\ r.at \in Nat /\ Len(r.data) \in Nat /\ Len(x) \in Nat /\ r.data \in Seq(Byte)
      /\ r = [data |-> r.data, at |-> r.at, failed |-> r.failed]
  BY DEF Reader
<1>5. /\ Past(r, 2).at = r.at + 2 /\ Past(r, 2).data = r.data /\ Past(r, 2).failed = r.failed
      /\ Past(Past(r, 2), Len(x)) = Past(r, 2 + Len(x))
  <2>1. 2 \in Nat /\ Len(x) \in Nat
    BY <1>4
  <2>2. Past(r, 2) = [data |-> r.data, at |-> r.at + 2, failed |-> r.failed]
    BY <2>1, PastIs
  <2>3. Past(Past(r, 2), Len(x)) = Past(r, 2 + Len(x))
    BY <2>1, PastTwice
  <2> QED BY <2>2, <2>3
<1> HIDE DEF size, w
<1>6. Available(size.r, size.value[1]) /\ ~size.r.failed
  BY <1>1, <1>2, <1>3, <1>4, <1>5 DEF Available
<1>7. \A i \in 1 .. Len(x) : r.data[r.at + 2 + i] = x[i]
  <2> SUFFICES ASSUME NEW i \in 1 .. Len(x) PROVE r.data[r.at + 2 + i] = x[i]
    OBVIOUS
  <2>1. 2 + i \in 1 .. Len(w) /\ r.at + (2 + i) = r.at + 2 + i
    BY <1>2, <1>4
  <2> QED BY <1>2, <1>3, <2>1
<1>8. y = x
  <2> DEFINE a == r.at + 3
             b == r.at + 2 + Len(x)
  <2>1. y = SubSeq(r.data, a, b)
    <3>1. size.r.at = r.at + 2
      BY <1>1, <1>5
    <3>2. size.r.at + 1 = a /\ size.r.at + size.value[1] = b
      BY <1>1, <1>4, <3>1
    <3> HIDE DEF a, b
    <3> DEFINE p == size.r.at + 1
               q == size.r.at + size.value[1]
    <3>3. y = SubSeq(r.data, p, q) /\ p = a /\ q = b
      BY <3>2
    <3> HIDE DEF a, b, y, p, q
    <3> QED BY <3>3
  <2>2. a \in Int /\ b \in Int /\ (IF a <= b THEN b - a + 1 ELSE 0) = Len(x) /\ b - a + 1 = Len(x)
    <3>1. r.at \in Nat /\ Len(x) \in Nat
      BY <1>4
    <3> QED BY <3>1, SpanOf, Zenon
  <2>3. \A i \in a .. b : r.data[i] \in Byte
    BY <1>2, <1>3, <1>4
  <2>4. \A i \in 1 .. Len(x) : r.data[a + i - 1] = x[i]
    <3>1. \A i \in 1 .. Len(x) : a + i - 1 = r.at + 2 + i
      BY <1>4
    <3> HIDE DEF a
    <3> QED BY <1>7, <3>1
  <2> HIDE DEF a, b, y
  <2>5. /\ SubSeq(r.data, a, b) \in Seq(Byte) /\ Len(SubSeq(r.data, a, b)) = Len(x)
        /\ \A i \in 1 .. Len(x) : SubSeq(r.data, a, b)[i] = r.data[a + i - 1]
    BY <2>2, <2>3, SubSeqProperties
  <2>6. y \in Seq(Byte) /\ Len(y) = Len(x) /\ \A i \in 1 .. Len(x) : y[i] = x[i]
    BY <2>1, <2>4, <2>5
  <2> QED BY <2>6, SeqEqual
<1>9. ReadStr(r) = [r |-> Past(Past(r, 2), Len(x)), value |-> y]
  <2> HIDE DEF y
  <2>1. ReadStr(r) = [r |-> Past(size.r, size.value[1]), value |-> y]
    BY <1>1, <1>6 DEF ReadStr, size, y
  <2> QED BY <1>1, <2>1
<1>10. Read("str", r) = ReadStr(r)
  BY DEF Read
<1> HIDE DEF y
<1> QED BY <1>2, <1>5, <1>8, <1>9, <1>10 DEF w

\* A string over the limit is not read.
LEMMA TooLongToRead ==
  ASSUME NEW x \in Seq(Byte), Len(x) < WordSize, kMaxStringSize < Len(x),
         NEW r \in Reader, Ahead(r, Written("str", x))
  PROVE  Read("str", r).r.failed
<1>1. ReadWords(r, 1).r = Past(r, 2) /\ ReadWords(r, 1).value[1] = Len(x)
  BY LengthRead
<1>2. ~(Len(x) <= kMaxStringSize)
  BY LimitsAssumption DEF Word
<1>3. ReadStr(r) = [r |-> Failed(ReadWords(r, 1).r), value |-> <<>>]
  BY <1>1, <1>2 DEF ReadStr
<1>4. Failed(Past(r, 2)).failed
  BY DEF Failed, Past, Reader
<1> QED BY <1>1, <1>3, <1>4 DEF Read

LEMMA TruthReadsBack ==
  ASSUME NEW x \in BOOLEAN, NEW r \in Reader, Ahead(r, Written("bool", x))
  PROVE  Read("bool", r) = [r |-> Past(r, Len(Written("bool", x))), value |-> x]
<1>1. Len(Written("bool", x)) = 1 /\ Written("bool", x)[1] = IF x THEN 1 ELSE 0
  BY TruthBytes
<1>2. ~r.failed /\ r.at + 1 <= Len(r.data) /\ r.data[r.at + 1] = IF x THEN 1 ELSE 0
  BY <1>1 DEF Ahead
<1>3. Available(r, 1)
  BY <1>2 DEF Available, Reader
<1>4. (r.data[r.at + 1] # 0) = x
  BY <1>2
<1>5. ReadBool(r) = [r |-> Past(r, 1), value |-> x]
  BY <1>3, <1>4 DEF ReadBool
<1>6. Read("bool", r) = ReadBool(r)
  BY DEF Read
<1> DEFINE n == Len(Written("bool", x))
<1>7. n = 1
  BY <1>1
<1> HIDE DEF n
<1>8. Read("bool", r) = [r |-> Past(r, n), value |-> x]
  BY <1>5, <1>6, <1>7
<1> QED BY <1>8 DEF n

-----------------------------------------------------------------------------
(* What is read is what stands there.                                      *)

LEMMA BytesWord ==
  ASSUME NEW a \in Byte, NEW b \in Byte
  PROVE  a + 256 * b \in Word /\ (a + 256 * b) % 256 = a /\ ((a + 256 * b) \div 256) % 256 = b
<1>1. a \in Nat /\ a < 256 /\ b \in Nat /\ b < 256
  BY DEF Byte
<1>2. a + 256 * b \in Nat /\ a + 256 * b < WordSize
  BY <1>1 DEF WordSize
<1>3. (a + 256 * b) % 256 = a /\ (a + 256 * b) \div 256 = b /\ b % 256 = b
  BY <1>1
<1> QED BY <1>2, <1>3, Words16

LEMMA WordStands ==
  ASSUME NEW r \in Reader, NEW k \in Nat \ {0}, r.at + 2 * k <= Len(r.data)
  PROVE  /\ WordAt(r, k) \in Word
         /\ r.data[r.at + 2 * k - 1] = WordAt(r, k) % 256
         /\ r.data[r.at + 2 * k] = (WordAt(r, k) \div 256) % 256
<1>1. r.data \in Seq(Byte) /\ r.at \in Nat /\ Len(r.data) \in Nat
  BY DEF Reader
<1>2. r.at + 2 * k - 1 \in 1 .. Len(r.data) /\ r.at + 2 * k \in 1 .. Len(r.data)
  BY <1>1
<1> DEFINE a == r.data[r.at + 2 * k - 1]
           b == r.data[r.at + 2 * k]
<1>3. a \in Byte /\ b \in Byte
  BY <1>1, <1>2
<1>4. WordAt(r, k) = a + 256 * b
  BY DEF WordAt
<1> HIDE DEF a, b
<1>5. WordAt(r, k) \in Word /\ WordAt(r, k) % 256 = a /\ (WordAt(r, k) \div 256) % 256 = b
  BY <1>3, <1>4, BytesWord
<1> QED BY <1>5 DEF a, b

LEMMA NumberStands ==
  ASSUME NEW kind \in Number, NEW r \in Reader, ~Read(kind, r).r.failed,
         NEW v, v = Read(kind, r).value
  PROVE  v \in Values(kind) /\ Read(kind, r).r = Past(r, Len(Written(kind, v))) /\ Ahead(r, Written(kind, v))
<1> DEFINE n == Words[kind]
           w == Written(kind, v)
<1>1. Read(kind, r) = ReadWords(r, n) /\ n \in {2, 4} /\ Values(kind) = [1 .. n -> Word]
  BY DEF Read, Number, Words, Values
<1> HIDE DEF n
<1>2. Available(r, 2 * n)
  BY <1>1 DEF ReadWords, Failed, Reader
<1>3. /\ Read(kind, r).r = Past(r, 2 * n)
      /\ v = [k \in 1 .. n |-> WordAt(r, k)]
  BY <1>1, <1>2 DEF ReadWords
<1>4. ~r.failed /\ r.at + 2 * n <= Len(r.data) /\ r.at \in Nat /\ Len(r.data) \in Nat
  BY <1>1, <1>2 DEF Available, Reader
<1>5. ASSUME NEW k \in 1 .. n
      PROVE  /\ WordAt(r, k) \in Word
             /\ r.data[r.at + 2 * k - 1] = WordAt(r, k) % 256
             /\ r.data[r.at + 2 * k] = (WordAt(r, k) \div 256) % 256
  <2>1. k \in Nat \ {0} /\ r.at + 2 * k <= Len(r.data)
    BY <1>1, <1>4
  <2> QED BY <2>1, WordStands
<1>6. v \in Values(kind) /\ \A k \in 1 .. n : v[k] = WordAt(r, k)
  BY <1>1, <1>3, <1>5
<1>7. /\ Len(w) = 2 * n
      /\ \A k \in 1 .. n : w[2 * k - 1] = v[k] % 256 /\ w[2 * k] = (v[k] \div 256) % 256
  <2>1. v \in Values(kind)
    BY <1>6
  <2> QED BY <2>1, NumberBytes DEF n
<1> HIDE DEF w
<1>8. ASSUME NEW i \in 1 .. Len(w) PROVE r.data[r.at + i] = w[i]
  <2>1. \E k \in 1 .. n : i = 2 * k - 1 \/ i = 2 * k
    <3>1. i \in Nat /\ i >= 1 /\ i <= 2 * n /\ n \in Nat
      BY <1>1, <1>7
    <3>2. CASE i % 2 = 0
      <4>1. i \div 2 \in 1 .. n /\ i = 2 * (i \div 2)
        BY <3>1, <3>2
      <4> QED BY <4>1
    <3>3. CASE i % 2 # 0
      <4>1. (i + 1) \div 2 \in 1 .. n /\ i = 2 * ((i + 1) \div 2) - 1
        BY <3>1, <3>3
      <4> QED BY <4>1
    <3> QED BY <3>2, <3>3
  <2>2. PICK k \in 1 .. n : i = 2 * k - 1 \/ i = 2 * k
    BY <2>1
  <2>3. r.at + 2 * k - 1 = r.at + (2 * k - 1) /\ r.at + 2 * k = r.at + (2 * k)
    BY <1>1, <1>4
  <2>4. r.data[r.at + (2 * k - 1)] = w[2 * k - 1] /\ r.data[r.at + (2 * k)] = w[2 * k]
    BY <1>5, <1>6, <1>7, <2>3
  <2> QED BY <2>2, <2>4
<1>9. Ahead(r, w)
  BY <1>4, <1>7, <1>8 DEF Ahead
<1> QED BY <1>3, <1>6, <1>7, <1>9 DEF w

LEMMA StringStands ==
  ASSUME NEW r \in Reader, ~Read("str", r).r.failed, NEW v, v = Read("str", r).value
  PROVE  /\ v \in Seq(Byte) /\ Len(v) <= kMaxStringSize /\ Len(v) < WordSize
         /\ Read("str", r).r = Past(r, Len(Written("str", v))) /\ Ahead(r, Written("str", v))
<1> DEFINE size == ReadWords(r, 1)
           n == size.value[1]
           w == Written("str", v)
           a == size.r.at + 1
           b == size.r.at + n
<1>1. Read("str", r) = ReadStr(r)
  BY DEF Read
<1>2. ~size.r.failed /\ n <= kMaxStringSize /\ Available(size.r, n)
  <2>1. ASSUME ~(~size.r.failed /\ n <= kMaxStringSize /\ Available(size.r, n)) PROVE FALSE
    <3>1. ReadStr(r) = [r |-> Failed(size.r), value |-> <<>>]
      BY <2>1 DEF ReadStr
    <3>2. size.r = Past(r, 2) \/ size.r = Failed(r)
      BY DEF ReadWords
    <3>3. "failed" \in DOMAIN size.r
      BY <3>2 DEF Past, Failed, Reader
    <3>4. Failed(size.r).failed
      BY <3>3 DEF Failed
    <3> QED BY <1>1, <3>1, <3>4
  <2> QED BY <2>1
<1>3. ReadStr(r) = [r |-> Past(size.r, n), value |-> SubSeq(r.data, a, b)]
  BY <1>2 DEF ReadStr
<1>4. v = SubSeq(r.data, a, b)
  <2> DEFINE y == SubSeq(r.data, a, b)
  <2>1. ReadStr(r) = [r |-> Past(size.r, n), value |-> y]
    BY <1>3
  <2> HIDE DEF y
  <2>2. v = y
    BY <1>1, <2>1
  <2> QED BY <2>2, Zenon DEF y
<1>5. Read("str", r).r = Past(size.r, n)
  BY <1>1, <1>3
<1>6. Available(r, 2)
  BY <1>2 DEF ReadWords, Failed, Reader
<1>7. size.r = Past(r, 2) /\ n = WordAt(r, 1)
  BY <1>6 DEF ReadWords
<1>8. r.at \in Nat /\ Len(r.data) \in Nat /\ r.data \in Seq(Byte) /\ ~r.failed /\ r.at + 2 <= Len(r.data)
  BY <1>6 DEF Reader, Available
<1>9. /\ n \in Word
      /\ r.data[r.at + 1] = n % 256 /\ r.data[r.at + 2] = (n \div 256) % 256
  <2>1. r.at + 2 * 1 <= Len(r.data) /\ r.at + 2 * 1 - 1 = r.at + 1 /\ r.at + 2 * 1 = r.at + 2
    BY <1>8
  <2> HIDE DEF n
  <2>2. 1 \in Nat \ {0}
    OBVIOUS
  <2> QED BY <1>7, <2>1, <2>2, WordStands
<1> HIDE DEF size, n
<1>10. /\ Past(r, 2) = [data |-> r.data, at |-> r.at + 2, failed |-> r.failed]
      /\ Past(Past(r, 2), n) = Past(r, 2 + n)
  <2>1. n \in Nat
    BY <1>9, Words16
  <2>2. 2 \in Nat
    OBVIOUS
  <2>3. Past(r, 2) = [data |-> r.data, at |-> r.at + 2, failed |-> r.failed]
    BY <2>2, PastIs
  <2>4. Past(Past(r, 2), n) = Past(r, 2 + n)
    BY <2>1, <2>2, PastTwice
  <2> QED BY <2>3, <2>4
<1>11. size.r.at = r.at + 2 /\ size.r.data = r.data
  BY <1>7, <1>10
<1>12. n \in Nat /\ n < WordSize /\ r.at + (2 + n) <= Len(r.data)
  <2>1. n \in Nat /\ n < WordSize
    BY <1>9, Words16
  <2>2. Len(r.data) - (r.at + 2) >= n
    BY <1>2, <1>11 DEF Available
  <2> QED BY <1>8, <2>1, <2>2
<1>13. v \in Seq(Byte) /\ Len(v) = n /\ \A i \in 1 .. n : v[i] = r.data[r.at + (2 + i)]
  <2>1. /\ a \in Int /\ b \in Int /\ (IF a <= b THEN b - a + 1 ELSE 0) = n /\ b - a + 1 = n
        /\ a = r.at + 3 /\ b = r.at + (2 + n)
    <3>1. r.at \in Nat /\ n \in Nat /\ size.r.at = r.at + 2
      BY <1>8, <1>11, <1>12
    <3>2. a = r.at + 3 /\ b = r.at + (2 + n)
      BY <3>1
    <3> HIDE DEF a, b
    <3> QED BY <3>1, <3>2
  <2> HIDE DEF a, b
  <2>2. \A i \in a .. b : r.data[i] \in Byte
    <3>1. /\ r.at \in Nat /\ n \in Nat /\ Len(r.data) \in Nat /\ r.at + (2 + n) <= Len(r.data)
          /\ a = r.at + 3 /\ b = r.at + (2 + n)
      BY <1>8, <1>12, <2>1
    <3>2. \A i \in a .. b : i \in 1 .. Len(r.data)
      BY <3>1
    <3>3. r.data \in Seq(Byte)
      BY <1>8
    <3>4. \A i \in 1 .. Len(r.data) : r.data[i] \in Byte
      BY <3>3
    <3> QED BY <3>2, <3>4
  <2>3. /\ SubSeq(r.data, a, b) \in Seq(Byte) /\ Len(SubSeq(r.data, a, b)) = n
        /\ \A i \in 1 .. n : SubSeq(r.data, a, b)[i] = r.data[a + i - 1]
    BY <2>1, <2>2, SubSeqProperties
  <2>4. \A i \in 1 .. n : a + i - 1 = r.at + (2 + i)
    <3>1. r.at \in Nat /\ n \in Nat /\ a = r.at + 3
      BY <1>8, <1>12, <2>1
    <3> QED BY <3>1
  <2> DEFINE y == SubSeq(r.data, a, b)
  <2>5. v = y
    BY <1>4, Zenon
  <2> HIDE DEF y
  <2>6. y \in Seq(Byte) /\ Len(y) = n /\ \A i \in 1 .. n : y[i] = r.data[r.at + (2 + i)]
    BY <2>3, <2>4 DEF y
  <2> QED BY <2>5, <2>6
<1>14. /\ Len(w) = 2 + n /\ w[1] = n % 256 /\ w[2] = (n \div 256) % 256
       /\ \A i \in 1 .. n : w[2 + i] = v[i]
  <2>1. v \in Seq(Byte) /\ n < WordSize /\ n = Len(v)
    BY <1>12, <1>13
  <2>2. HasLength(w, Len(v))
    BY <2>1, LengthBytes
  <2>3. \A i \in 1 .. Len(v) : w[2 + i] = v[i]
    BY <2>1, StringBytes
  <2> HIDE DEF w
  <2> QED BY <2>1, <2>2, <2>3 DEF HasLength
<1> HIDE DEF w
<1>15. ASSUME NEW i \in 1 .. Len(w) PROVE r.data[r.at + i] = w[i]
  <2>1. CASE i = 1 \/ i = 2
    BY <1>9, <1>14, <2>1
  <2>2. CASE i # 1 /\ i # 2
    <3>1. i - 2 \in 1 .. n /\ 2 + (i - 2) = i
      BY <1>12, <1>14, <2>2
    <3> QED BY <1>13, <1>14, <3>1
  <2> QED BY <2>1, <2>2
<1>16. Ahead(r, w)
  <2>1. ~r.failed /\ r.at + Len(w) <= Len(r.data)
    BY <1>8, <1>12, <1>14
  <2> QED BY <1>15, <2>1 DEF Ahead
<1>17. Read("str", r).r = Past(r, Len(w))
  BY <1>5, <1>7, <1>10, <1>14
<1> QED BY <1>2, <1>12, <1>13, <1>16, <1>17 DEF w

LEMMA TruthStands ==
  ASSUME NEW r \in Reader, ~Read("bool", r).r.failed, NEW v, v = Read("bool", r).value
  PROVE  /\ v \in BOOLEAN /\ (v <=> r.data[r.at + 1] # 0)
         /\ Read("bool", r).r = Past(r, 1) /\ ~r.failed /\ r.at + 1 <= Len(r.data)
<1>1. Read("bool", r) = ReadBool(r)
  BY DEF Read
<1>2. Available(r, 1)
  BY <1>1 DEF ReadBool, Failed, Reader
<1>3. ReadBool(r) = [r |-> Past(r, 1), value |-> r.data[r.at + 1] # 0]
  BY <1>2 DEF ReadBool
<1>4. ~r.failed /\ r.at + 1 <= Len(r.data)
  BY <1>2 DEF Available, Reader
<1>5. v = (r.data[r.at + 1] # 0)
  BY <1>1, <1>3
<1>6. v \in BOOLEAN /\ (v <=> r.data[r.at + 1] # 0)
  BY <1>5, Zenon
<1> QED BY <1>1, <1>3, <1>4, <1>6

-----------------------------------------------------------------------------
(* A field is read back, and what is read is what stands there.            *)

Fits(kind, x) == kind = "str" => Len(x) <= kMaxStringSize

LEMMA ReadsBack ==
  ASSUME NEW kind \in Kind, NEW x \in Values(kind), kind = "str" => Len(x) < WordSize,
         NEW r \in Reader, Ahead(r, Written(kind, x))
  PROVE  IF Fits(kind, x) THEN /\ Read(kind, r).r = Past(r, Len(Written(kind, x)))
                               /\ Read(kind, r).value = x
         ELSE Read(kind, r).r.failed
<1>1. CASE kind = "bool"
  <2>1. x \in BOOLEAN
    BY <1>1 DEF Values
  <2>2. Read(kind, r) = [r |-> Past(r, Len(Written("bool", x))), value |-> x]
    BY <1>1, <2>1, TruthReadsBack
  <2>3. Fits(kind, x)
    BY <1>1 DEF Fits
  <2> DEFINE q == Past(r, Len(Written("bool", x)))
  <2>4. Read(kind, r) = [r |-> q, value |-> x]
    BY <2>2
  <2> HIDE DEF q
  <2>5. Read(kind, r).r = q /\ Read(kind, r).value = x
    BY <2>4
  <2>6. q = Past(r, Len(Written(kind, x)))
    BY <1>1 DEF q
  <2> QED BY <2>3, <2>5, <2>6
<1>2. CASE kind = "str"
  <2>1. x \in Seq(Byte) /\ Len(x) < WordSize /\ Ahead(r, Written("str", x))
    BY <1>2 DEF Values
  <2>2. CASE Len(x) <= kMaxStringSize
    <3>1. Read("str", r) = [r |-> Past(r, Len(Written("str", x))), value |-> x]
      BY <2>1, <2>2, StringReadsBack
    <3>2. Fits(kind, x)
      BY <2>2 DEF Fits
    <3> QED BY <1>2, <3>1, <3>2
  <2>3. CASE ~(Len(x) <= kMaxStringSize)
    <3>1. kMaxStringSize < Len(x)
      <4>1. kMaxStringSize \in Nat
        BY LimitsAssumption, Words16
      <4>2. Len(x) \in Nat
        BY <2>1
      <4> QED BY <2>3, <4>1, <4>2
    <3>2. Read("str", r).r.failed
      BY <2>1, <3>1, TooLongToRead
    <3>3. ~Fits(kind, x)
      BY <1>2, <2>3 DEF Fits
    <3> QED BY <1>2, <3>2, <3>3
  <2> QED BY <2>2, <2>3
<1>3. CASE kind \in Number
  <2>1. Read(kind, r) = [r |-> Past(r, Len(Written(kind, x))), value |-> x]
    BY <1>3, NumberReadsBack
  <2>2. Fits(kind, x)
    BY <1>3 DEF Fits, Number
  <2> QED BY <2>1, <2>2
<1> QED BY <1>1, <1>2, <1>3 DEF Kind

LEMMA ReadsWhatStands ==
  ASSUME NEW kind \in Kind, NEW r \in Reader, ~Read(kind, r).r.failed,
         NEW v, v = Read(kind, r).value
  PROVE  /\ v \in Values(kind) /\ Fits(kind, v)
         /\ Read(kind, r).r = Past(r, Len(Written(kind, v)))
         /\ ~r.failed /\ r.at + Len(Written(kind, v)) <= Len(r.data)
         /\ \A i \in 1 .. Len(Written(kind, v)) :
               Written(kind, v)[i] =
                  IF kind = "bool" /\ r.data[r.at + i] # 0 THEN 1 ELSE r.data[r.at + i]
<1>1. CASE kind = "bool"
  <2> DEFINE w == Written("bool", v)
  <2>1. /\ v \in BOOLEAN /\ (v <=> r.data[r.at + 1] # 0)
        /\ Read("bool", r).r = Past(r, 1) /\ ~r.failed /\ r.at + 1 <= Len(r.data)
    BY <1>1, TruthStands
  <2>2. w \in Seq(Byte) /\ Len(w) = 1 /\ w[1] = IF v THEN 1 ELSE 0
    BY <2>1, TruthBytes
  <2> HIDE DEF w
  <2>3. w[1] = IF r.data[r.at + 1] # 0 THEN 1 ELSE r.data[r.at + 1]
    BY <2>1, <2>2
  <2>4. \A i \in 1 .. Len(w) : w[i] = IF r.data[r.at + i] # 0 THEN 1 ELSE r.data[r.at + i]
    BY <2>2, <2>3
  <2>5. v \in Values(kind) /\ Fits(kind, v)
    BY <1>1, <2>1 DEF Values, Fits
  <2>6. /\ Read(kind, r).r = Past(r, Len(w)) /\ ~r.failed /\ r.at + Len(w) <= Len(r.data)
        /\ \A i \in 1 .. Len(w) :
              w[i] = IF kind = "bool" /\ r.data[r.at + i] # 0 THEN 1 ELSE r.data[r.at + i]
    BY <1>1, <2>1, <2>2, <2>4
  <2>7. w = Written(kind, v)
    BY <1>1 DEF w
  <2> QED BY <2>5, <2>6, <2>7, Zenon
<1>2. CASE kind # "bool"
  <2> DEFINE w == Written(kind, v)
  <2>1. /\ v \in Values(kind) /\ Fits(kind, v)
        /\ Read(kind, r).r = Past(r, Len(w)) /\ Ahead(r, w)
    <3>1. CASE kind = "str"
      <4>1. /\ v \in Seq(Byte) /\ Len(v) <= kMaxStringSize
            /\ Read("str", r).r = Past(r, Len(Written("str", v))) /\ Ahead(r, Written("str", v))
        BY <3>1, StringStands
      <4> QED BY <3>1, <4>1 DEF Values, Fits
    <3>2. CASE kind \in Number
      <4>1. v \in Values(kind) /\ Read(kind, r).r = Past(r, Len(w)) /\ Ahead(r, w)
        BY <3>2, NumberStands
      <4>2. Fits(kind, v)
        BY <3>2 DEF Fits, Number
      <4> QED BY <4>1, <4>2
    <3> QED BY <1>2, <3>1, <3>2 DEF Kind
  <2> HIDE DEF w
  <2>2. /\ ~r.failed /\ r.at + Len(w) <= Len(r.data)
        /\ \A i \in 1 .. Len(w) : r.data[r.at + i] = w[i]
    BY <2>1 DEF Ahead
  <2>3. /\ v \in Values(kind) /\ Fits(kind, v)
        /\ Read(kind, r).r = Past(r, Len(w))
        /\ ~r.failed /\ r.at + Len(w) <= Len(r.data)
        /\ \A i \in 1 .. Len(w) :
              w[i] = IF kind = "bool" /\ r.data[r.at + i] # 0 THEN 1 ELSE r.data[r.at + i]
    BY <1>2, <2>1, <2>2
  <2> QED BY <2>3 DEF w
<1> QED BY <1>1, <1>2

-----------------------------------------------------------------------------
(* All fields of a message.                                                *)

\* Induction over 0 .. n.
LEMMA UpFromZero ==
  ASSUME NEW n \in Nat, NEW S, 0 \in S, \A m \in 0 .. n - 1 : m \in S => m + 1 \in S
  PROVE  0 .. n \subseteq S
<1> DEFINE U == {k \in 1 .. n : k \in S}
<1>1. CASE n = 0
  BY <1>1
<1>2. CASE n # 0
  <2>1. 1 \in U
    <3>1. 0 \in 0 .. n - 1 /\ 0 + 1 = 1 /\ 1 \in 1 .. n
      BY <1>2
    <3> QED BY <3>1
  <2>2. \A m \in 1 .. n - 1 : m \in U => m + 1 \in U
    <3>1. \A m \in 1 .. n - 1 : m \in 0 .. n - 1 /\ m + 1 \in 1 .. n
      OBVIOUS
    <3> QED BY <3>1
  <2> HIDE DEF U
  <2>3. 1 .. n \subseteq U
    BY <2>1, <2>2, UpTo
  <2>4. \A k \in 0 .. n : k = 0 \/ k \in 1 .. n
    OBVIOUS
  <2> QED BY <2>3, <2>4 DEF U
<1> QED BY <1>1, <1>2

\* What is read, one field after the other.
LEMMA Reads ==
  ASSUME NEW type \in DOMAIN Layout, NEW r
  PROVE  \E g : /\ g[0] = [r |-> r, value |-> <<>>]
                /\ \A k \in 1 .. Len(Layout[type]) : g[k] = Read(Layout[type][k], g[k - 1].r)
                /\ Fields(type, r) = [r |-> g[Len(Layout[type])].r,
                                      values |-> [k \in 1 .. Len(Layout[type]) |-> g[k].value]]
<1> DEFINE n == Len(Layout[type])
           Is(f, m) == f = [k \in 0 .. m |-> IF k = 0 THEN [r |-> r, value |-> <<>>]
                                             ELSE Read(Layout[type][k], f[k - 1].r)]
           F == CHOOSE f : Is(f, n)
           S == {m \in 0 .. n : \E f : Is(f, m)}
<1>1. n \in Nat
  BY Layouts
<1> HIDE DEF n
<1>2. 0 \in S
  <2>1. Is([k \in 0 .. 0 |-> [r |-> r, value |-> <<>>]], 0)
    OBVIOUS
  <2> HIDE DEF Is
  <2>2. \E f : Is(f, 0)
    BY <2>1
  <2> QED BY <1>1, <2>2
<1>3. ASSUME NEW m \in 0 .. n - 1, m \in S PROVE m + 1 \in S
  <2>1. PICK f : Is(f, m)
    BY <1>3
  <2> DEFINE g == [k \in 0 .. m + 1 |-> IF k = m + 1 THEN Read(Layout[type][k], f[m].r) ELSE f[k]]
  <2>2. m \in Nat /\ m + 1 \in 0 .. n /\ m + 1 # 0 /\ (m + 1) - 1 = m
    BY <1>1
  <2>3. ASSUME NEW k \in 0 .. m + 1
        PROVE  g[k] = IF k = 0 THEN [r |-> r, value |-> <<>>]
                      ELSE Read(Layout[type][k], g[k - 1].r)
    <3>1. CASE k = m + 1
      <4>1. k - 1 = m /\ m \in 0 .. m + 1 /\ m # m + 1 /\ k # 0
        BY <2>2, <3>1
      <4>2. g[k] = Read(Layout[type][k], f[m].r) /\ g[m] = f[m]
        BY <3>1, <4>1
      <4> HIDE DEF g
      <4> QED BY <4>1, <4>2
    <3>2. CASE k \in 0 .. m
      <4>1. g[k] = f[k] /\ (k # 0 => k - 1 \in 0 .. m /\ g[k - 1] = f[k - 1])
        BY <2>2, <3>2
      <4>2. f[k] = IF k = 0 THEN [r |-> r, value |-> <<>>] ELSE Read(Layout[type][k], f[k - 1].r)
        BY <2>1, <3>2
      <4> HIDE DEF g
      <4> QED BY <4>1, <4>2
    <3> QED BY <2>2, <3>1, <3>2
  <2>4. Is(g, m + 1)
    BY <2>3
  <2> HIDE DEF Is, g
  <2>5. \E h : Is(h, m + 1)
    BY <2>4
  <2> QED BY <2>2, <2>5
<1>4. \E f : Is(f, n)
  <2>1. 0 .. n \subseteq S
    <3> HIDE DEF S
    <3> QED BY <1>1, <1>2, <1>3, UpFromZero
  <2>2. n \in S
    <3> HIDE DEF S
    <3> QED BY <1>1, <2>1
  <2> HIDE DEF Is
  <2> QED BY <2>2
<1>5. F = [k \in 0 .. n |-> IF k = 0 THEN [r |-> r, value |-> <<>>]
                            ELSE Read(Layout[type][k], F[k - 1].r)]
  <2> HIDE DEF Is
  <2>1. Is(F, n)
    BY <1>4
  <2> QED BY <2>1 DEF Is
<1>6. Fields(type, r) = [r |-> F[n].r, values |-> [k \in 1 .. n |-> F[k].value]]
  BY Zenon DEF Fields, n
<1> HIDE DEF F
<1>7. F[0] = [r |-> r, value |-> <<>>] /\ \A k \in 1 .. n : F[k] = Read(Layout[type][k], F[k - 1].r)
  <2>1. 0 \in 0 .. n /\ \A k \in 1 .. n : k \in 0 .. n /\ k # 0
    BY <1>1
  <2>2. \A k \in 0 .. n : F[k] = IF k = 0 THEN [r |-> r, value |-> <<>>]
                                 ELSE Read(Layout[type][k], F[k - 1].r)
    BY <1>5
  <2> QED BY <2>1, <2>2
<1>8. n = Len(Layout[type])
  BY DEF n
<1> QED BY <1>6, <1>7, <1>8

-----------------------------------------------------------------------------
(* A message and its bytes.                                                *)

\* A message as the program has them.
Proper(m) ==
    /\ m.type \in DOMAIN Layout
    /\ m = [type |-> m.type, fields |-> [k \in DOMAIN Layout[m.type] |-> m.fields[k]]]
    /\ \A k \in DOMAIN m.fields : m.fields[k] \in Values(Layout[m.type][k])

\* What is written of the field k of m.
Part(m, k) == Written(Layout[m.type][k], m.fields[k])

\* Where the fields of m stand in its body.
Places(m, pos) ==
    LET n == Len(Layout[m.type])
    IN  /\ pos \in [0 .. n -> Nat] /\ pos[0] = 0 /\ Len(Body(m)) = pos[n]
        /\ \A k \in 1 .. n :
              /\ pos[k] = pos[k - 1] + Len(Part(m, k)) /\ pos[k] <= pos[n]
              /\ \A i \in 1 .. Len(Part(m, k)) : Body(m)[pos[k - 1] + i] = Part(m, k)[i]
        /\ \A j \in 1 .. Len(Body(m)) :
              \E k \in 1 .. n : \E i \in 1 .. Len(Part(m, k)) : j = pos[k - 1] + i

LEMMA ProperFields ==
  ASSUME NEW m, Proper(m)
  PROVE  /\ m.type \in DOMAIN Layout /\ Len(Layout[m.type]) \in Nat \ {0}
         /\ DOMAIN m.fields = 1 .. Len(Layout[m.type])
         /\ \A k \in 1 .. Len(Layout[m.type]) :
               /\ Layout[m.type][k] \in Kind /\ m.fields[k] \in Values(Layout[m.type][k])
               /\ Part(m, k) \in Seq(Byte) /\ Len(Part(m, k)) \in Nat
<1> DEFINE L == Layout[m.type]
           n == Len(L)
<1>1. m.type \in DOMAIN Layout /\ L \in Seq(Kind) /\ L # <<>>
  BY Layouts DEF Proper
<1>2. n \in Nat \ {0} /\ DOMAIN L = 1 .. n /\ \A k \in 1 .. n : L[k] \in Kind
  <2> HIDE DEF L
  <2> QED BY <1>1
<1>3. DOMAIN m.fields = DOMAIN L
  <2>1. m = [type |-> m.type, fields |-> [k \in DOMAIN L |-> m.fields[k]]]
    BY DEF Proper
  <2>2. m.fields = [k \in DOMAIN L |-> m.fields[k]]
    BY <2>1
  <2> QED BY <2>2
<1>4. \A k \in 1 .. n : m.fields[k] \in Values(L[k])
  BY <1>2, <1>3 DEF Proper
<1> HIDE DEF L, n
<1>5. ASSUME NEW k \in 1 .. n PROVE Written(L[k], m.fields[k]) \in Seq(Byte)
  BY <1>2, <1>4, WrittenTyped
<1>6. ASSUME NEW k \in 1 .. n PROVE Part(m, k) \in Seq(Byte) /\ Len(Part(m, k)) \in Nat
  <2>1. Part(m, k) \in Seq(Byte)
    BY <1>5 DEF Part, L
  <2> QED BY <2>1
<1> QED BY <1>1, <1>2, <1>3, <1>4, <1>6 DEF L, n

LEMMA BodyParts ==
  ASSUME NEW m, Proper(m)
  PROVE  Body(m) \in Seq(Byte) /\ \E pos : Places(m, pos)
<1> DEFINE n == Len(Layout[m.type])
           s == [k \in 1 .. n |-> Part(m, k)]
<1>1. n \in Nat \ {0} /\ DOMAIN m.fields = 1 .. n /\ \A k \in 1 .. n : Part(m, k) \in Seq(Byte)
  BY ProperFields
<1> HIDE DEF n
<1>2. s \in Seq(Seq(Byte)) /\ Len(s) = n /\ s # <<>> /\ \A k \in 1 .. n : s[k] = Part(m, k)
  <2>1. s \in [1 .. n -> Seq(Byte)]
    BY <1>1
  <2>2. s \in Seq(Seq(Byte)) /\ Len(s) = n
    BY <1>1, <2>1
  <2>3. s # <<>>
    BY <1>1, <2>2
  <2> QED BY <2>2, <2>3
<1>3. Body(m) = FlattenSeq(s)
  BY <1>1 DEF Body, Part
<1> HIDE DEF s
<1>4. Body(m) \in Seq(Byte) /\ \E pos : Positions(s, Body(m), pos)
  <2>1. s \in Seq(Seq(Byte)) /\ s # <<>>
    BY <1>2
  <2> QED BY <1>3, <2>1, Flattening
<1>5. PICK pos : Positions(s, Body(m), pos)
  BY <1>4
<1>6. /\ pos \in [0 .. n -> Nat] /\ pos[0] = 0 /\ Len(Body(m)) = pos[n]
      /\ \A k \in 1 .. n :
            /\ pos[k] = pos[k - 1] + Len(s[k]) /\ pos[k] <= pos[n]
            /\ \A i \in 1 .. Len(s[k]) : Body(m)[pos[k - 1] + i] = s[k][i]
      /\ \A j \in 1 .. pos[n] :
            \E k \in 1 .. n : \E i \in 1 .. Len(s[k]) : j = pos[k - 1] + i
  BY <1>2, <1>5 DEF Positions
<1>7. /\ \A k \in 1 .. n :
            /\ pos[k] = pos[k - 1] + Len(Part(m, k)) /\ pos[k] <= pos[n]
            /\ \A i \in 1 .. Len(Part(m, k)) : Body(m)[pos[k - 1] + i] = Part(m, k)[i]
      /\ \A j \in 1 .. Len(Body(m)) :
            \E k \in 1 .. n : \E i \in 1 .. Len(Part(m, k)) : j = pos[k - 1] + i
  BY <1>2, <1>6
<1>8. Places(m, pos)
  BY <1>6, <1>7 DEF Places, n
<1> QED BY <1>4, <1>8

LEMMA Encoded ==
  ASSUME NEW m, Proper(m)
  PROVE  /\ Encode(m) \in Seq(Byte)
         /\ Encode(m) # <<>> =>
               /\ Len(Body(m)) < WordSize
               /\ Len(Encode(m)) = 4 + Len(Body(m))
               /\ HasHeader(Encode(m)) /\ TypeOf(Encode(m)) = m.type
               /\ SizeOf(Encode(m)) = Len(Body(m))
               /\ \A i \in 1 .. Len(Body(m)) : Encode(m)[4 + i] = Body(m)[i]
<1> DEFINE b == Body(m)
           n == Len(b)
           t == <<TypeByte(m.type), Flags(m.type)>>
           u == U16(n)
           h == t \o u
<1>1. b \in Seq(Byte) /\ n \in Nat
  <2>1. b \in Seq(Byte)
    BY BodyParts
  <2> QED BY <2>1
<1>2. Encode(m) = IF 4 + n > kMaxDatagram THEN <<>> ELSE h \o b
  BY DEF Encode, Header
<1>3. CASE 4 + n > kMaxDatagram
  BY <1>2, <1>3
<1>4. CASE ~(4 + n > kMaxDatagram)
  <2>1. n < WordSize /\ n \in Word
    <3>1. n < WordSize
      BY <1>1, <1>4, LimitsAssumption, Words16
    <3> QED BY <1>1, <3>1, Words16
  <2>2. TypeByte(m.type) \in 1 .. 8 /\ Types[TypeByte(m.type)] = m.type /\ DOMAIN Types = 1 .. 8
    BY TypeBytes DEF Proper
  <2>3. t \in Seq(Byte) /\ Len(t) = 2 /\ t[1] = TypeByte(m.type)
    <3>1. Flags(m.type) \in Byte /\ TypeByte(m.type) \in Byte
      BY <2>2 DEF Flags, Byte
    <3> QED BY <3>1
  <2> HIDE DEF b, n
  <2>4. u \in Seq(Byte) /\ Len(u) = 2 /\ u[1] + 256 * u[2] = n
    BY <2>1, WordBytes
  <2> HIDE DEF t, u
  <2>5. h \in Seq(Byte) /\ Len(h) = 4 /\ h[1] = t[1] /\ h[3] = u[1] /\ h[4] = u[2]
    <3>1. t \in Seq(Byte) /\ u \in Seq(Byte)
      BY <2>3, <2>4
    <3>2. /\ h \in Seq(Byte) /\ Len(h) = Len(t) + Len(u)
          /\ \A i \in 1 .. Len(t) : h[i] = t[i]
          /\ \A i \in 1 .. Len(u) : h[Len(t) + i] = u[i]
      BY <3>1, Concatenated
    <3> HIDE DEF h
    <3>3. Len(h) = 4 /\ \A i \in 1 .. 2 : h[i] = t[i] /\ h[2 + i] = u[i]
      BY <2>3, <2>4, <3>2
    <3>4. h[1] = t[1] /\ h[2 + 1] = u[1] /\ h[2 + 2] = u[2]
      BY <3>3
    <3>5. 2 + 1 = 3 /\ 2 + 2 = 4
      OBVIOUS
    <3> QED BY <3>2, <3>3, <3>4, <3>5
  <2> HIDE DEF h
  <2> DEFINE e == h \o b
  <2>6. /\ e \in Seq(Byte) /\ Len(e) = Len(h) + Len(b)
        /\ \A i \in 1 .. Len(h) : e[i] = h[i]
        /\ \A i \in 1 .. Len(b) : e[Len(h) + i] = b[i]
    <3>1. h \in Seq(Byte) /\ b \in Seq(Byte)
      BY <1>1, <2>5
    <3> QED BY <3>1, Concatenated
  <2>7. e = Encode(m)
    BY <1>2, <1>4
  <2> HIDE DEF e
  <2>8. /\ e \in Seq(Byte) /\ Len(e) = 4 + n /\ \A i \in 1 .. n : e[4 + i] = b[i]
        /\ e[1] = TypeByte(m.type) /\ e[3] + 256 * e[4] = n
    <3>1. Len(b) = n
      BY DEF n
    <3>2. \A i \in 1 .. 4 : e[i] = h[i]
      BY <2>5, <2>6
    <3>3. e[1] = h[1] /\ e[3] = h[3] /\ e[4] = h[4]
      BY <3>2
    <3> QED BY <2>3, <2>4, <2>5, <2>6, <3>1, <3>3
  <2>9. HasHeader(e) /\ TypeOf(e) = m.type /\ SizeOf(e) = n
    BY <1>1, <2>2, <2>8 DEF HasHeader, TypeOf, SizeOf
  <2> QED BY <2>1, <2>7, <2>8, <2>9 DEF n, b
<1> QED BY <1>3, <1>4

-----------------------------------------------------------------------------
(* A datagram that arrives whole.                                          *)

\* The reader of a datagram, behind the header and n bytes of the body.
At(data, n) == [data |-> data, at |-> 4 + n, failed |-> FALSE]

\* The fields before the first string over the limit are read as they were
\* written; from that string on the reader has failed.
LEMMA FieldsReadBack ==
  ASSUME NEW m, Proper(m), Encode(m) # <<>>
  PROVE  LET result == Fields(m.type, At(Encode(m), 0))
         IN  IF \A k \in DOMAIN m.fields : Fits(Layout[m.type][k], m.fields[k])
             THEN ~result.r.failed /\ result.values = m.fields
             ELSE result.r.failed
<1> DEFINE L == Layout[m.type]
           n == Len(L)
           e == Encode(m)
           Good(k) == \A j \in 1 .. k : Fits(L[j], m.fields[j])
<1>1. /\ n \in Nat \ {0} /\ DOMAIN m.fields = 1 .. n /\ m.type \in DOMAIN Layout
      /\ \A k \in 1 .. n : /\ L[k] \in Kind /\ m.fields[k] \in Values(L[k])
                           /\ Part(m, k) \in Seq(Byte) /\ Len(Part(m, k)) \in Nat
  BY ProperFields
<1>2. /\ e \in Seq(Byte) /\ Len(Body(m)) < WordSize /\ Len(e) = 4 + Len(Body(m))
      /\ \A i \in 1 .. Len(Body(m)) : e[4 + i] = Body(m)[i]
  BY Encoded
<1>3. PICK pos : Places(m, pos)
  BY BodyParts
<1>4. PICK g : /\ g[0] = [r |-> At(e, 0), value |-> <<>>]
               /\ \A k \in 1 .. n : g[k] = Read(L[k], g[k - 1].r)
               /\ Fields(m.type, At(e, 0)) = [r |-> g[n].r, values |-> [k \in 1 .. n |-> g[k].value]]
  BY <1>1, Reads
<1> HIDE DEF e
<1>5. /\ pos \in [0 .. n -> Nat] /\ pos[0] = 0 /\ Len(Body(m)) = pos[n]
      /\ \A k \in 1 .. n :
            /\ pos[k] = pos[k - 1] + Len(Part(m, k)) /\ pos[k] <= pos[n]
            /\ \A i \in 1 .. Len(Part(m, k)) : Body(m)[pos[k - 1] + i] = Part(m, k)[i]
  BY <1>3 DEF Places
<1> DEFINE Q(k) == IF Good(k) THEN g[k].r = At(e, pos[k]) /\ (k # 0 => g[k].value = m.fields[k])
                   ELSE g[k].r.failed
           S == {k \in 0 .. n : Q(k)}
<1>6. 0 \in S
  <2>1. 0 \in 0 .. n
    BY <1>1
  <2>2. Good(0)
    OBVIOUS
  <2>3. g[0].r = At(e, pos[0])
    BY <1>4, <1>5
  <2> HIDE DEF Good
  <2> QED BY <2>1, <2>2, <2>3
<1>7. ASSUME NEW j \in 0 .. n - 1, j \in S PROVE j + 1 \in S
  <2> DEFINE k == j + 1
             x == m.fields[k]
             w == Part(m, k)
             r == g[j].r
  <2>1. k \in 1 .. n /\ k - 1 = j /\ k \in 0 .. n /\ j \in 0 .. n /\ k # 0 /\ j \in Nat
    BY <1>1
  <2>2. /\ L[k] \in Kind /\ x \in Values(L[k]) /\ w = Written(L[k], x)
        /\ w \in Seq(Byte) /\ Len(w) \in Nat
    BY <1>1, <2>1 DEF Part
  <2>3. /\ pos[k] = pos[j] + Len(w) /\ pos[k] <= pos[n] /\ pos[n] = Len(Body(m))
        /\ pos[j] \in Nat /\ pos[k] \in Nat /\ pos[n] \in Nat
        /\ \A i \in 1 .. Len(w) : Body(m)[pos[j] + i] = w[i]
    <3>1. n \in 0 .. n
      BY <1>1
    <3> HIDE DEF n, w
    <3> QED BY <1>5, <2>1, <3>1 DEF w
  <2>4. g[k] = Read(L[k], r)
    BY <1>4, <2>1
  <2>5. Good(k) <=> Good(j) /\ Fits(L[k], x)
    <3>1. \A i \in 1 .. k : i \in 1 .. j \/ i = k
      BY <2>1
    <3>2. k \in 1 .. k /\ \A i \in 1 .. j : i \in 1 .. k
      BY <2>1
    <3> HIDE DEF L, k
    <3> QED BY <3>1, <3>2 DEF k
  <2>6. Q(j)
    BY <1>7
  <2> HIDE DEF Good, k
  <2>7. CASE ~Good(j)
    <3>1. r.failed
      BY <2>6, <2>7
    <3>2. g[k].r.failed
      <4> HIDE DEF r
      <4> QED BY <2>4, <3>1, FailureSticks
    <3> QED BY <2>1, <2>5, <2>7, <3>2 DEF k
  <2>8. CASE Good(j)
    <3>1. r = At(e, pos[j])
      BY <2>6, <2>8
    <3> HIDE DEF r
    <3>2. /\ r \in Reader /\ ~r.failed /\ r.failed = FALSE /\ r.data = e /\ r.at = 4 + pos[j]
      BY <1>2, <2>3, <3>1 DEF At, Reader
    <3>3. Ahead(r, w)
      <4>1. r.at + Len(w) <= Len(r.data)
        BY <1>2, <2>2, <2>3, <3>2
      <4>2. ASSUME NEW i \in 1 .. Len(w) PROVE r.data[r.at + i] = w[i]
        <5>1. pos[j] + i \in 1 .. Len(Body(m)) /\ r.at + i = 4 + (pos[j] + i)
          <6>1. /\ pos[k] = pos[j] + Len(w) /\ pos[k] <= pos[n] /\ pos[n] = Len(Body(m))
                /\ pos[j] \in Nat /\ pos[k] \in Nat /\ pos[n] \in Nat /\ Len(w) \in Nat
                /\ r.at = 4 + pos[j]
            BY <2>2, <2>3, <3>2
          <6> HIDE DEF w, n
          <6> QED BY <6>1
        <5> QED BY <1>2, <2>3, <3>2, <5>1
      <4> QED BY <3>2, <4>1, <4>2 DEF Ahead
    <3>4. L[k] = "str" => Len(x) < WordSize
      <4>1. SUFFICES ASSUME L[k] = "str" PROVE Len(x) < WordSize
        OBVIOUS
      <4>2. x \in Seq(Byte) /\ w = Written("str", x)
        BY <2>2, <4>1 DEF Values
      <4>3. Len(w) = 2 + Len(x) /\ Len(x) \in Nat
        BY <4>2, StringBytes
      <4>4. Len(w) < WordSize
        <5>1. /\ pos[k] = pos[j] + Len(w) /\ pos[k] <= pos[n] /\ pos[n] < WordSize /\ WordSize \in Nat
              /\ pos[j] \in Nat /\ pos[k] \in Nat /\ pos[n] \in Nat /\ Len(w) \in Nat
          BY <1>2, <2>2, <2>3, Words16
        <5> HIDE DEF w, n
        <5> QED BY <5>1
      <4> QED BY <4>3, <4>4, Words16
    <3>5. IF Fits(L[k], x) THEN Read(L[k], r).r = Past(r, Len(w)) /\ Read(L[k], r).value = x
          ELSE Read(L[k], r).r.failed
      <4>1. Ahead(r, Written(L[k], x))
        BY <2>2, <3>3
      <4> HIDE DEF L, x
      <4> QED BY <2>2, <3>2, <3>4, <4>1, ReadsBack
    <3>6. Past(r, Len(w)) = At(e, pos[k])
      <4>1. Past(r, Len(w)) = [data |-> r.data, at |-> r.at + Len(w), failed |-> r.failed]
        BY <2>2, <3>2, PastIs
      <4>2. r.at + Len(w) = 4 + pos[k]
        BY <2>2, <2>3, <3>2
      <4> QED BY <3>2, <4>1, <4>2 DEF At
    <3>7. Q(k)
      <4> HIDE DEF L, x, w
      <4>1. IF Fits(L[k], x) THEN g[k].r = At(e, pos[k]) /\ g[k].value = x ELSE g[k].r.failed
        BY <2>4, <3>5, <3>6 DEF r
      <4> QED BY <2>5, <2>8, <4>1 DEF x
    <3> QED BY <2>1, <3>7 DEF k
  <2> QED BY <2>7, <2>8
<1>8. \A k \in 0 .. n : Q(k)
  <2> HIDE DEF Q, n
  <2>1. n \in Nat
    BY <1>1
  <2>2. 0 .. n \subseteq S
    <3> HIDE DEF S
    <3> QED BY <1>6, <1>7, <2>1, UpFromZero
  <2> QED BY <2>2
<1>9. Q(n)
  BY <1>1, <1>8
<1> DEFINE result == Fields(m.type, At(e, 0))
<1>10. result.r = g[n].r /\ result.values = [k \in 1 .. n |-> g[k].value]
  <2> DEFINE values == [k \in 1 .. n |-> g[k].value]
  <2>1. result = [r |-> g[n].r, values |-> values]
    BY <1>4
  <2> HIDE DEF values, result
  <2>2. result.r = g[n].r /\ result.values = values
    BY <2>1
  <2> QED BY <2>2 DEF values
<1> HIDE DEF result
<1>11. CASE Good(n)
  <2>1. ~result.r.failed
    <3>1. g[n].r = At(e, pos[n])
      BY <1>9, <1>11
    <3> QED BY <1>10, <3>1 DEF At
  <2>2. ASSUME NEW k \in 1 .. n PROVE g[k].value = m.fields[k]
    <3>1. Good(k) /\ k \in 0 .. n /\ k # 0
      BY <1>1, <1>11
    <3>2. Q(k)
      BY <1>8, <3>1
    <3> HIDE DEF Good
    <3> QED BY <3>1, <3>2
  <2>3. m.fields = [k \in 1 .. n |-> m.fields[k]]
    <3>1. m = [type |-> m.type, fields |-> [k \in DOMAIN L |-> m.fields[k]]]
      BY DEF Proper
    <3>2. m.fields = [k \in DOMAIN L |-> m.fields[k]]
      BY <3>1
    <3>3. DOMAIN m.fields = DOMAIN L
      BY <3>2
    <3> QED BY <1>1, <3>2, <3>3
  <2>4. result.values = m.fields
    <3> HIDE DEF n
    <3> QED BY <1>10, <2>2, <2>3
  <2>5. \A k \in DOMAIN m.fields : Fits(Layout[m.type][k], m.fields[k])
    BY <1>1, <1>11
  <2> QED BY <2>1, <2>4, <2>5 DEF result, e
<1>12. CASE ~Good(n)
  <2>1. result.r.failed
    <3> HIDE DEF Good
    <3> QED BY <1>9, <1>10, <1>12
  <2>2. ~(\A k \in DOMAIN m.fields : Fits(Layout[m.type][k], m.fields[k]))
    BY <1>1, <1>12
  <2> QED BY <2>1, <2>2 DEF result, e
<1> QED BY <1>11, <1>12

LEMMA ReadBack ==
  ASSUME NEW m, Proper(m), Encode(m) # <<>>
  PROVE  {Decode(type, Encode(m)) : type \in DOMAIN Layout} \ {Nothing} =
            IF \A s \in Strings(m) : Len(s) <= kMaxStringSize THEN {m} ELSE {}
<1> DEFINE e == Encode(m)
           t == m.type
           result == Fields(t, At(e, 0))
<1>1. /\ HasHeader(e) /\ TypeOf(e) = t /\ SizeMatches(e)
  <2>1. /\ e \in Seq(Byte) /\ Len(e) = 4 + Len(Body(m)) /\ HasHeader(e) /\ TypeOf(e) = t
        /\ SizeOf(e) = Len(Body(m))
    BY Encoded
  <2>2. Len(Body(m)) \in Nat
    <3>1. Body(m) \in Seq(Byte)
      BY BodyParts
    <3> QED BY <3>1
  <2>3. SizeMatches(e)
    BY <2>1, <2>2 DEF SizeMatches
  <2> QED BY <2>1, <2>3
<1>2. IF \A k \in DOMAIN m.fields : Fits(Layout[t][k], m.fields[k])
      THEN ~result.r.failed /\ result.values = m.fields
      ELSE result.r.failed
  BY FieldsReadBack
<1>3. (\A k \in DOMAIN m.fields : Fits(Layout[t][k], m.fields[k]))
         <=> (\A s \in Strings(m) : Len(s) <= kMaxStringSize)
  BY DEF Fits, Strings
<1>4. Decode(t, e) = IF result.r.failed THEN Nothing ELSE [type |-> t, fields |-> result.values]
  <2>1. At(e, 0) = [data |-> e, at |-> 4, failed |-> FALSE]
    BY DEF At
  <2> HIDE DEF t, e
  <2> QED BY <1>1, <2>1 DEF Decode
<1>5. \A type \in DOMAIN Layout : type # t => Decode(type, e) = Nothing
  <2> HIDE DEF t, e
  <2> QED BY <1>1 DEF Decode
<1>6. t \in DOMAIN Layout /\ m = [type |-> t, fields |-> m.fields] /\ m # Nothing
  <2>1. /\ t \in DOMAIN Layout
        /\ m = [type |-> t, fields |-> [k \in DOMAIN Layout[t] |-> m.fields[k]]]
    BY DEF Proper
  <2>2. m.fields = [k \in DOMAIN Layout[t] |-> m.fields[k]]
    BY <2>1
  <2>3. m = [type |-> t, fields |-> m.fields]
    BY <2>1, <2>2
  <2>4. t # "Invalid"
    BY <2>1, Layouts
  <2> QED BY <2>1, <2>3, <2>4 DEF Nothing
<1> DEFINE D == {Decode(type, e) : type \in DOMAIN Layout} \ {Nothing}
           fit == \A s \in Strings(m) : Len(s) <= kMaxStringSize
<1> HIDE DEF result, t
<1>7. CASE fit
  <2>1. Decode(t, e) = m
    BY <1>2, <1>3, <1>4, <1>6, <1>7
  <2>2. D = {m}
    <3> HIDE DEF e
    <3> QED BY <1>5, <1>6, <2>1
  <2> QED BY <1>7, <2>2
<1>8. CASE ~fit
  <2>1. Decode(t, e) = Nothing
    BY <1>2, <1>3, <1>4, <1>8
  <2>2. D = {}
    <3> HIDE DEF e
    <3> QED BY <1>5, <2>1
  <2> QED BY <1>8, <2>2
<1> QED BY <1>7, <1>8

-----------------------------------------------------------------------------
(* A datagram on its way.                                                  *)

\* What damage leaves true: the bytes are bytes, and a datagram with bytes
\* missing or added has no length that fits its header.
WireInv ==
    /\ message \in Message
    /\ datagram \in Seq(Byte)
    /\ damage = "none" => datagram = Encode(message)
    /\ damage = "length" => ~(HasHeader(datagram) /\ SizeMatches(datagram))

LEMMA MessagesProper == \A m \in Message : Proper(m)
BY MessageAssumption DEF Proper

LEMMA WireInitially == Init => WireInv
<1> SUFFICES ASSUME Init PROVE WireInv
  OBVIOUS
<1>1. message \in Message /\ datagram = Encode(message) /\ damage = "none"
  BY DEF Init
<1>2. datagram \in Seq(Byte)
  <2>1. Proper(message)
    BY <1>1, MessagesProper
  <2> QED BY <1>1, <2>1, Encoded
<1> QED BY <1>1, <1>2 DEF WireInv

LEMMA WireKept == WireInv /\ [Next]_vars => WireInv'
<1> SUFFICES ASSUME WireInv, [Next]_vars PROVE WireInv'
  OBVIOUS
<1>1. message \in Message /\ datagram \in Seq(Byte)
  BY DEF WireInv
<1>2. ASSUME damage = "none", datagram # <<>>
      PROVE  /\ datagram \in Seq(Byte) /\ Len(datagram) \in Nat
             /\ Len(datagram) >= 4 /\ SizeOf(datagram) = Len(datagram) - 4
  <2>1. datagram = Encode(message) /\ Proper(message)
    BY <1>2, MessagesProper DEF WireInv
  <2>2. Len(datagram) = 4 + Len(Body(message)) /\ SizeOf(datagram) = Len(Body(message))
    BY <1>2, <2>1, Encoded
  <2>3. Len(Body(message)) \in Nat
    <3>1. Body(message) \in Seq(Byte)
      BY <2>1, BodyParts
    <3> QED BY <3>1
  <2> QED BY <1>1, <2>2, <2>3
<1>3. ASSUME NEW n \in Nat, Truncate(n) PROVE WireInv'
  <2>1. /\ damage = "none" /\ n < Len(datagram) /\ datagram' = SubSeq(datagram, 1, n)
        /\ damage' = "length" /\ message' = message
    BY <1>3 DEF Truncate
  <2>2. datagram # <<>>
    BY <2>1
  <2>3. Len(datagram) \in Nat /\ Len(datagram) >= 4 /\ SizeOf(datagram) = Len(datagram) - 4
    BY <1>2, <2>1, <2>2
  <2> DEFINE d == SubSeq(datagram, 1, n)
  <2>4. d \in Seq(Byte) /\ Len(d) = n /\ \A i \in 1 .. n : d[i] = datagram[i]
    BY <1>1, <2>1
  <2>5. datagram' = d
    BY <2>1
  <2> HIDE DEF d
  <2>6. ~(HasHeader(d) /\ SizeMatches(d))
    <3> SUFFICES ASSUME Len(d) >= 4, SizeMatches(d) PROVE FALSE
      BY DEF HasHeader
    <3>1. d[3] = datagram[3] /\ d[4] = datagram[4]
      BY <2>4
    <3>2. SizeOf(d) = SizeOf(datagram)
      BY <3>1 DEF SizeOf
    <3>3. SizeOf(d) = n - 4
      BY <2>4 DEF SizeMatches
    <3> QED BY <2>1, <2>3, <3>2, <3>3
  <2>7. HasHeader(datagram)' = HasHeader(d) /\ SizeMatches(datagram)' = SizeMatches(d)
    BY <2>5 DEF HasHeader, SizeMatches, SizeOf
  <2> QED BY <1>1, <2>1, <2>4, <2>5, <2>6, <2>7 DEF WireInv
<1>4. ASSUME NEW b \in Junk, Extend(b) PROVE WireInv'
  <2>1. /\ damage = "none" /\ datagram # <<>> /\ datagram' = Append(datagram, b)
        /\ damage' = "length" /\ message' = message
    BY <1>4 DEF Extend
  <2>2. Len(datagram) \in Nat /\ Len(datagram) >= 4 /\ SizeOf(datagram) = Len(datagram) - 4
    BY <1>2, <2>1
  <2> DEFINE d == Append(datagram, b)
  <2>3. d \in Seq(Byte) /\ Len(d) = Len(datagram) + 1 /\ \A i \in 1 .. Len(datagram) : d[i] = datagram[i]
    <3>1. b \in Byte
      BY LimitsAssumption
    <3> QED BY <1>1, <3>1
  <2>4. datagram' = d
    BY <2>1
  <2> HIDE DEF d
  <2>5. ~SizeMatches(d)
    <3> SUFFICES ASSUME SizeMatches(d) PROVE FALSE
      OBVIOUS
    <3>1. d[3] = datagram[3] /\ d[4] = datagram[4]
      BY <2>2, <2>3
    <3>2. SizeOf(d) = SizeOf(datagram)
      BY <3>1 DEF SizeOf
    <3>3. SizeOf(d) = Len(d) - 4
      BY DEF SizeMatches
    <3> QED BY <2>2, <2>3, <3>2, <3>3
  <2>6. SizeMatches(datagram)' = SizeMatches(d)
    BY <2>4 DEF SizeMatches, SizeOf
  <2> QED BY <1>1, <2>1, <2>3, <2>4, <2>5, <2>6 DEF WireInv
<1>5. ASSUME NEW b \in Junk, NEW k, Overwrite(k, b) PROVE WireInv'
  <2>1. /\ k \in DOMAIN datagram /\ datagram' = [datagram EXCEPT ![k] = b]
        /\ damage' \notin {"none", "length"} /\ message' = message
    BY <1>5 DEF Overwrite
  <2>2. b \in Byte
    BY LimitsAssumption
  <2>3. datagram' \in Seq(Byte)
    BY <1>1, <2>1, <2>2
  <2> QED BY <1>1, <2>1, <2>3 DEF WireInv
<1>6. CASE UNCHANGED vars
  BY <1>6 DEF vars, WireInv, HasHeader, SizeMatches, SizeOf
<1>7. \A n \in Near(Len(datagram)) : n \in Nat
  <2>1. Len(datagram) \in Nat
    BY <1>1
  <2> QED BY <2>1 DEF Near
<1> QED BY <1>3, <1>4, <1>5, <1>6, <1>7 DEF Next

LEMMA WireAlways == Spec => []WireInv
<1> QED BY WireInitially, WireKept, PTL DEF Spec

\* A datagram that arrives whole is the message that was sent and no other,
\* whatever the messages and the limits are: Encode and Decode fit (RoundTrip).
THEOREM WhatIsSentIsRead == Spec => []RoundTrip
<1>1. WireInv => RoundTrip
  <2> SUFFICES ASSUME WireInv, damage = "none"
               PROVE  Decoded = IF datagram # <<>> /\ \A s \in Strings(message) : Len(s) <= kMaxStringSize
                                THEN {message} ELSE {}
    BY DEF RoundTrip
  <2>1. datagram = Encode(message) /\ Proper(message)
    BY MessagesProper DEF WireInv
  <2>2. CASE datagram = <<>>
    <3>1. ~HasHeader(<<>>)
      BY DEF HasHeader
    <3>2. \A type \in DOMAIN Layout : Decode(type, <<>>) = Nothing
      BY <3>1 DEF Decode
    <3>3. Decoded = {}
      BY <2>2, <3>2 DEF Decoded
    <3> QED BY <2>2, <3>3
  <2>3. CASE datagram # <<>>
    <3>1. Decoded = IF \A s \in Strings(message) : Len(s) <= kMaxStringSize THEN {message} ELSE {}
      BY <2>1, <2>3, ReadBack DEF Decoded
    <3> QED BY <2>3, <3>1
  <2> QED BY <2>2, <2>3
<1> QED BY <1>1, WireAlways, PTL

\* Cut short or with bytes behind it, a datagram is no message (LengthChecked):
\* its header still declares the size it had when it was whole.
THEOREM WrongLengthIsNoMessage == Spec => []LengthChecked
<1>1. WireInv => LengthChecked
  <2> SUFFICES ASSUME WireInv, damage = "length" PROVE Decoded = {}
    BY DEF LengthChecked
  <2>1. ~(HasHeader(datagram) /\ SizeMatches(datagram))
    BY DEF WireInv
  <2>2. \A type \in DOMAIN Layout : Decode(type, datagram) = Nothing
    BY <2>1 DEF Decode
  <2> QED BY <2>2 DEF Decoded
<1> QED BY <1>1, WireAlways, PTL

-----------------------------------------------------------------------------
(* A datagram with anything in it.                                         *)

\* What has been read stands in the bytes; only for a truth value other bytes
\* than the written ones are read.
LEMMA FieldsStand ==
  ASSUME NEW type \in DOMAIN Layout, NEW data \in Seq(Byte), NEW result,
         result = Fields(type, At(data, 0)), ~result.r.failed,
         NEW m, m = [type |-> type, fields |-> result.values]
  PROVE  /\ Proper(m)
         /\ \A k \in DOMAIN m.fields : Fits(Layout[type][k], m.fields[k])
         /\ 4 + Len(Body(m)) <= Len(data)
         /\ \A j \in 1 .. Len(Body(m)) :
               Body(m)[j] = IF type = "HelloAck" /\ j = 1 /\ data[5] # 0 THEN 1 ELSE data[4 + j]
<1> DEFINE L == Layout[type]
           n == Len(L)
<1>1. n \in Nat \ {0} /\ DOMAIN L = 1 .. n /\ \A k \in 1 .. n : L[k] \in Kind
  <2>1. L \in Seq(Kind) /\ L # <<>>
    BY Layouts
  <2> HIDE DEF L
  <2> QED BY <2>1
<1>2. PICK g : /\ g[0] = [r |-> At(data, 0), value |-> <<>>]
               /\ \A k \in 1 .. n : g[k] = Read(L[k], g[k - 1].r)
               /\ result = [r |-> g[n].r, values |-> [k \in 1 .. n |-> g[k].value]]
  BY Reads
<1> DEFINE w(k) == Written(L[k], g[k].value)
<1> HIDE DEF n, L
<1>3. result.r = g[n].r /\ m.type = type /\ m.fields = [k \in 1 .. n |-> g[k].value]
  <2> DEFINE values == [k \in 1 .. n |-> g[k].value]
  <2>1. result = [r |-> g[n].r, values |-> values]
    BY <1>2
  <2> HIDE DEF values
  <2>2. result.r = g[n].r /\ m.type = type /\ m.fields = values
    BY <2>1
  <2> QED BY <2>2 DEF values
<1>4. \A k \in 0 .. n : ~g[k].r.failed
  <2> DEFINE S == {d \in 0 .. n : ~g[n - d].r.failed}
  <2>1. 0 \in S
    <3>1. 0 \in 0 .. n /\ n - 0 = n
      BY <1>1
    <3> QED BY <1>3, <3>1
  <2>2. ASSUME NEW d \in 0 .. n - 1, d \in S PROVE d + 1 \in S
    <3>1. n - d \in 1 .. n /\ (n - d) - 1 = n - (d + 1) /\ d + 1 \in 0 .. n
      BY <1>1
    <3>2. g[n - d] = Read(L[n - d], g[n - (d + 1)].r)
      BY <1>2, <3>1
    <3>3. ~g[n - d].r.failed
      BY <2>2
    <3>4. ~g[n - (d + 1)].r.failed
      BY <3>2, <3>3, FailureSticks
    <3> QED BY <3>1, <3>4
  <2>3. 0 .. n \subseteq S
    <3> HIDE DEF S
    <3> QED BY <1>1, <2>1, <2>2, UpFromZero
  <2>4. \A k \in 0 .. n : n - k \in 0 .. n /\ n - (n - k) = k
    BY <1>1
  <2> QED BY <2>3, <2>4
\* Every step, given where it starts.
<1>5. ASSUME NEW k \in 1 .. n, g[k - 1].r \in Reader, g[k - 1].r.data = data
      PROVE  /\ g[k].value \in Values(L[k]) /\ Fits(L[k], g[k].value)
             /\ g[k].r \in Reader /\ g[k].r.data = data
             /\ Len(w(k)) \in Nat
             /\ g[k - 1].r.at \in Nat /\ g[k].r.at = g[k - 1].r.at + Len(w(k))
             /\ g[k].r.at <= Len(data)
             /\ \A i \in 1 .. Len(w(k)) :
                   w(k)[i] = IF L[k] = "bool" /\ data[g[k - 1].r.at + i] # 0 THEN 1
                             ELSE data[g[k - 1].r.at + i]
  <2> DEFINE r == g[k - 1].r
             v == g[k].value
             x == Written(L[k], v)
             kind == L[k]
  <2>1. kind \in Kind /\ k \in 0 .. n
    BY <1>1
  <2>2. g[k] = Read(kind, r) /\ ~g[k].r.failed
    BY <1>2, <1>4, <2>1
  <2>3. r \in Reader /\ r.data = data /\ r.at \in Nat
    BY <1>5 DEF Reader
  <2>4. ~Read(kind, r).r.failed /\ v = Read(kind, r).value /\ Read(kind, r).r = g[k].r
    BY <2>2
  <2> HIDE DEF r, v, kind
  <2>5. /\ v \in Values(kind) /\ Fits(kind, v)
        /\ Read(kind, r).r = Past(r, Len(Written(kind, v)))
        /\ ~r.failed /\ r.at + Len(Written(kind, v)) <= Len(r.data)
        /\ \A i \in 1 .. Len(Written(kind, v)) :
              Written(kind, v)[i] =
                 IF kind = "bool" /\ r.data[r.at + i] # 0 THEN 1 ELSE r.data[r.at + i]
    BY ONLY <2>1, <2>3, <2>4, ReadsWhatStands
  <2>6. x = Written(kind, v)
    BY DEF kind
  <2> HIDE DEF x
  <2>7. x \in Seq(Byte) /\ Len(x) \in Nat
    <3>1. x \in Seq(Byte)
      BY <2>1, <2>5, <2>6, WrittenTyped
    <3> QED BY <3>1
  <2>8. /\ Past(r, Len(x)) \in Reader
        /\ Past(r, Len(x)) = [data |-> r.data, at |-> r.at + Len(x), failed |-> r.failed]
    BY <2>3, <2>7, PastIs
  <2>9. g[k].r = Past(r, Len(x))
    BY <2>4, <2>5, <2>6
  <2>10. g[k].r \in Reader /\ g[k].r.data = data /\ g[k].r.at = r.at + Len(x)
    BY <2>3, <2>8, <2>9
  <2>11. r.at + Len(x) <= Len(data)
    BY <2>3, <2>5, <2>6
  <2>12. \A i \in 1 .. Len(x) :
            x[i] = IF kind = "bool" /\ data[r.at + i] # 0 THEN 1 ELSE data[r.at + i]
    BY <2>3, <2>5, <2>6
  <2>13. g[k].r.at <= Len(data)
    BY <2>10, <2>11
  <2> QED BY <2>3, <2>5, <2>7, <2>10, <2>12, <2>13 DEF r, v, x, kind
<1> HIDE DEF w
<1>6. \A k \in 0 .. n : g[k].r \in Reader /\ g[k].r.data = data
  <2> DEFINE S == {k \in 0 .. n : g[k].r \in Reader /\ g[k].r.data = data}
  <2>1. 0 \in S
    <3>1. g[0].r = [data |-> data, at |-> 4, failed |-> FALSE]
      BY <1>2 DEF At
    <3>2. g[0].r \in Reader /\ g[0].r.data = data
      BY <3>1 DEF Reader
    <3> QED BY <1>1, <3>2
  <2>2. ASSUME NEW d \in 0 .. n - 1, d \in S PROVE d + 1 \in S
    <3>1. d + 1 \in 1 .. n /\ (d + 1) - 1 = d /\ d + 1 \in 0 .. n
      BY <1>1
    <3>2. g[(d + 1) - 1].r \in Reader /\ g[(d + 1) - 1].r.data = data
      BY <2>2, <3>1
    <3>3. g[d + 1].r \in Reader /\ g[d + 1].r.data = data
      BY <1>5, <3>1, <3>2
    <3> QED BY <3>1, <3>3
  <2>3. 0 .. n \subseteq S
    <3> HIDE DEF S
    <3> QED BY <1>1, <2>1, <2>2, UpFromZero
  <2> QED BY <2>3
<1>7. ASSUME NEW k \in 1 .. n
      PROVE  /\ g[k].value \in Values(L[k]) /\ Fits(L[k], g[k].value)
             /\ Len(w(k)) \in Nat
             /\ g[k - 1].r.at \in Nat /\ g[k].r.at = g[k - 1].r.at + Len(w(k))
             /\ g[k].r.at <= Len(data)
             /\ \A i \in 1 .. Len(w(k)) :
                   w(k)[i] = IF L[k] = "bool" /\ data[g[k - 1].r.at + i] # 0 THEN 1
                             ELSE data[g[k - 1].r.at + i]
  <2>1. k - 1 \in 0 .. n
    BY <1>1
  <2>2. g[k - 1].r \in Reader /\ g[k - 1].r.data = data
    BY <1>6, <2>1
  <2> QED BY <1>5, <2>2
<1>8. /\ Proper(m) /\ DOMAIN m.fields = 1 .. n
      /\ \A k \in 1 .. n : m.fields[k] = g[k].value /\ Part(m, k) = w(k)
  <2>1. DOMAIN m.fields = 1 .. n /\ \A k \in 1 .. n : m.fields[k] = g[k].value
    BY <1>3
  <2>2. m.fields = [k \in 1 .. n |-> m.fields[k]]
    BY <1>3, <2>1
  <2>3. m = [type |-> m.type, fields |-> m.fields]
    OBVIOUS
  <2>4. m = [type |-> m.type, fields |-> [k \in DOMAIN Layout[m.type] |-> m.fields[k]]]
    <3>1. DOMAIN Layout[m.type] = 1 .. n
      BY <1>1, <1>3 DEF L
    <3> QED BY <2>2, <2>3, <3>1
  <2>5. \A k \in DOMAIN m.fields : m.fields[k] \in Values(Layout[m.type][k])
    BY <1>3, <1>7, <2>1 DEF L
  <2>6. Proper(m)
    BY <1>3, <2>4, <2>5 DEF Proper
  <2>7. \A k \in 1 .. n : Part(m, k) = w(k)
    BY <1>3, <2>1 DEF Part, w, L
  <2> QED BY <2>1, <2>6, <2>7
<1>9. PICK pos : Places(m, pos)
  BY <1>8, BodyParts
<1> DEFINE b == Body(m)
<1>10. /\ pos \in [0 .. n -> Nat] /\ pos[0] = 0 /\ Len(b) = pos[n]
       /\ \A k \in 1 .. n :
             /\ pos[k] = pos[k - 1] + Len(w(k))
             /\ \A i \in 1 .. Len(w(k)) : b[pos[k - 1] + i] = w(k)[i]
       /\ \A j \in 1 .. Len(b) :
             \E k \in 1 .. n : \E i \in 1 .. Len(w(k)) : j = pos[k - 1] + i
  <2>1. n = Len(Layout[m.type])
    BY <1>3 DEF n, L
  <2> QED BY <1>8, <1>9, <2>1 DEF Places
<1> HIDE DEF b
<1>11. \A k \in 0 .. n : g[k].r.at = 4 + pos[k]
  <2> DEFINE S == {k \in 0 .. n : g[k].r.at = 4 + pos[k]}
  <2>1. 0 \in S
    <3>1. g[0].r.at = 4 + 0
      BY <1>2 DEF At
    <3> QED BY <1>1, <1>10, <3>1
  <2>2. ASSUME NEW d \in 0 .. n - 1, d \in S PROVE d + 1 \in S
    <3> DEFINE k == d + 1
    <3>1. k \in 1 .. n /\ k - 1 = d /\ k \in 0 .. n /\ d \in 0 .. n
      BY <1>1
    <3>2. g[d].r.at = 4 + pos[d]
      BY <2>2
    <3> HIDE DEF k
    <3>3. g[k].r.at = g[d].r.at + Len(w(k)) /\ Len(w(k)) \in Nat
      BY <1>7, <3>1
    <3>4. pos[k] = pos[d] + Len(w(k)) /\ pos[d] \in Nat
      BY <1>10, <3>1
    <3>5. g[k].r.at = 4 + pos[k]
      BY <3>2, <3>3, <3>4
    <3> QED BY <3>1, <3>5 DEF k
  <2>3. 0 .. n \subseteq S
    <3> HIDE DEF S
    <3> QED BY <1>1, <2>1, <2>2, UpFromZero
  <2> QED BY <2>3
<1>12. 4 + Len(b) <= Len(data)
  <2>1. n \in 1 .. n /\ n \in 0 .. n
    BY <1>1
  <2>2. g[n].r.at <= Len(data) /\ g[n].r.at = 4 + pos[n]
    BY <1>7, <1>11, <2>1
  <2> QED BY <1>10, <2>2
<1>13. ASSUME NEW j \in 1 .. Len(b)
       PROVE  b[j] = IF type = "HelloAck" /\ j = 1 /\ data[5] # 0 THEN 1 ELSE data[4 + j]
  <2>1. PICK k \in 1 .. n : \E i \in 1 .. Len(w(k)) : j = pos[k - 1] + i
    BY <1>10
  <2>2. PICK i \in 1 .. Len(w(k)) : j = pos[k - 1] + i
    BY <2>1
  <2>3. k - 1 \in 0 .. n /\ pos[k - 1] \in Nat /\ Len(w(k)) \in Nat
    BY <1>1, <1>7, <1>10
  <2>4. g[k - 1].r.at + i = 4 + j
    <3>1. g[k - 1].r.at = 4 + pos[k - 1]
      BY <1>11, <2>3
    <3> QED BY <2>2, <2>3, <3>1
  <2>5. b[j] = IF L[k] = "bool" /\ data[4 + j] # 0 THEN 1 ELSE data[4 + j]
    <3>1. b[j] = w(k)[i]
      BY <1>10, <2>2
    <3>2. w(k)[i] = IF L[k] = "bool" /\ data[g[k - 1].r.at + i] # 0 THEN 1
                    ELSE data[g[k - 1].r.at + i]
      BY <1>7
    <3> QED BY <2>4, <3>1, <3>2
  <2>6. ASSUME NEW l \in 1 .. n, L[l] = "bool"
        PROVE  type = "HelloAck" /\ l = 1 /\ Len(w(l)) = 1
    <3>1. type = "HelloAck" /\ l = 1
      BY <1>1, <2>6, TruthValues DEF L
    <3>2. g[l].value \in BOOLEAN
      BY <1>7, <2>6 DEF Values
    <3>3. w(l) = Written("bool", g[l].value)
      BY <2>6 DEF w
    <3> DEFINE x == Written("bool", g[l].value)
    <3>4. Len(x) = 1
      BY <3>2, TruthBytes
    <3>5. w(l) = x
      BY <3>3
    <3> HIDE DEF x
    <3> QED BY <3>1, <3>4, <3>5
  <2>7. CASE L[k] = "bool"
    <3>1. type = "HelloAck" /\ k = 1 /\ i = 1
      <4>1. type = "HelloAck" /\ k = 1 /\ Len(w(k)) = 1
        BY <2>6, <2>7
      <4>2. i \in 1 .. 1
        BY <4>1
      <4> QED BY <4>1, <4>2
    <3>2. j = 1 /\ 4 + j = 5
      BY <1>10, <2>2, <3>1
    <3> QED BY <2>5, <2>7, <3>1, <3>2
  <2>8. CASE L[k] # "bool"
    <3>1. type = "HelloAck" => j # 1
      <4> SUFFICES ASSUME type = "HelloAck" PROVE j # 1
        OBVIOUS
      <4>1. n = 3 /\ L[1] = "bool"
        <5>1. L = <<"bool", "u32", "str">>
          BY Layouts DEF L
        <5> QED BY <5>1 DEF n
      <4>2. 1 \in 1 .. n /\ 2 \in 1 .. n /\ 1 - 1 = 0 /\ 2 - 1 = 1
        BY <4>1
      <4>3. pos[1] = 1 /\ pos[2] = pos[1] + Len(w(2)) /\ Len(w(2)) \in Nat
        <5>1. pos[1] = pos[0] + Len(w(1)) /\ pos[2] = pos[1] + Len(w(2))
          BY <1>10, <4>2
        <5>2. Len(w(1)) = 1 /\ Len(w(2)) \in Nat
          BY <1>7, <2>6, <4>1, <4>2
        <5> QED BY <1>10, <5>1, <5>2
      <4>4. k = 2 \/ k = 3
        BY <2>8, <4>1
      <4>5. pos[k - 1] >= 1
        BY <4>3, <4>4
      <4> QED BY <2>2, <2>3, <4>5
    <3> QED BY <2>5, <2>8, <3>1
  <2> QED BY <2>7, <2>8
<1>14. \A k \in DOMAIN m.fields : Fits(Layout[type][k], m.fields[k])
  BY <1>7, <1>8 DEF L
<1> QED BY <1>8, <1>12, <1>13, <1>14 DEF b

\* Whatever stands in a datagram, what is decoded is what stands there, and
\* nothing is made up (Faithful): ReadStr takes no string over the limit or
\* behind the end, and writing the message again gives the same bytes.
THEOREM WhatIsReadStandsThere == Spec => []Faithful
<1>1. ASSUME WireInv, NEW m \in Decoded
      PROVE  /\ \A s \in Strings(m) : Len(s) <= kMaxStringSize
             /\ LET plain == IF m.type = "HelloAck" /\ datagram[5] # 0
                             THEN [datagram EXCEPT ![5] = 1] ELSE datagram
                IN  /\ TypeByte(m.type) = datagram[1]
                    /\ IsPrefix(Body(m), SubSeq(plain, 5, Len(plain)))
  <2>1. PICK type \in DOMAIN Layout : m = Decode(type, datagram) /\ m # Nothing
    BY <1>1 DEF Decoded
  <2> DEFINE result == Fields(type, At(datagram, 0))
             plain == IF m.type = "HelloAck" /\ datagram[5] # 0
                      THEN [datagram EXCEPT ![5] = 1] ELSE datagram
             b == Body(m)
  <2>2. /\ HasHeader(datagram) /\ TypeOf(datagram) = type /\ ~result.r.failed
        /\ m = [type |-> type, fields |-> result.values]
    <3>1. At(datagram, 0) = [data |-> datagram, at |-> 4, failed |-> FALSE]
      BY DEF At
    <3> QED BY <2>1, <3>1 DEF Decode
  <2>3. datagram \in Seq(Byte) /\ Len(datagram) >= 4 /\ Len(datagram) \in Nat
    BY <1>1, <2>2 DEF WireInv, HasHeader
  <2>4. /\ Proper(m) /\ m.type = type
        /\ \A k \in DOMAIN m.fields : Fits(Layout[type][k], m.fields[k])
        /\ 4 + Len(b) <= Len(datagram)
        /\ \A j \in 1 .. Len(b) :
              b[j] = IF type = "HelloAck" /\ j = 1 /\ datagram[5] # 0 THEN 1 ELSE datagram[4 + j]
    <3>1. m.type = type
      BY <2>2
    <3> HIDE DEF result
    <3>2. result = Fields(type, At(datagram, 0))
      BY DEF result
    <3> QED BY <2>2, <2>3, <3>1, <3>2, FieldsStand
  <2>5. \A s \in Strings(m) : Len(s) <= kMaxStringSize
    BY <2>4 DEF Strings, Fits
  <2>6. TypeByte(m.type) = datagram[1]
    BY <2>2, <2>4, TypeBytes DEF HasHeader, TypeOf
  <2>7. /\ plain \in Seq(Byte) /\ Len(plain) = Len(datagram)
        /\ \A j \in 1 .. Len(b) : b[j] = plain[4 + j]
    <3>1. b \in Seq(Byte) /\ Len(b) \in Nat
      <4>1. b \in Seq(Byte)
        BY <2>4, BodyParts
      <4> QED BY <4>1
    <3> HIDE DEF b, result
    <3>2. CASE type = "HelloAck" /\ datagram[5] # 0
      <4>1. plain = [datagram EXCEPT ![5] = 1] /\ 1 \in Byte
        BY <2>4, <3>2 DEF Byte
      <4>2. plain \in Seq(Byte) /\ Len(plain) = Len(datagram)
        <5> DEFINE n == Len(datagram)
        <5>1. datagram \in [1 .. n -> Byte]
          BY <2>3
        <5>2. plain \in [1 .. n -> Byte]
          BY <4>1, <5>1
        <5> HIDE DEF n, plain
        <5>3. n \in Nat
          BY <2>3 DEF n
        <5>4. plain \in Seq(Byte) /\ Len(plain) = n
          BY <5>2, <5>3
        <5> QED BY <5>4 DEF n
      <4>3. ASSUME NEW j \in 1 .. Len(b) PROVE b[j] = plain[4 + j]
        <5>1. 4 + j \in 1 .. Len(datagram) /\ (4 + j = 5 <=> j = 1)
          BY <2>3, <2>4, <3>1
        <5>2. plain[4 + j] = IF j = 1 THEN 1 ELSE datagram[4 + j]
          BY <2>3, <4>1, <5>1
        <5> QED BY <2>4, <3>2, <5>2
      <4> QED BY <4>2, <4>3
    <3>3. CASE ~(type = "HelloAck" /\ datagram[5] # 0)
      <4>1. plain = datagram
        BY <2>4, <3>3
      <4> QED BY <2>3, <2>4, <3>3, <4>1
    <3> QED BY <3>2, <3>3
  <2>8. IsPrefix(b, SubSeq(plain, 5, Len(plain)))
    <3>1. b \in Seq(Byte) /\ Len(b) \in Nat
      <4>1. b \in Seq(Byte)
        BY <2>4, BodyParts
      <4> QED BY <4>1
    <3> DEFINE l == Len(plain)
               t == SubSeq(plain, 5, l)
               p == SubSeq(t, 1, Len(b))
    <3>2. l \in Nat /\ 4 + Len(b) <= l /\ 5 \in Int /\ l \in Int /\ l >= 4
      BY <2>3, <2>4, <2>7
    <3> HIDE DEF plain, b, l, result
    <3>3. \A i \in 5 .. l : plain[i] \in Byte
      BY <2>7, <3>2 DEF l
    <3>4. /\ t \in Seq(Byte) /\ Len(t) = (IF 5 <= l THEN l - 5 + 1 ELSE 0)
          /\ \A i \in 1 .. l - 5 + 1 : t[i] = plain[5 + i - 1]
      BY <3>2, <3>3, SubSeqProperties
    <3> HIDE DEF t
    <3>5. Len(t) = l - 4 /\ \A i \in 1 .. Len(b) : t[i] = plain[4 + i]
      <4>1. Len(t) = l - 4 /\ l - 5 + 1 = l - 4
        BY <3>2, <3>4
      <4>2. \A i \in 1 .. Len(b) : i \in 1 .. l - 5 + 1 /\ 5 + i - 1 = 4 + i
        BY <3>1, <3>2
      <4> QED BY <3>4, <4>1, <4>2
    <3>6. Len(b) <= Len(t)
      BY <3>1, <3>2, <3>5
    <3>7. p \in Seq(Byte) /\ Len(p) = Len(b) /\ \A i \in 1 .. Len(b) : p[i] = t[i]
      BY <3>1, <3>4, <3>6
    <3> HIDE DEF p
    <3>8. p = b
      <4>1. \A i \in 1 .. Len(b) : p[i] = b[i]
        BY <2>7, <3>5, <3>7
      <4> QED BY <3>1, <3>7, <4>1, SeqEqual
    <3>9. SubSeq(b, 1, Len(b)) = b
      BY <3>1, SubSeqFull
    <3>10. IsPrefix(b, t)
      BY <3>6, <3>8, <3>9, Zenon DEF IsPrefix, p
    <3> QED BY <3>10 DEF t, l
  <2> QED BY <2>5, <2>6, <2>8
<1>2. WireInv => Faithful
  BY <1>1, Zenon DEF Faithful
<1> QED BY <1>2, WireAlways, PTL
=============================================================================
