------------------------------- MODULE MCWire -------------------------------
(* Messages at the limits of the code, for TLC: words with a zero byte and *)
(* a full one, strings as long as is read, as a datagram holds, and one    *)
(* byte more.                                                              *)
EXTENDS Wire

Samples == {0, 1, 255, 256, 65535}

String(n) == [k \in 1 .. n |-> (97 + k) % 256]

\* 1190 bytes and six of the body's other fields fill a datagram of Hello.
Lengths == {0, 1, 2, 255, 256, 257, 511, 512, 1189, 1190, 1191}

Integer(n) == {[k \in 1 .. n |-> w] : w \in Samples} \cup {[k \in 1 .. n |-> 258 * k]}

MCMessage ==
         {[type |-> t, fields |-> <<<<2, 0>>, String(n)>>] :
             t \in {"Hello", "NotifyPlayerJoined"}, n \in Lengths}
    \cup {[type |-> "HelloAck", fields |-> <<b, i, String(n)>>] :
             b \in BOOLEAN, i \in {<<2, 0>>, <<65535, 256>>}, n \in {0, 1, 19, 256, 257}}
    \cup {[type |-> t, fields |-> <<i>>] : t \in {"Ping", "Pong"}, i \in Integer(4)}
    \cup {[type |-> "NotifyPlayerLeft", fields |-> <<i>>] : i \in Integer(2)}
    \cup {[type |-> "PlayerState", fields |-> <<i, x, y, x, y>>] :
             i \in Integer(4), x, y \in {<<0, 0>>, <<513, 16256>>}}
    \cup {[type |-> "NotifyPlayerState", fields |-> <<p, i, x, x, y, x>>] :
             p \in Integer(2), i \in Integer(4), x, y \in {<<255, 49024>>}}

MCJunk == {0, 1, 2, 3, 7, 24, 255}
=============================================================================
