-------------------------------- MODULE Wire --------------------------------
(***************************************************************************)
(* What stands in a datagram (Serialize.hpp, Protocol.hpp): Encode on one  *)
(* side, PeekHeader and Decode on the other, and a datagram that may have  *)
(* been damaged, cut or made by somebody else in between.                  *)
(*                                                                         *)
(* An integer is the sequence of its 16-bit words, the low one first: U32  *)
(* is two U16, U64 two U32, and F32 writes the bits of a float as U32.     *)
(* A string is the sequence of its bytes.                                  *)
(***************************************************************************)
EXTENDS Naturals, Sequences, SequencesExt

CONSTANTS
    kMaxDatagram,   \* bytes of a datagram
    kMaxStringSize, \* bytes of a string that is read
    Message,        \* the messages to send: [type, fields]
    Junk            \* the bytes that damage puts into a datagram

WordSize == 65536

Byte == 0 .. 255
Word == 0 .. WordSize - 1

ASSUME LimitsAssumption ==
    /\ kMaxDatagram \in Nat /\ kMaxStringSize \in Word
    /\ kMaxDatagram < WordSize
    /\ Junk \subseteq Byte

\* The fields of a message's body, in the order of its Write and Read.
Vec3 == <<"f32", "f32", "f32">>
Layout ==
    [Hello              |-> <<"u32", "str">>,
     HelloAck           |-> <<"bool", "u32", "str">>,
     Ping               |-> <<"u64">>,
     Pong               |-> <<"u64">>,
     PlayerState        |-> <<"u64">> \o Vec3 \o <<"f32">>,
     NotifyPlayerState  |-> <<"u32", "u64">> \o Vec3 \o <<"f32">>,
     NotifyPlayerJoined |-> <<"u32", "str">>,
     NotifyPlayerLeft   |-> <<"u32">>]

\* The enumerators of Type, from 1.
Types == <<"Hello", "HelloAck", "Ping", "Pong", "PlayerState", "NotifyPlayerState",
           "NotifyPlayerJoined", "NotifyPlayerLeft">>
TypeByte(type) == CHOOSE n \in DOMAIN Types : Types[n] = type

Words == [u32 |-> 2, u64 |-> 4, f32 |-> 2]

Values(kind) ==
    CASE kind = "bool" -> BOOLEAN
      [] kind = "str"  -> Seq(Byte)
      [] OTHER         -> [1 .. Words[kind] -> Word]

\* A message is a type and a value for each of its fields.
ASSUME MessageAssumption ==
    \A m \in Message :
       /\ m.type \in DOMAIN Layout
       /\ m = [type |-> m.type, fields |-> [k \in DOMAIN Layout[m.type] |-> m.fields[k]]]
       /\ \A k \in DOMAIN m.fields : m.fields[k] \in Values(Layout[m.type][k])

-----------------------------------------------------------------------------
(* Writer.                                                                 *)

U16(w) == <<w % 256, (w \div 256) % 256>>
U32(x) == U16(x[1]) \o U16(x[2])
U64(x) == U32(x) \o U32(<<x[3], x[4]>>)

\* (mutated) The length of a string is written as one byte.
WrittenShort(kind, x) ==
    CASE kind = "bool" -> <<IF x THEN 1 ELSE 0>>
      [] kind = "str"  -> <<Len(x) % 256, 0>> \o x
      [] kind = "u64"  -> U64(x)
      [] OTHER         -> U32(x)

Written(kind, x) ==
    CASE kind = "bool" -> <<IF x THEN 1 ELSE 0>>
      [] kind = "str"  -> U16(Len(x) % WordSize) \o x
      [] kind = "u64"  -> U64(x)
      [] OTHER         -> U32(x)

Body(m) == FlattenSeq([k \in DOMAIN m.fields |-> Written(Layout[m.type][k], m.fields[k])])

Flags(type) ==
    IF type \in {"Hello", "HelloAck", "NotifyPlayerJoined", "NotifyPlayerLeft"} THEN 1 ELSE 0

Header(type, size) == <<TypeByte(type), Flags(type)>> \o U16(size)

\* What Encode makes of m, or <<>> if it returns false.
Encode(m) ==
    LET body == Body(m)
    IN  IF 4 + Len(body) > kMaxDatagram THEN <<>>
        ELSE Header(m.type, Len(body)) \o body

-----------------------------------------------------------------------------
(* Reader: the bytes, how many are read, and whether it failed.  Failure   *)
(* is sticky.  A read gives the reader after it and the value.             *)

Available(r, n) == ~r.failed /\ Len(r.data) - r.at >= n

Failed(r) == [r EXCEPT !.failed = TRUE]

Past(r, n) == [r EXCEPT !.at = @ + n]

WordAt(r, k) == r.data[r.at + 2 * k - 1] + 256 * r.data[r.at + 2 * k]

ReadWords(r, n) ==
    IF Available(r, 2 * n)
    THEN [r |-> Past(r, 2 * n), value |-> [k \in 1 .. n |-> WordAt(r, k)]]
    ELSE [r |-> Failed(r), value |-> <<>>]

ReadBool(r) ==
    IF Available(r, 1) THEN [r |-> Past(r, 1), value |-> r.data[r.at + 1] # 0]
    ELSE [r |-> Failed(r), value |-> FALSE]

\* (mutated) Only the length is bounded.
ReadStrUnbounded(r) ==
    LET size == ReadWords(r, 1)
    IN  IF ~size.r.failed /\ Available(size.r, size.value[1])
        THEN [r |-> Past(size.r, size.value[1]),
              value |-> SubSeq(r.data, size.r.at + 1, size.r.at + size.value[1])]
        ELSE [r |-> Failed(size.r), value |-> <<>>]

\* Bounded before it is allocated: "the length prefix comes from the network".
ReadStr(r) ==
    LET size == ReadWords(r, 1)
    IN  IF /\ ~size.r.failed
           /\ size.value[1] <= kMaxStringSize /\ Available(size.r, size.value[1])
        THEN [r |-> Past(size.r, size.value[1]),
              value |-> SubSeq(r.data, size.r.at + 1, size.r.at + size.value[1])]
        ELSE [r |-> Failed(size.r), value |-> <<>>]

Read(kind, r) ==
    CASE kind = "bool" -> ReadBool(r)
      [] kind = "str"  -> ReadStr(r)
      [] OTHER         -> ReadWords(r, Words[kind])

\* The reader, and what it has read, after each field of the layout.
Fields(type, r) ==
    LET n == Len(Layout[type])
        read[k \in 0 .. n] ==
            IF k = 0 THEN [r |-> r, value |-> <<>>]
            ELSE Read(Layout[type][k], read[k - 1].r)
    IN  [r |-> read[n].r, values |-> [k \in 1 .. n |-> read[k].value]]

\* PeekHeader: the type and the declared size, if there is a header.
HasHeader(data) == Len(data) >= 4 /\ data[1] \in DOMAIN Types
TypeOf(data)    == Types[data[1]]
SizeOf(data)    == data[3] + 256 * data[4]

\* (mutated) The declared size may be less than what arrived.
SizeFits(data) == SizeOf(data) <= Len(data) - 4

SizeMatches(data) == SizeOf(data) = Len(data) - 4

Nothing == [type |-> "Invalid", fields |-> <<>>]

\* Decode as a message of this type, or Nothing if it returns false.
Decode(type, data) ==
    IF HasHeader(data) /\ TypeOf(data) = type /\ SizeMatches(data)
    THEN LET result == Fields(type, [data |-> data, at |-> 4, failed |-> FALSE])
         IN  IF result.r.failed THEN Nothing ELSE [type |-> type, fields |-> result.values]
    ELSE Nothing

-----------------------------------------------------------------------------
(* A datagram on its way.                                                  *)

VARIABLES
    message,    \* the message that was sent
    datagram,   \* the bytes on their way, <<>> if it could not be encoded
    damage      \* what happened to them

vars == <<message, datagram, damage>>

Init ==
    /\ message \in Message
    /\ datagram = Encode(message)
    /\ damage = "none"

\* Bytes are missing at the end.
Truncate(n) ==
    /\ damage = "none" /\ n < Len(datagram)
    /\ datagram' = SubSeq(datagram, 1, n)
    /\ damage' = "length"
    /\ UNCHANGED message

\* There is one byte more.
Extend(b) ==
    /\ damage = "none" /\ datagram # <<>>
    /\ datagram' = Append(datagram, b)
    /\ damage' = "length"
    /\ UNCHANGED message

\* A byte is another one, twice at most.
Overwrite(k, b) ==
    /\ damage \in {"none", "byte"} /\ k \in DOMAIN datagram
    /\ datagram' = [datagram EXCEPT ![k] = b]
    /\ damage' = IF damage = "none" THEN "byte" ELSE "bytes"
    /\ UNCHANGED message

\* Where the damage may be: near the two ends.
Near(n) == (0 .. IF n < 12 THEN n ELSE 12) \cup {k \in {n - 1, n} : k > 0}

Next ==
    \/ \E n \in Near(Len(datagram)) : Truncate(n)
    \/ \E b \in Junk : Extend(b) \/ \E k \in Near(Len(datagram)) : Overwrite(k, b)

Spec == Init /\ [][Next]_vars

-----------------------------------------------------------------------------
(* Properties.                                                             *)

Decoded == {Decode(type, datagram) : type \in DOMAIN Layout} \ {Nothing}

Strings(m) == {m.fields[k] : k \in {j \in DOMAIN m.fields : Layout[m.type][j] = "str"}}

\* A datagram that arrives whole is the message that was sent, and nothing
\* else, for all that was encoded and has no string over the reader's limit.
RoundTrip ==
    damage = "none" =>
       Decoded = IF datagram # <<>> /\ \A s \in Strings(message) : Len(s) <= kMaxStringSize
                 THEN {message} ELSE {}

\* One that is cut short or has bytes behind it is no message at all:
\* "the declared size must match what actually arrived" (Protocol.hpp).
LengthChecked == damage = "length" => Decoded = {}

\* Whatever was done to the bytes, what is decoded is what stands in them: its
\* encoding is the datagram again, but for bytes that no field reads, the
\* flags, and a truth value other than 0 and 1; and its strings are bounded.
Faithful ==
    \A m \in Decoded :
       /\ \A s \in Strings(m) : Len(s) <= kMaxStringSize
       /\ LET body == Body(m)
              plain == IF m.type = "HelloAck" /\ datagram[5] # 0
                       THEN [datagram EXCEPT ![5] = 1] ELSE datagram
          IN  /\ TypeByte(m.type) = datagram[1]
              /\ IsPrefix(body, SubSeq(plain, 5, Len(plain)))
=============================================================================
