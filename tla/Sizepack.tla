------------------------------ MODULE Sizepack ------------------------------
(***************************************************************************)
(* sizepack::varint, blockchain_varint and fixint: how sizes are packed    *)
(* one after the other with append(), and unpacked from a buffer in which  *)
(* the bytes arrive one at a time, each read as soon as unpack() does not  *)
(* say that it is incomplete. With them go zigzag, which makes sizes of    *)
(* signed numbers, and byte_order, which the packed formats rest on.       *)
(* Beside some definitions stands a form of them with a mistake, which no  *)
(* action uses: a property has to tell the two apart.                      *)
(***************************************************************************)
EXTENDS Integers, SequencesExt

CONSTANTS
    Sizes,       \* the sizes packed
    MaxSent,     \* how many of them
    Width        \* sizeof(size_type) of fixint

VARIABLES format, sent, wire, buffer, read

vars == <<format, sent, wire, buffer, read>>

Formats == {"varint", "blockchain", "fixint"}

-----------------------------------------------------------------------------
\* varint: seven bits a byte, the low ones first; the top bit says there are more.
More == 128
VarintAppend[v \in Nat] ==
    IF v > 127 THEN <<(v % 128) + More>> \o VarintAppend[v \div 128] ELSE <<v>>

\* result_length(): it counts groups of its own.
Groups[v \in Nat] == IF v = 0 THEN 0 ELSE 1 + Groups[v \div 128]
VarintResultLength(v) == IF Groups[v] = 0 THEN 1 ELSE Groups[v]

\* packed_length(): up to the first byte without the top bit, 0 if none is there.
VarintLength(b) ==
    LET last == {n \in DOMAIN b : b[n] < More}
    IN  IF last = {} THEN 0 ELSE CHOOSE n \in last : \A m \in last : n =< m

\* The value of the bytes, least significant first.
LittleEndian(b, base) ==
    LET value[n \in 0 .. Len(b)] ==
            IF n = Len(b) THEN 0 ELSE (b[n + 1] % base) + base * value[n + 1]
    IN  value[0]

-----------------------------------------------------------------------------
\* blockchain_varint: a prefix says how many bytes follow.
Prefix16 == 253
Prefix32 == 254
Prefix64 == 255

LenByPrefix(prefix) ==
    CASE prefix = Prefix16 -> 3 [] prefix = Prefix32 -> 5 [] prefix = Prefix64 -> 9
      [] OTHER -> 1

\* What is left of v when 0 to n of its bytes are shifted out, the low ones first.
Shifted(v, n) ==
    LET left[i \in 0 .. n] == IF i = 0 THEN v ELSE left[i - 1] \div 256 IN left
Bytes(v, n) == [i \in 1 .. n |-> Shifted(v, n)[i - 1] % 256]
Fits(v, n) == Shifted(v, n)[n] = 0

Prefixed(v) ==
    IF v =< 65535 THEN <<Prefix16>> \o Bytes(v, 2)
    ELSE IF Fits(v, 4) THEN <<Prefix32>> \o Bytes(v, 4) ELSE <<Prefix64>> \o Bytes(v, 8)
BlockchainPackAtPrefix(v) == IF v =< Prefix16 THEN <<v>> ELSE Prefixed(v)
BlockchainPack(v) == IF v < Prefix16 THEN <<v>> ELSE Prefixed(v)

BlockchainResultLength(v) ==
    IF v < Prefix16 THEN 1 ELSE IF v =< 65535 THEN 3 ELSE IF Fits(v, 4) THEN 5 ELSE 9

\* packed_length(), which looks at the first byte without asking for it.
BlockchainLength(b) == IF Len(b) >= LenByPrefix(b[1]) THEN LenByPrefix(b[1]) ELSE 0

\* The results unpack(begin, end) may have, as the eight bytes of size_type, the low
\* one first. A lone byte is converted as it is: one of a signed char with the sign
\* in all the others. The loop counts the prefix among the bytes to read, which end
\* has to stop; a ninth byte is shifted by 64, which is undefined: processors that
\* shift by 64 as by 0 add its bits to those of the first.
AnyFirst(word) == {[word EXCEPT ![1] = first] : first \in 0 .. 255}
SignExtended(byte, signed) ==
    [i \in 1 .. 8 |-> IF i = 1 THEN byte ELSE IF signed /\ byte >= 128 THEN 255 ELSE 0]
RangeResults(b, signed) ==
    IF LenByPrefix(b[1]) = 1 THEN {SignExtended(b[1], signed)}
    ELSE LET n == IF LenByPrefix(b[1]) < Len(b) - 1 THEN LenByPrefix(b[1]) ELSE Len(b) - 1
             word == [i \in 1 .. 8 |-> IF i =< n THEN b[i + 1] ELSE 0]
         IN  IF n =< 8 THEN {word} ELSE AnyFirst(word)

-----------------------------------------------------------------------------
\* fixint: as many bytes as the type has, the high ones first.
FixintPack(v) == [i \in 1 .. Width |-> Bytes(v, Width)[Width + 1 - i]]

-----------------------------------------------------------------------------
\* zigzag of a type whose values have the representations 0 .. 2 * half - 1, signed or
\* not; those from half on are negative numbers.
ToUnsigned(half, p) == IF p >= half THEN 2 * half - 1 - ((2 * p) % (2 * half)) ELSE 2 * p
ToSigned(half, v) == IF v % 2 = 1 THEN 2 * half - 1 - v \div 2 ELSE v \div 2
Signed(half, p) == IF p >= half THEN p - 2 * half ELSE p

\* byte_order: an integer is the sequence of its bytes, most significant first.
\* value() of 64 bits looks for the other order if it is to be LITTLE.
Orders == {"BIG", "LITTLE"}
Swap(b) == Reverse(b)
Write(b, order) == IF order = "BIG" THEN b ELSE Reverse(b)
ReadBytes(m, order) == IF order = "BIG" THEN m ELSE Reverse(m)
OrderValue(b, order, host) ==
    IF Len(b) = 1 THEN b
    ELSE IF order = "LITTLE" /\ Len(b) = 8 THEN IF host = "BIG" THEN b ELSE Swap(b)
    ELSE IF order = host THEN b ELSE Swap(b)

-----------------------------------------------------------------------------
Pack(v) ==
    CASE format = "varint" -> VarintAppend[v]
      [] format = "blockchain" -> BlockchainPack(v)
      [] format = "fixint" -> FixintPack(v)

ResultLength(v) ==
    CASE format = "varint" -> VarintResultLength(v)
      [] format = "blockchain" -> BlockchainResultLength(v)
      [] format = "fixint" -> Width

PackedLength(b) ==
    CASE format = "varint" -> VarintLength(b)
      [] format = "blockchain" -> BlockchainLength(b)
      [] format = "fixint" -> IF Len(b) < Width THEN 0 ELSE Width

Value(b) ==
    CASE format = "varint" -> LittleEndian(b, 128)
      [] format = "blockchain" -> LittleEndian(IF LenByPrefix(b[1]) = 1 THEN b ELSE Tail(b), 256)
      [] format = "fixint" -> LittleEndian([i \in 1 .. Width |-> b[Width + 1 - i]], 256)

\* unpack(data, len, &res): the bytes it takes, none if they are not all there.
UnpackAsFarAsItGoes(b) ==
    IF format = "varint" /\ PackedLength(b) = 0 THEN Len(b) ELSE PackedLength(b)
Unpack(b) == PackedLength(b)

-----------------------------------------------------------------------------
Init == format \in Formats /\ sent = <<>> /\ wire = <<>> /\ buffer = <<>> /\ read = <<>>

Send(v) ==
    /\ Len(sent) < MaxSent
    /\ sent' = Append(sent, v)
    /\ wire' = wire \o Pack(v)
    /\ UNCHANGED <<format, buffer, read>>

Arrive ==
    /\ wire # <<>>
    /\ buffer' = Append(buffer, Head(wire))
    /\ wire' = Tail(wire)
    /\ UNCHANGED <<format, sent, read>>

Receive ==
    /\ buffer # <<>>
    /\ LET n == Unpack(buffer)
       IN  /\ n > 0
           /\ read' = Append(read, Value(SubSeq(buffer, 1, n)))
           /\ buffer' = SubSeq(buffer, n + 1, Len(buffer))
    /\ UNCHANGED <<format, sent, wire>>

Next == (\E v \in Sizes : Send(v)) \/ Arrive \/ Receive

Spec == Init /\ [][Next]_vars

-----------------------------------------------------------------------------
\* Every size fits the type the formats are for: 64 bits, or as many bytes as Width
\* says.
SizesFit ==
    Width \in Nat \ {0} /\ Sizes \subseteq Nat /\ \A v \in Sizes : Fits(v, 8) /\ Fits(v, Width)

(***************************************************************************)
(* What was packed is unpacked, in order and with no byte left over,       *)
(* wherever the buffer ends when unpack() looks at it (varint.h:120,       *)
(* blockchain_varint.h:141): a size that has not arrived in full is not    *)
(* taken for another, and the bytes of the next one are not taken with it. *)
(***************************************************************************)
ReadInOrder ==
    /\ Len(read) =< Len(sent)
    /\ read = SubSeq(sent, 1, Len(read))
    /\ wire = <<>> /\ buffer = <<>> => read = sent

\* A number in memory is its bytes in the host's order. The two ways of zigzag are
\* each other's inverse and keep small numbers small. value() gives what write()
\* writes, but for 64 bits in LITTLE order, which it gets wrong on both kinds of
\* hosts.
InMemory(b, host) == Write(b, host)
ZigzagAgrees(half) ==
    \A p \in 0 .. 2 * half - 1 :
        LET n == Signed(half, p)
        IN  /\ ToUnsigned(half, p) = IF n >= 0 THEN 2 * n ELSE -2 * n - 1
            /\ ToSigned(half, ToUnsigned(half, p)) = p
ByteOrdersAgree ==
    \A size \in {1, 2, 4, 8}, order, host \in Orders :
        LET b == [i \in 1 .. size |-> i]
        IN  /\ ReadBytes(Write(b, order), order) = b
            /\ InMemory(OrderValue(b, order, host), host) = Write(b, order)
                   <=> ~(size = 8 /\ order = "LITTLE")

\* Where unpack(begin, end) of blockchain_varint gives v as unpack() of the pointer
\* does: from unsigned bytes always, from a std::string, whose chars are signed, but
\* for 128 .. 252, and when end is one byte further only if that byte is read as 0
\* or not at all.
RangeAgrees(v) ==
    LET packed == BlockchainPack(v)
        gives(b, signed) == RangeResults(b, signed) = {Bytes(v, 8)}
    IN  /\ gives(packed, FALSE)
        /\ gives(packed, TRUE) <=> v \notin 128 .. 252
        /\ \A next \in {0, 1, 255} :
               gives(Append(packed, next), FALSE)
                   <=> Len(packed) = 1 \/ (next = 0 /\ Len(packed) < 9)

(***************************************************************************)
(* The functions that say the same in code of their own agree, where they  *)
(* do and nowhere else: the length result_length() announces is that of    *)
(* the packed bytes and the one packed_length() finds again (varint.h:45,  *)
(* blockchain_varint.h:67); unpack() of the range gives what unpack() of   *)
(* the pointer does, but for the sign (blockchain_varint.h:129) and the    *)
(* byte too many (131); the two ways of zigzag are each other's inverse    *)
(* and keep small numbers small; and an integer in memory after value() is *)
(* what write() writes and read() reads, on hosts of both orders, but for  *)
(* 64 bits in LITTLE order (byte_order.h:240).                             *)
(***************************************************************************)
OverloadsAgree ==
    /\ ZigzagAgrees(128) /\ ByteOrdersAgree
    /\ \A i \in DOMAIN sent :
           LET packed == Pack(sent[i])
           IN  /\ ResultLength(sent[i]) = Len(packed)
               /\ PackedLength(packed) = Len(packed)
               /\ \A n \in 1 .. Len(packed) - 1 : PackedLength(SubSeq(packed, 1, n)) = 0
               /\ format = "blockchain" => RangeAgrees(sent[i])
=============================================================================
