-------------------------------- MODULE Text --------------------------------
(***************************************************************************)
(* charset::utf8 and details::byte_hex: code points are written one after  *)
(* the other, and any part of the bytes may be read back; and the cast of  *)
(* text to a floating point number of details/lexical_cast.h. A byte is a  *)
(* number. Code points of 2^31 and more, which the code writes as nothing, *)
(* are beyond the integers of TLC and left out.                            *)
(* Beside some definitions stands a form of them with a mistake, which no  *)
(* action uses: a property has to tell the two apart.                      *)
(***************************************************************************)
EXTENDS Integers, SequencesExt

CONSTANTS
    CodePoints,      \* those that are written
    MaxLength        \* how many of them

VARIABLES text, bytes

vars == <<text, bytes>>

\* '?', which stands for a byte that cannot be read.
Question == 63

-----------------------------------------------------------------------------
\* ucs4_to_utf8(): the first byte of a sequence of n, and the greatest code point
\* that n bytes carry.
Lead == <<0, 192, 224, 240, 248, 252>>
Ranges == <<127, 2047, 65535, 2097151, 67108863, 2147483647>>

Length(ucs) == CHOOSE n \in 1 .. 6 : ucs =< Ranges[n] /\ (n > 1 => ucs > Ranges[n - 1])
\* What is left of it when 0 to n groups of six bits are shifted out, the low ones first.
Shifted(ucs, n) ==
    LET left[i \in 0 .. n] == IF i = 0 THEN ucs ELSE left[i - 1] \div 64 IN left
Encode(ucs) ==
    LET n == Length(ucs)
        left == Shifted(ucs, n)
    IN  [i \in 1 .. n |-> IF i = 1 THEN Lead[n] + left[n - 1] ELSE 128 + (left[n - i] % 64)]
EncodeAll(s) == FlattenSeq([i \in DOMAIN s |-> Encode(s[i])])

\* sizes(): by the first byte, 0 for one that begins nothing.
SizesOf(b) ==
    CASE b < 128 -> 1 [] 192 =< b /\ b < 224 -> 2 [] 224 =< b /\ b < 240 -> 3
      [] 240 =< b /\ b < 248 -> 4 [] 248 =< b /\ b < 252 -> 5 [] 252 =< b /\ b < 254 -> 6
      [] OTHER -> 0

\* utf8_to_ucs4() of the bytes from i on: how many it uses, 0 if they are not all
\* there, and what they make.
UsedAllThereAre(b, i) ==
    LET left == Len(b) - i + 1 IN IF left < SizesOf(b[i]) THEN left ELSE SizesOf(b[i])
Used(b, i) == IF Len(b) - i + 1 < SizesOf(b[i]) THEN 0 ELSE SizesOf(b[i])
Decoded(b, i) ==
    LET n == Used(b, i)
        value[k \in 1 .. n] ==
            IF k = 1 THEN b[i] - Lead[n] ELSE value[k - 1] * 64 + (b[i + k - 1] - 128)
    IN  value[n]

\* The loop of utf8_to_ucs4() and utf8_to_ucs2() over a string.
Decode(b) ==
    LET from[i \in 1 .. Len(b) + 1] ==
            IF i > Len(b) THEN <<>>
            ELSE IF Used(b, i) = 0 THEN <<Question>> \o from[i + 1]
            ELSE <<Decoded(b, i)>> \o from[i + Used(b, i)]
    IN  from[1]
DecodeUcs2(b) == [i \in DOMAIN Decode(b) |-> Decode(b)[i] % 65536]

-----------------------------------------------------------------------------
\* byte_hex: to_hex() and to_Hex() of bytes, which differ in the letters they use,
\* and from_hex(), which takes both.
Fail == <<-1>>
Digit(n, letter) == IF n < 10 THEN 48 + n ELSE letter + n - 10
ToHex(b, letter) == FlattenSeq([i \in DOMAIN b |-> <<Digit(b[i] \div 16, letter), Digit(b[i] % 16, letter)>>])
ToLowerHex(b) == ToHex(b, 97)
ToUpperHex(b) == ToHex(b, 65)

Char2Int(c) ==
    CASE 48 =< c /\ c =< 57 -> c - 48 [] 97 =< c /\ c =< 102 -> c - 97 + 10
      [] 65 =< c /\ c =< 70 -> c - 65 + 10 [] OTHER -> 255
FromHex(h) ==
    IF Len(h) % 2 # 0 \/ \E i \in DOMAIN h : Char2Int(h[i]) = 255 THEN Fail
    ELSE [i \in 1 .. Len(h) \div 2 |-> 16 * Char2Int(h[2 * i - 1]) + Char2Int(h[2 * i])]

-----------------------------------------------------------------------------
\* lexical_cast_floating::cast() of a text that ends with a 0: the number is
\* sign * digits * 10^exponent, before floating point rounds it, and at is the
\* character read next. A gap is no digit, so the code that skips one is never reached.
End0(s) == Append(s, 0)
IsDigit(c) == 48 =< c /\ c =< 57
IsExp(c) == c \in {101, 69}
Minus == 45
Plus == 43
Dot == 46

\* The loops over the digits: from at on, until a character that is none, which is
\* read too, or the end, which is not.
Digits(s, at) ==
    LET last == CHOOSE n \in at .. Len(s) : ~IsDigit(s[n]) /\ \A m \in at .. n - 1 : IsDigit(s[m])
    IN  [digits |-> SubSeq(s, at, last - 1),
         stop |-> s[last],
         at |-> IF s[last] = 0 THEN last ELSE last + 1]
Number(d) == FoldLeft(LAMBDA n, c : n * 10 + (c - 48), 0, d)

Cast(t) ==
    LET s == End0(t)
        sign == IF s[1] = Minus THEN -1 ELSE 1
        whole == Digits(s, IF s[1] = Minus THEN 2 ELSE 1)
        hasPart == whole.stop = Dot
        part == IF hasPart THEN Digits(s, whole.at) ELSE whole
        hasExp == IsExp(part.stop)
        signed == hasExp /\ s[part.at] \in {Plus, Minus}
        power == IF hasExp THEN Digits(s, IF signed THEN part.at + 1 ELSE part.at).digits ELSE <<>>
    IN  [sign |-> sign,
         digits |-> Number(whole.digits \o (IF hasPart THEN part.digits ELSE <<>>)),
         exponent |-> (IF hasExp /\ s[part.at] = Minus THEN -Number(power) ELSE Number(power))
                      - (IF hasPart THEN Len(part.digits) ELSE 0)]

-----------------------------------------------------------------------------
Init == text = <<>> /\ bytes = <<>>

Write(ucs) ==
    /\ Len(text) < MaxLength
    /\ text' = Append(text, ucs)
    /\ bytes' = bytes \o Encode(ucs)

Next == \E ucs \in CodePoints : Write(ucs)

Spec == Init /\ [][Next]_vars

-----------------------------------------------------------------------------
\* What is written has a form in UTF-8.
Encodable == \A ucs \in CodePoints : ucs \in Nat /\ ucs =< Ranges[6]

(***************************************************************************)
(* A number is read up to the character that cannot belong to it, whatever *)
(* follows (lexical_cast.h:43): each part of it may be missing, also the   *)
(* digits after the dot, the e and the sign, and a text that breaks off in *)
(* one of them counts as far as it goes.                                   *)
(***************************************************************************)
Gap == 95
Numerals == {<<>>, <<48>>, <<50, 49>>}
NumbersRead ==
    \A sign \in {<<>>, <<Minus>>}, whole, part, power \in Numerals,
       dot \in {<<>>, <<Dot>>}, e \in {<<>>, <<101>>, <<69, Plus>>, <<69, Minus>>},
       rest \in {<<>>, <<Gap, 49>>, <<32>>, <<Minus>>} :
        LET hasPower == e # <<>>
            p == IF dot = <<>> THEN <<>> ELSE part
            t == sign \o whole \o dot \o p \o e \o (IF hasPower THEN power ELSE <<>>) \o rest
        IN  (e = <<101>> /\ power = <<>> => rest # <<Minus>>)
                /\ (sign \o whole \o dot \o e = <<>> => rest # <<Minus>>) =>
            Cast(t) = [sign |-> IF sign = <<>> THEN 1 ELSE -1,
                       digits |-> Number(whole \o p),
                       exponent |-> (IF ~hasPower THEN 0
                                     ELSE IF e[Len(e)] = Minus THEN -Number(power) ELSE Number(power))
                                    - Len(p)]

\* The bytes of the k-th code point, and what is to be read of the bytes i to j:
\* the code points that are there in full, and a mark for each byte of the others.
BytesOf(k) ==
    LET before == Len(EncodeAll(SubSeq(text, 1, k - 1)))
    IN  before + 1 .. before + Len(Encode(text[k]))
Readable(i, j) ==
    FlattenSeq([k \in DOMAIN text |->
        IF BytesOf(k) \subseteq i .. j THEN <<text[k]>>
        ELSE [n \in 1 .. Cardinality(BytesOf(k) \cap i .. j) |-> Question]])

(***************************************************************************)
(* Whatever part of a text is read, it gives the code points that are in it*)
(* in full, and a mark for every byte of those that were cut at the two    *)
(* ends (utf8.h:159): no code point is swallowed by a cut one before it,   *)
(* none is read with bytes of the next. In 16 bits the code points that    *)
(* have no more come back. The bytes survive hexadecimal digits of either  *)
(* case, and a string of digits that was cut in a byte is refused.         *)
(***************************************************************************)
ReadsBack ==
    /\ NumbersRead
    /\ \A i \in 1 .. Len(bytes) + 1 : \A j \in i - 1 .. Len(bytes) :
           Decode(SubSeq(bytes, i, j)) = Readable(i, j)
    /\ (\A k \in DOMAIN text : text[k] < 65536) => EncodeAll(DecodeUcs2(bytes)) = bytes
    /\ \A h \in {ToLowerHex(bytes), ToUpperHex(bytes)} :
           /\ FromHex(h) = bytes
           /\ \A n \in DOMAIN h : n % 2 = 1 => FromHex(SubSeq(h, 1, n)) = Fail
=============================================================================
