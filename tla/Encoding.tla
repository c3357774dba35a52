------------------------------ MODULE Encoding -------------------------------
(* The byte encodings that order and compare facts rely on: packed natural   *)
(* numbers (glean/rts/nat), mangled strings (glean/rts/string) and the       *)
(* relative byte spans of prim.cpp.                                          *)
(*                                                                           *)
(* A byte has ByteBits bits, and everything else about numbers follows: an   *)
(* encoding has up to ByteBits + 1 bytes and a word ByteBits^2 bits.  With 8 *)
(* these are the numbers of the code.                                        *)
EXTENDS Integers, Sequences, SequencesExt, FiniteSets, FiniteSetsExt

CONSTANTS ByteBits,
          Chars,        \* characters, each the sequence of its bytes
          MaxBytes,     \* bound on a buffer
          MaxChars,     \* bound on the characters of a text
          MaxSpans      \* bound on the spans of an array

ASSUME EncodingAssumption == ByteBits \in 2 .. 8

VARIABLES num,          \* a number
          buf,          \* bytes that were received
          text, other,  \* two strings of characters
          spans         \* relative byte spans, <<offset, length>>

encVars == <<num, buf, text, other, spans>>

Byte == 0 .. 2 ^ ByteBits - 1
WordSize == 2 ^ (ByteBits * ByteBits)

-----------------------------------------------------------------------------
(* Packed natural numbers. *)

Sum(F(_), S) == FoldSet(LAMBDA x, n : n + F(x), 0, S)

\* The first number with an encoding of n bytes: 0x80, 0x4080, 0x204080...
Start(n) == Sum(LAMBDA k : 2 ^ (k * (ByteBits - 1)), 1 .. n - 1)

\* The bits of the first byte that tell the size, and what is left of it.
Prefix(n) == 2 ^ ByteBits - 2 ^ (ByteBits + 1 - n)
Longest == ByteBits + 1

natSize(b0) == Max({n \in 1 .. Longest : Prefix(n) <= b0})

\* Big endian bytes.
BigEndian(bytes) == FoldLeft(LAMBDA n, b : n * 2 ^ ByteBits + b, 0, bytes)
ToBytes(value, n) == [i \in 1 .. n |-> (value \div 2 ^ (ByteBits * (n - i))) % 2 ^ ByteBits]

\* Mutant: the start of the range is not subtracted.
storeNatPlain(value) ==
    LET n == Min({k \in 1 .. Longest : k = Longest \/ value < Start(k + 1)})
        out == ToBytes(value, n)
    IN  IF n = Longest THEN <<Prefix(n)>> \o ToBytes(value, ByteBits)
        ELSE [out EXCEPT ![1] = (@ + Prefix(n)) % 2 ^ ByteBits]

storeNat(value) ==
    LET n == Min({k \in 1 .. Longest : k = Longest \/ value < Start(k + 1)})
        out == ToBytes(value - Start(n), n)
    IN  IF n = Longest THEN <<Prefix(n)>> \o ToBytes(value - Start(n), ByteBits)
        ELSE [out EXCEPT ![1] = @ + Prefix(n)]

\* load<n> and decode<n>: the sum wraps.
loadTrustedNat(bytes) ==
    LET n == natSize(bytes[1])
        rest == SubSeq(bytes, 2, n)
        payload == BigEndian(IF n = Longest THEN rest ELSE <<bytes[1] - Prefix(n)>> \o rest)
    IN  [value |-> (payload + Start(n)) % WordSize, size |-> n]

Invalid == [value |-> 0, size |-> 0]

\* decodeCheck: the longest encodings must not have overflowed.
loadUntrustedNat(bytes) ==
    IF bytes = <<>> \/ natSize(Head(bytes)) > Len(bytes) THEN Invalid
    ELSE LET r == loadTrustedNat(bytes)
         IN  IF r.size = Longest /\ r.value < Start(Longest) THEN Invalid ELSE r

\* The bytes to skip, 0 for an invalid number: the limit of the payload is
\* 0xFEFDFBF7EFDFBF7F.
skipUntrustedNat(bytes) ==
    IF bytes = <<>> \/ natSize(Head(bytes)) > Len(bytes) THEN 0
    ELSE LET n == natSize(Head(bytes))
         IN  IF n = Longest /\ BigEndian(SubSeq(bytes, 2, n)) > WordSize - 1 - Start(Longest) THEN 0 ELSE n

-----------------------------------------------------------------------------
(* Strings.  Of the bytes, 0 and 1 are themselves, UpperA and LowerA stand   *)
(* for the letters, and what follows is not ASCII: the first byte of a       *)
(* character of two bytes, the second one of an upper or a lower case one,   *)
(* and the first byte of a character whose code is a multiple of 0x10000.    *)

UpperA == 2
LowerA == 3
Lead == 4
TailUpper == 5
TailLower == 6
LeadPlane == 8

Ascii == 0 .. LowerA

\* One use of U8_NEXT at byte i, whose result is stored in 16 bits without a
\* sign: an invalid sequence is 0xFFFF, neither 0 nor less than 0.
U8_NEXT(p, i) ==
    IF p[i] \in Ascii THEN [c |-> p[i], i |-> i + 1]
    ELSE IF p[i] \in {Lead, LeadPlane} /\ i < Len(p) /\ p[i + 1] \in {TailUpper, TailLower}
    THEN [c |-> IF p[i] = LeadPlane THEN 0 ELSE 256, i |-> i + 2]
    ELSE [c |-> 65535, i |-> i + 1]

\* Bytes k .. n - 1 of p, where the first byte is 1.
Chunk(p, k, n) == SubSeq(p, k, n - 1)

Refused == [size |-> 0, out |-> <<>>]

\* Mutant: a zero byte may be followed by anything.
RECURSIVE UntrustedLoopAnyNul(_, _, _, _)
UntrustedLoopAnyNul(p, i, k, out) ==
    LET u == U8_NEXT(p, i)
    IN  IF u.c # 0 THEN UntrustedLoopAnyNul(p, u.i, k, out)
        ELSE IF u.i > Len(p) THEN Refused
        ELSE IF p[u.i] = 0 THEN [size |-> u.i, out |-> out \o Chunk(p, k, u.i - 1)]
        ELSE UntrustedLoopAnyNul(p, u.i + 1, u.i + 1, out \o Chunk(p, k, u.i))

\* The loop of untrustedChunks, at byte i of a chunk that began at k.
RECURSIVE UntrustedLoop(_, _, _, _)
UntrustedLoop(p, i, k, out) ==
    LET u == U8_NEXT(p, i)
    IN  IF u.c # 0 THEN UntrustedLoop(p, u.i, k, out)
        ELSE IF u.i > Len(p) THEN Refused
        ELSE CASE p[u.i] = 0 -> [size |-> u.i, out |-> out \o Chunk(p, k, u.i - 1)]
               [] p[u.i] = 1 -> UntrustedLoop(p, u.i + 1, u.i + 1, out \o Chunk(p, k, u.i))
               [] OTHER -> Refused

\* untrustedChunks with demangleUntrustedString's chunk: the bytes that were
\* read and the demangled string.  The buffer holds a terminator.
demangleUntrustedString(p) ==
    LET i == Min({j \in 1 .. Len(p) : p[j] = 0 \/ p[j] \notin Ascii})
    IN  IF i < Len(p) /\ p[i] = 0 /\ p[i + 1] = 0 THEN [size |-> i + 1, out |-> Chunk(p, 1, i)]
        ELSE UntrustedLoop(p, i, 1, <<>>)

\* trustedChunks with demangleTrustedString's chunk.
RECURSIVE TrustedLoop(_, _, _, _)
TrustedLoop(p, k, nuls, out) ==
    LET q == Min({j \in k .. Len(p) : p[j] = 0})
    IN  IF p[q + 1] = 0 THEN [size |-> q + 1, nuls |-> nuls + 1, out |-> out \o Chunk(p, k, q)]
        ELSE TrustedLoop(p, q + 2, nuls + 1, out \o Chunk(p, k, q + 1))

demangleTrustedString(p) == TrustedLoop(p, 1, 0, <<>>).out

\* The mangled and the demangled size.
skipTrustedString(p) == LET r == TrustedLoop(p, 1, 0, <<>>) IN <<r.size, r.size - r.nuls - 1>>

mangleString(s) ==
    FlattenSeq([i \in DOMAIN s |-> IF s[i] = 0 THEN <<0, 1>> ELSE <<s[i]>>]) \o <<0, 0>>

\* u_tolower, and the bytes of what it answers (external, ICU).
ToLower(char) == IF char[Len(char)] = TailUpper THEN [char EXCEPT ![Len(char)] = TailLower] ELSE char

RECURSIVE LowerFrom(_, _)
LowerFrom(p, i) ==
    IF i > Len(p) THEN <<>>
    ELSE IF p[i] \in Ascii THEN <<IF p[i] = UpperA THEN LowerA ELSE p[i]>> \o LowerFrom(p, i + 1)
    ELSE ToLower(SubSeq(p, i, i + 1)) \o LowerFrom(p, i + 2)

toLowerTrustedString(p) == LowerFrom(p, 1)

-----------------------------------------------------------------------------
(* Byte spans, an array of pairs of varints. *)

\* Input::packed and Output::packed (external, folly's varints).
RECURSIVE Packed(_)
Packed(n) == IF n < 2 ^ (ByteBits - 1) THEN <<n>>
             ELSE <<(n % 2 ^ (ByteBits - 1)) + 2 ^ (ByteBits - 1)>> \o Packed(n \div 2 ^ (ByteBits - 1))

RECURSIVE Unpacked(_)
Unpacked(p) ==
    IF Head(p) < 2 ^ (ByteBits - 1) THEN [value |-> Head(p), rest |-> Tail(p)]
    ELSE LET u == Unpacked(Tail(p))
         IN  [u EXCEPT !.value = Head(p) - 2 ^ (ByteBits - 1) + @ * 2 ^ (ByteBits - 1)]

PackedSpans(ss) ==
    Packed(Len(ss)) \o FlattenSeq([i \in DOMAIN ss |-> Packed(ss[i][1]) \o Packed(ss[i][2])])

\* The loop of relToAbsByteSpans, with n spans to go.
RECURSIVE SpanLoop(_, _, _)
SpanLoop(p, n, start) ==
    IF n = 0 THEN <<>>
    ELSE LET offset == Unpacked(p)
             length == Unpacked(offset.rest)
             at == (start + offset.value) % WordSize
         IN  Packed(at) \o Packed(length.value) \o SpanLoop(length.rest, n - 1, at)

relToAbsByteSpans(p) ==
    LET length == Unpacked(p) IN Packed(length.value) \o SpanLoop(length.rest, length.value, 0)

-----------------------------------------------------------------------------
(* The values that the operations are applied to. *)

Count == num < WordSize - 1 /\ num' = num + 1 /\ UNCHANGED <<buf, text, other, spans>>

ReceiveByte(b) ==
    /\ Len(buf) < MaxBytes
    /\ buf' = Append(buf, b)
    /\ UNCHANGED <<num, text, other, spans>>

TypeText(char) ==
    /\ Len(text) < MaxChars
    /\ text' = Append(text, char)
    /\ UNCHANGED <<num, buf, other, spans>>

TypeOther(char) ==
    /\ Len(other) < MaxChars
    /\ other' = Append(other, char)
    /\ UNCHANGED <<num, buf, text, spans>>

AddSpan(offset, length) ==
    /\ Len(spans) < MaxSpans
    /\ spans' = Append(spans, <<offset, length>>)
    /\ UNCHANGED <<num, buf, text, other>>

EncodingInit == num = 0 /\ buf = <<>> /\ text = <<>> /\ other = <<>> /\ spans = <<>>

-----------------------------------------------------------------------------
(* Properties. *)

\* memcmp: the order of byte strings.
Less(a, b) ==
    \/ IsStrictPrefix(a, b)
    \/ \E i \in DOMAIN a \cap DOMAIN b : a[i] < b[i] /\ SubSeq(a, 1, i - 1) = SubSeq(b, 1, i - 1)

\* "Packed numbers compare lexicographically" (nat.h): the encoding of a
\* number and that of the one before, up to the largest word, are in order and
\* neither is the start of the other, and decoding gives the number back.
NatsOrdered ==
    num > 0 =>
        LET e == storeNat(num - 1)
            f == storeNat(num)
        IN  /\ loadUntrustedNat(f) = [value |-> num, size |-> Len(f)]
            /\ \A i \in DOMAIN f : f[i] \in Byte
            /\ Less(e, f) /\ ~IsPrefix(e, f)

\* "every 64-bit number has exacly one packed representation" (nat.h): of any
\* bytes at all, those that are read as a number are the ones that storing it
\* writes.
NatsUnique ==
    buf # <<>> =>
        LET r == loadUntrustedNat(buf)
        IN  r # Invalid => storeNat(r.value) = SubSeq(buf, 1, r.size)

\* Skipping a number and reading it refuse the same bytes and use as many.
SkipAgrees == buf # <<>> => skipUntrustedNat(buf) = loadUntrustedNat(buf).size

Bytes(t) == FlattenSeq(t)

\* A string comes back from its mangled form, by the trusted and the untrusted
\* way, whatever follows it, and skipping it gives both sizes.
StringsRoundTrip ==
    text # other =>
        LET s == Bytes(text)
            m == mangleString(s)
            p == m \o mangleString(Bytes(other))
        IN  /\ demangleUntrustedString(p) = [size |-> Len(m), out |-> s]
            /\ demangleTrustedString(p) = s
            /\ skipTrustedString(p) = <<Len(m), Len(s)>>

\* "memcmp sorts strings as expected (esp. for prefixes)" (string.h).
StringsOrdered ==
    text # other => (Less(Bytes(text), Bytes(other)) <=> Less(mangleString(Bytes(text)), mangleString(Bytes(other))))

\* Bytes that are accepted as a string are the ones that mangling what was
\* read from them writes: two facts with different bytes are different facts.
StringsUnique ==
    buf # <<>> =>
        LET p == buf \o <<0, 0>>
            r == demangleUntrustedString(p)
        IN  r # Refused => mangleString(r.out) = SubSeq(p, 1, r.size)

\* Lowering the mangled string is mangling the lowered one.
LowerCommutes ==
    text # <<>> =>
        LET lower(char) == IF char = <<UpperA>> THEN <<LowerA>> ELSE ToLower(char)
        IN  toLowerTrustedString(mangleString(Bytes(text)))
                = mangleString(Bytes([i \in DOMAIN text |-> lower(text[i])]))

\* The absolute position of a span is the sum of the offsets up to it, and
\* lengths are left alone.
SpansAbsolute ==
    spans # <<>> => relToAbsByteSpans(PackedSpans(spans)) =
        PackedSpans([i \in DOMAIN spans |->
            <<Sum(LAMBDA j : spans[j][1], 1 .. i) % WordSize, spans[i][2]>>])

\* Packed numbers: their order is the order of the bytes, one encoding each, and
\* every reader of them agrees; byte spans come out absolute.
NumbersRight == NatsOrdered /\ NatsUnique /\ SkipAgrees /\ SpansAbsolute

\* Mangled strings: nothing is lost, no string is another's prefix or has two
\* encodings, and lower-casing the encoding is lower-casing the string.
StringsRight == StringsRoundTrip /\ StringsOrdered /\ StringsUnique /\ LowerCommutes

=============================================================================
