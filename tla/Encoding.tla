------------------------------ MODULE Encoding ------------------------------
(***************************************************************************)
(* Bytes on the wire: the four body encodings (encoding.go) and the two    *)
(* CRCs (crc.go).  A byte is a number below 256, a body a sequence of      *)
(* them, a CRC register the set of its one bits.                           *)
(***************************************************************************)
EXTENDS Integers, Sequences, SequencesExt, FiniteSetsExt

DLE == 24
charXON == 17
charXOF == 19
charCR == 13
charLF == 10
charAT == 64
charBS == 8
backslash == 92

strip(c) == c % 128                     \* c & 0x7f
flip(c) == IF (c \div 64) % 2 = 1 THEN c - 64 ELSE c + 64   \* c ^ 0x40
control(n) == n < 32 \/ n = 127

bad == <<-1>>    \* what a decoder that fails returns

-----------------------------------------------------------------------------
(* BIN.                                                                    *)

\* The byte that the escape rules look at.
masked(opts, c) == IF "HIC" \in opts THEN strip(c) ELSE c

escaped(opts, n, lastc) ==
    \/ n = DLE
    \/ "XON" \in opts /\ n \in {charXON, charXOF}
    \/ "TLN" \in opts /\ n = charCR /\ lastc = charAT
    \/ "CTL" \in opts /\ control(n)

\* The places where put escapes the byte.
escapes(opts, body) ==
    {i \in DOMAIN body :
        escaped(opts, masked(opts, body[i]), IF i = 1 THEN 0 ELSE masked(opts, body[i - 1]))}

\* The bytes of a body, those at the places of S escaped.
escapeAt(body, S) ==
    FlattenSeq([i \in 1..Len(body) |-> IF i \in S THEN <<DLE, flip(body[i])>> ELSE <<body[i]>>])

binEncode(opts, body) == escapeAt(body, escapes(opts, body))

-----------------------------------------------------------------------------
(* HEX.                                                                    *)

hexdigit(n) == IF n < 10 THEN 48 + n ELSE 87 + n

hexChars(c) ==
    CASE c >= 128 -> <<backslash, hexdigit(c \div 16), hexdigit(c % 16)>>
      [] c = backslash -> <<backslash, backslash>>
      [] OTHER -> <<c>>

hexText(body) == FlattenSeq([i \in 1..Len(body) |-> hexChars(body[i])])

hexEncode(body) ==
    LET text == hexText(body) IN escapeAt(text, {i \in DOMAIN text : control(text[i])})

isHexDigit(c) == c \in 48..57 \cup 97..102
hexNibble(c) == IF c < 58 THEN c - 48 ELSE c - 87

\* One more byte, with what is pending of a sequence that a backslash began.
hexStep(d, c) ==
    CASE d.out = bad -> d
      [] d.out # bad /\ d.pending = <<>> ->
            IF c = backslash THEN [d EXCEPT !.pending = <<c>>] ELSE [d EXCEPT !.out = Append(@, c)]
      [] d.out # bad /\ Len(d.pending) = 1 ->
            IF c = backslash THEN [out |-> Append(d.out, c), pending |-> <<>>]
            ELSE [d EXCEPT !.pending = Append(@, c)]
      [] OTHER ->
            IF isHexDigit(d.pending[2]) /\ isHexDigit(c)
            THEN [out |-> Append(d.out, 16 * hexNibble(d.pending[2]) + hexNibble(c)),
                  pending |-> <<>>]
            ELSE [d EXCEPT !.out = bad]

hexDecode(body) ==
    LET d[i \in 0..Len(body)] ==
            IF i = 0 THEN [out |-> <<>>, pending |-> <<>>] ELSE hexStep(d[i - 1], body[i])
        last == d[Len(body)]
    IN IF last.pending = <<>> THEN last.out ELSE bad

-----------------------------------------------------------------------------
(* ASC and UUE.  Both cut the bits of the body into smaller units: ASC in  *)
(* sevens, least significant first, UUE in sixes, most significant first.  *)

\* s cut into pieces of a size, the last one perhaps shorter.
groups(s, size) ==
    [i \in 1..((Len(s) + size - 1) \div size) |->
        [j \in 1..(IF size * i <= Len(s) THEN size ELSE Len(s) - size * (i - 1)) |->
            s[size * (i - 1) + j]]]

\* The j-th of a group, or 0 past its end.
at(g, j) == IF j \in DOMAIN g THEN g[j] ELSE 0

\* One to seven bytes become one unit more: unit j has what unit j - 1 left of
\* byte j - 1, and the low bits of byte j.
ascGroup(g) ==
    [j \in 1..(Len(g) + 1) |-> strip(at(g, j - 1) \div 2^(9 - j) + at(g, j) * 2^(j - 1))]

ascUnits(body) ==
    LET gs == groups(body, 7) IN FlattenSeq([i \in 1..Len(gs) |-> ascGroup(gs[i])])

ascEncode(opts, body) == binEncode(opts, ascUnits(body))

\* Bits left over at the end fill no byte.
ascUngroup(g) ==
    [j \in 1..(Len(g) - 1) |-> (strip(g[j]) \div 2^(j - 1) + strip(g[j + 1]) * 2^(8 - j)) % 256]

ascDecode(body) ==
    LET gs == groups(body, 8) IN FlattenSeq([i \in 1..Len(gs) |-> ascUngroup(gs[i])])

uueBase == 33
uueChar(c) == uueBase + (c % 64)
uueValue(c) == (c - uueBase) % 64

\* One to three bytes become one character more.
uueGroup(g) ==
    [j \in 1..(Len(g) + 1) |-> uueChar(at(g, j - 1) * 2^(8 - 2 * j) + at(g, j) \div 2^(2 * j))]

uueEncode(body) ==
    LET gs == groups(body, 3) IN FlattenSeq([i \in 1..Len(gs) |-> uueGroup(gs[i])])

\* A character left alone holds no whole byte, whatever it is.
uueUngroup(g) ==
    [j \in 1..(Len(g) - 1) |->
        (uueValue(g[j]) * 2^(2 * j) + uueValue(g[j + 1]) \div 2^(6 - 2 * j)) % 256]

uueDecode(body) ==
    LET gs == groups(body, 4)
        read == Len(body) - (IF Len(body) % 4 = 1 THEN 1 ELSE 0) IN
    IF \A i \in 1..read : body[i] \in 33..96
    THEN FlattenSeq([i \in 1..Len(gs) |-> uueUngroup(gs[i])])
    ELSE bad

-----------------------------------------------------------------------------
(* CRCs.                                                                   *)

bits(n) == {i \in 0..15 : (n \div 2^i) % 2 = 1}

crc16Poly == bits(33800)                                        \* 0x8408
crc16Test == bits(61624)                                        \* 0xF0B8
crc32Poly == bits(33568) \cup {16 + i : i \in bits(60856)}      \* 0xEDB88320
crc32Test == bits(8419) \cup {16 + i : i \in bits(57019)}       \* 0xDEBB20E3

shiftRight(s, n) == {i - n : i \in {j \in s : j >= n}}

\* One bit and four bits of the division.
divide(c, poly) == IF 0 \in c THEN SymDiff(shiftRight(c, 1), poly) ELSE shiftRight(c, 1)
divide4(c, poly) == divide(divide(divide(divide(c, poly), poly), poly), poly)

\* The table entry for the low byte of a register.
crcTable(poly) == [b \in SUBSET (0..7) |-> divide4(divide4(b, poly), poly)]
crc16Table == crcTable(crc16Poly)
crc32Table == crcTable(crc32Poly)

crcUpdate(table, crc, b) ==
    SymDiff(table[SymDiff(crc \cap 0..7, bits(b))], shiftRight(crc, 8))

crcCompute(table, start, p) ==
    LET crc[i \in 0..Len(p)] == IF i = 0 THEN start ELSE crcUpdate(table, crc[i - 1], p[i])
    IN crc[Len(p)]
crc16Compute(p) == crcCompute(crc16Table, 0..15, p)
crc32Compute(p) == crcCompute(crc32Table, 0..31, p)

\* The byte whose one bits are those that a register lacks from bit n on.
lacking(crc, n) ==
    LET bit(j) == IF n + j \in crc THEN 0 ELSE 1 IN
    bit(0) + 2 * bit(1) + 4 * bit(2) + 8 * bit(3)
        + 16 * bit(4) + 32 * bit(5) + 64 * bit(6) + 128 * bit(7)

\* The complement of a register of w bytes, low byte first.
complement(crc, w) == [k \in 1..w |-> lacking(crc, 8 * (k - 1))]

=============================================================================
