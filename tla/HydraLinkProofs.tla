-------------------------- MODULE HydraLinkProofs ---------------------------
(***************************************************************************)
(* Theorems about Negotiation, for any two configurations, and about the   *)
(* link: what a frame looks like on the line (Spelled, FrameOf), how many  *)
(* DLEs in a row the reader counts in one (Bound), what it has collected   *)
(* and understood (Clean, Keeps), and the invariant these make (LinkInv).  *)
(***************************************************************************)
EXTENDS HydraLink, PacketProofs

\* What an INIT announces and asks for: never a decode-only encoding.
LEMMA Supported ==
    ASSUME NEW c \in Config
    PROVE /\ sendInit(c).supported = localSupported(c)
          /\ sendInit(c).desired = localDesired(c)
          /\ localSupported(c) \cap decodeOnly = {}
          /\ localDesired(c) \cap decodeOnly = {}
<1>1. {"FPT"} \cap decodeOnly = {} BY DEF decodeOnly
<1> QED BY <1>1 DEF sendInit, localSupported, localDesired

\* negotiate: two ends that both pass the vital check have one option set,
\* which has every escape either asked for and no encoding they cannot send.
THEOREM OneOptionSet == \A a, b \in Config : SameOptions(a, b)
<1> TAKE a \in Config, b \in Config
<1>1. options(a, b) = (localDesired(a) \cup capUnion \cup localDesired(b))
                      \cap localSupported(b) \cap localSupported(a)
  BY Supported DEF options, effective
<1>2. options(b, a) = (localDesired(b) \cup capUnion \cup localDesired(a))
                      \cap localSupported(a) \cap localSupported(b)
  BY Supported DEF options, effective
<1>3. options(a, b) = options(b, a) BY <1>1, <1>2
<1>4. options(a, b) \cap decodeOnly = {} BY <1>1, Supported
<1>5. bothCompatible(a, b) =>
        (localDesired(a) \cup localDesired(b)) \cap capEscape \subseteq options(a, b)
  BY <1>3 DEF bothCompatible, compatible, options
<1> QED BY <1>3, <1>4, <1>5 DEF SameOptions

\* What is left of a number cut to the width of an INIT field.
LEMMA Cut ==
    \A n \in Nat : n % Word \in Nat /\ (n <= SafeMaxOffset => n % Word = n)
BY NegotiationAssumption DEF NegotiationAssumption

\* mergeWindow: an end that waits for acknowledgements after a window it can
\* reach has a peer that sends them, whatever the two configured and however
\* the fields were cut on the way.
THEOREM EveryWindowServed == \A a, b \in Config : WindowServed(a, b)
<1> SUFFICES ASSUME NEW a \in Config, NEW b \in Config,
                    txWindow(a, sendInit(b)) \in 1..SafeMaxOffset
             PROVE rxWindow(b, sendInit(a)) > 0
  BY DEF WindowServed
<1> DEFINE peerRx == windowField(b.rxWindow % Word)
           peerTx == windowField(a.txWindow % Word)
<1>1. /\ a.txWindow \in Nat /\ b.rxWindow \in Nat
      /\ txWindow(a, sendInit(b)) = mergeWindow(peerRx, a.txWindow)
      /\ rxWindow(b, sendInit(a)) = mergeWindow(peerTx, b.rxWindow)
  BY DEF Config, txWindow, rxWindow, sendInit
<1>2. SafeMaxOffset \in Nat /\ peerRx \in Nat /\ peerTx \in Nat
  BY <1>1, Cut, NegotiationAssumption DEF windowField, NegotiationAssumption
<1>3. CASE b.rxWindow > 0
  <2> HIDE DEF peerTx
  <2> QED BY <1>1, <1>2, <1>3 DEF mergeWindow
<1>4. CASE b.rxWindow = 0
  <2>1. peerRx = 0
    <3>1. 0 % Word = 0 BY Cut, <1>2
    <3> QED BY <1>2, <1>4, <3>1 DEF windowField
  <2> HIDE DEF peerRx
  <2>2. a.txWindow \in 1..SafeMaxOffset BY <1>1, <1>2, <2>1 DEF mergeWindow
  <2>3. peerTx = a.txWindow BY <1>1, <1>2, <2>2, Cut DEF windowField
  <2> HIDE DEF peerTx
  <2>4. mergeWindow(peerTx, b.rxWindow) = peerTx BY <1>4 DEF mergeWindow
  <2> QED BY <1>1, <1>2, <2>2, <2>3, <2>4
<1> QED BY <1>1, <1>3, <1>4

-----------------------------------------------------------------------------
(* The two ends of a link.                                                 *)

\* An end that has handled the other's INIT has the options it computed.
AgreedInv ==
    /\ writerCfg \in Config /\ readerCfg \in Config
    /\ "writer" \in agreed =>
         compatible(writerCfg, sendInit(readerCfg)) /\ txOpts = options(writerCfg, readerCfg)
    /\ "reader" \in agreed =>
         compatible(readerCfg, sendInit(writerCfg)) /\ rxOpts = options(readerCfg, writerCfg)

\* No end has agreed at first.
LEMMA AgreedInit == Init => AgreedInv
BY LinkAssumption DEF Init, AgreedInv, LinkAssumption

\* Only the handling of an INIT sets the options.
LEMMA AgreedStep == AgreedInv /\ [Next]_vars => AgreedInv'
<1> SUFFICES ASSUME AgreedInv, [Next]_vars PROVE AgreedInv' OBVIOUS
<1>1. CASE WriterAgrees BY <1>1 DEF WriterAgrees, AgreedInv
<1>2. CASE ReaderAgrees BY <1>2 DEF ReaderAgrees, AgreedInv
<1>3. Write \/ Cancel \/ Read \/ Noise \/ Damage => UNCHANGED link
  BY DEF Write, Cancel, Read, Noise, Damage
<1>4. CASE UNCHANGED link BY <1>4 DEF link, AgreedInv
<1> QED BY <1>1, <1>2, <1>3, <1>4 DEF Next, vars

\* negotiate: once both ends have handled the other's INIT the writer's and
\* the reader's options are the same.
THEOREM OptionsAlwaysAgree == Spec => []OptionsAgree
<1>1. AgreedInv => OptionsAgree
  <2> SUFFICES ASSUME AgreedInv PROVE OptionsAgree OBVIOUS
  <2>1. SameOptions(writerCfg, readerCfg) BY OneOptionSet DEF AgreedInv
  <2>2. ASSUME agreed = {"writer", "reader"} PROVE txOpts = rxOpts
    <3>1. bothCompatible(writerCfg, readerCfg)
      BY <2>2 DEF AgreedInv, bothCompatible
    <3> QED BY <2>1, <2>2, <3>1 DEF AgreedInv, SameOptions
  <2> QED BY <2>1, <2>2 DEF OptionsAgree
<1> QED BY <1>1, AgreedInit, AgreedStep, PTL DEF Spec

\* mergeWindow, at the two ends of a link.
THEOREM WindowsAlwaysServed == Spec => []WindowsServed
<1>1. AgreedInv => WindowsServed BY EveryWindowServed DEF AgreedInv, WindowsServed
<1> QED BY <1>1, AgreedInit, AgreedStep, PTL DEF Spec

-----------------------------------------------------------------------------
(* How a text is spelled on the line.                                      *)

\* What the inbound filter of a reader with options o eats.
Eats(o, c) ==
    /\ masked(o, c) # DLE
    /\ \/ "XON" \in o /\ masked(o, c) \in {charXON, charXOF}
       \/ "CTL" \in o /\ control(masked(o, c))

\* A byte that may stand for itself, and one that must follow a DLE.
Clear(o, c) == c \in Byte /\ c # DLE /\ ~Eats(o, c) /\ ("HI8" \in o => c < 128)
Veiled(o, c) == c \in Byte /\ control(strip(c)) /\ ("HI8" \in o => c < 128)

Raw(o, F, text, pos, i) ==
    pos[i] = pos[i - 1] + 1 /\ F[pos[i]] = text[i] /\ Clear(o, text[i])
Escaped(o, F, text, pos, i) ==
    pos[i] = pos[i - 1] + 2 /\ F[pos[i] - 1] = DLE /\ F[pos[i]] = flip(text[i]) /\ Veiled(o, text[i])

\* From place p of F on, byte i of the text ends at place pos[i].
Spelled(o, F, p, text, n, pos) ==
    /\ pos \in [0..n -> Nat] /\ pos[0] = p
    /\ \A i \in 0..n : pos[i] <= pos[n]
    /\ \A i \in 1..n : Raw(o, F, text, pos, i) \/ Escaped(o, F, text, pos, i)

\* The second byte of an escape is no control byte, no DLE and no marker.
LEMMA FlipReads ==
  ASSUME NEW o, NEW c, Veiled(o, c)
  PROVE  /\ flip(c) \in Byte /\ flip(flip(c)) = c /\ strip(flip(c)) \in 63..95
         /\ flip(c) # DLE /\ flip(c) \notin 97..101 /\ ~Eats(o, flip(c))
         /\ "HI8" \in o => flip(c) < 128
<1>1. c \in Byte /\ control(strip(c)) /\ ("HI8" \in o => c < 128)
  BY DEF Veiled
<1>2. /\ flip(c) \in Byte /\ flip(flip(c)) = c /\ strip(flip(c)) \in 63..95
      /\ flip(c) \in 63..95 \cup 191..223 /\ (c < 128 => flip(c) < 128)
  BY <1>1 DEF flip, strip, control, Byte
<1>3. masked(o, flip(c)) \in 63..95 \cup 191..223
  BY <1>2 DEF masked
<1>4. ~Eats(o, flip(c))
  BY <1>3 DEF Eats, control, charXON, charXOF, DLE
<1> QED
  BY <1>1, <1>2, <1>4 DEF DLE

\* What escapeAt puts where.
Put(E, S, text, n, pos) ==
    /\ pos \in [0..n -> Nat] /\ pos[0] = 0 /\ pos[n] = Len(E)
    /\ \A i \in 0..n : pos[i] <= pos[n]
    /\ \A i \in 1..n :
          IF i \in S THEN pos[i] = pos[i - 1] + 2 /\ E[pos[i] - 1] = DLE /\ E[pos[i]] = flip(text[i])
                     ELSE pos[i] = pos[i - 1] + 1 /\ E[pos[i]] = text[i]

\* escapeAt spells a text if each byte is of the kind its place is.
LEMMA EscapeSpells ==
  ASSUME NEW n \in Nat, NEW text \in Seq(Byte), n = Len(text), NEW S
  PROVE  /\ escapeAt(text, S) \in Seq(Byte)
         /\ \E pos : Put(escapeAt(text, S), S, text, n, pos)
<1> DEFINE A == [i \in 1..n |-> IF i \in S THEN <<DLE, flip(text[i])>> ELSE <<text[i]>>]
           F == FlattenSeq(A)
<1>1. escapeAt(text, S) = F
  BY DEF escapeAt
<1>2. ASSUME NEW i \in 1..n
      PROVE  /\ A[i] \in Seq(Byte)
             /\ i \in S => A[i] = <<DLE, flip(text[i])>>
             /\ i \notin S => A[i] = <<text[i]>>
  <2>1. text[i] \in Byte
    BY ElementOfSeq
  <2>2. DLE \in Byte /\ \A c \in Byte : flip(c) \in Byte
    BY DEF flip, Byte, DLE
  <2> QED
    BY <2>1, <2>2
<1>3. A \in [1..n -> Seq(Byte)]
  BY <1>2
<1> HIDE DEF A
<1>4. F \in Seq(Byte)
  BY <1>3, Flattened
<1>5. PICK pos : Laid(F, A, n, pos)
  BY <1>3, Flattened
<1> HIDE DEF F
<1>6. PICK l \in Nat : l = Len(F)
  BY <1>4, LenProperties
<1>7. /\ pos \in [0..n -> Nat] /\ pos[0] = 0 /\ pos[n] = l
      /\ \A i \in 1..n : pos[i] = pos[i - 1] + Len(A[i]) /\ pos[i] <= l
      /\ \A i \in 1..n : \A j \in 1..Len(A[i]) : F[pos[i - 1] + j] = A[i][j]
  BY <1>5, <1>6 DEF Laid
<1>8. \A i \in 0..n : pos[i] <= pos[n]
  <2> TAKE i \in 0..n
  <2>1. CASE i = 0
    BY <1>7, <2>1
  <2>2. CASE i # 0
    <3>1. i \in 1..n
      BY ONLY <2>2, n \in Nat, i \in 0..n
    <3> QED
      BY <1>7, <3>1
  <2> QED
    BY <2>1, <2>2
<1>9. ASSUME NEW i \in 1..n
      PROVE  IF i \in S THEN pos[i] = pos[i - 1] + 2 /\ F[pos[i] - 1] = DLE /\ F[pos[i]] = flip(text[i])
                        ELSE pos[i] = pos[i - 1] + 1 /\ F[pos[i]] = text[i]
  <2>1. PICK q \in Nat : q = pos[i - 1]
    <3>1. i - 1 \in 0..n
      BY ONLY n \in Nat, i \in 1..n
    <3> QED
      BY <1>7, <3>1
  <2>2. CASE i \in S
    <3>0. A[i] = <<DLE, flip(text[i])>>
      BY <1>2, <2>2
    <3>1. Len(A[i]) = 2 /\ A[i][1] = DLE /\ A[i][2] = flip(text[i])
      BY <3>0
    <3>4. 1 \in 1..Len(A[i]) /\ 2 \in 1..Len(A[i])
      BY ONLY <3>1
    <3>2. pos[i] = q + 2 /\ F[q + 1] = DLE /\ F[q + 2] = flip(text[i])
      BY <1>7, <2>1, <3>1, <3>4
    <3>3. pos[i] - 1 = q + 1
      BY <3>2
    <3> QED
      BY <2>1, <2>2, <3>2, <3>3
  <2>3. CASE i \notin S
    <3>0. A[i] = <<text[i]>>
      BY <1>2, <2>3
    <3>1. Len(A[i]) = 1 /\ A[i][1] = text[i]
      BY <3>0
    <3>4. 1 \in 1..Len(A[i])
      BY ONLY <3>1
    <3>2. pos[i] = q + 1 /\ F[q + 1] = text[i]
      BY <1>7, <2>1, <3>1, <3>4
    <3> QED
      BY <2>1, <2>3, <3>2
  <2> QED
    BY <2>2, <2>3
<1> QED
  BY SMTT(30), <1>1, <1>4, <1>6, <1>7, <1>8, <1>9 DEF Put

\* put escapes what the reader would otherwise eat or take for a DLE.
LEMMA PutClear ==
  ASSUME NEW o, NEW c \in Byte, "HI8" \in o => c < 128, NEW lastc
  PROVE  IF escaped(o, masked(o, c), lastc) THEN Veiled(o, c) ELSE Clear(o, c)
<1>1. masked(o, c) \in {c, strip(c)} /\ strip(c) \in 0..127 /\ (c < 128 => strip(c) = c)
  BY DEF masked, strip, Byte
<1>2. CASE escaped(o, masked(o, c), lastc)
  <2>1. control(masked(o, c))
    BY <1>2 DEF escaped, control, DLE, charXON, charXOF, charCR
  <2>2. control(strip(c))
    BY <1>1, <2>1 DEF control, Byte
  <2> QED
    BY <1>2, <2>2 DEF Veiled
<1>3. CASE ~escaped(o, masked(o, c), lastc)
  <2>1. masked(o, c) # DLE /\ ~Eats(o, c)
    BY <1>3 DEF escaped, Eats
  <2>2. c # DLE
    <3>1. strip(24) = 24
      BY DEF strip
    <3> QED
      BY <1>1, <2>1, <3>1 DEF DLE
  <2> QED
    BY <1>3, <2>1, <2>2 DEF Clear
<1> QED
  BY <1>2, <1>3

\* hexEncodeBody escapes every control character, whatever the options.
LEMMA HexClear ==
  ASSUME NEW o, NEW c \in Unit
  PROVE  IF control(c) THEN Veiled(o, c) ELSE Clear(o, c)
<1>1. strip(c) = c /\ masked(o, c) = c /\ c \in Byte /\ c < 128
  BY DEF Unit, strip, masked, Byte
<1> QED
  BY <1>1 DEF Veiled, Clear, Eats, control, DLE, charXON, charXOF

\* An UUE character needs no escape.
LEMMA UueClear ==
  ASSUME NEW o, NEW c \in UueUnit
  PROVE  Clear(o, c)
<1>1. c \in Unit /\ ~control(c)
  BY DEF UueUnit, Unit, control
<1> QED
  BY <1>1, HexClear

\* binEncodeBody, of a body of seven-bit bytes where the line has only those.
LEMMA BinSpells ==
  ASSUME NEW o, NEW n \in Nat, NEW text \in Seq(Byte), n = Len(text),
         "HI8" \in o => \A i \in 1..n : text[i] < 128
  PROVE  /\ binEncode(o, text) \in Seq(Byte)
         /\ \E pos : pos[n] = Len(binEncode(o, text)) /\ Spelled(o, binEncode(o, text), 0, text, n, pos)
<1> DEFINE S == escapes(o, text)
           E == escapeAt(text, S)
<1>1. binEncode(o, text) = E
  BY DEF binEncode
<1> HIDE DEF S
<1>2. PICK pos : Put(E, S, text, n, pos)
  BY EscapeSpells
<1>3. E \in Seq(Byte)
  BY EscapeSpells
<1> HIDE DEF E
<1> USE DEF S
<1>4. ASSUME NEW i \in 1..n
      PROVE  IF i \in S THEN Veiled(o, text[i]) ELSE Clear(o, text[i])
  <2>1. text[i] \in Byte /\ DOMAIN text = 1..n
    BY ElementOfSeq
  <2>2. PICK lastc : lastc = IF i = 1 THEN 0 ELSE masked(o, text[i - 1])
    OBVIOUS
  <2>3. i \in S <=> escaped(o, masked(o, text[i]), lastc)
    BY <2>1, <2>2 DEF escapes
  <2> HIDE DEF S
  <2>4. "HI8" \in o => text[i] < 128
    OBVIOUS
  <2> QED
    BY <2>1, <2>3, <2>4, PutClear
<1> HIDE DEF S
<1>5. Spelled(o, E, 0, text, n, pos)
  BY <1>2, <1>4 DEF Spelled, Raw, Escaped, Put
<1> QED
  BY <1>1, <1>2, <1>3, <1>5 DEF Put

\* hexEncodeBody, of its text.
LEMMA HexSpells ==
  ASSUME NEW n \in Nat, NEW text \in Seq(Unit), n = Len(text), NEW body, text = hexText(body)
  PROVE  /\ hexEncode(body) \in Seq(Byte)
         /\ \E pos : /\ pos[n] = Len(hexEncode(body))
                     /\ \A o : Spelled(o, hexEncode(body), 0, text, n, pos)
<1> DEFINE S == {i \in DOMAIN text : control(text[i])}
           E == escapeAt(text, S)
<1>1. hexEncode(body) = E
  BY DEF hexEncode
<1>0. text \in Seq(Byte)
  <2>1. Unit \subseteq Byte
    BY DEF Unit, Byte
  <2>2. \A i \in 1..n : text[i] \in Byte
    BY <2>1, ElementOfSeq
  <2> QED
    BY <2>2
<1> HIDE DEF S
<1>2. PICK pos : Put(E, S, text, n, pos)
  BY <1>0, EscapeSpells
<1>3. E \in Seq(Byte)
  BY <1>0, EscapeSpells
<1> HIDE DEF E
<1> USE DEF S
<1>4. ASSUME NEW i \in 1..n, NEW o
      PROVE  IF i \in S THEN Veiled(o, text[i]) ELSE Clear(o, text[i])
  <2>1. text[i] \in Unit /\ DOMAIN text = 1..n
    BY ElementOfSeq
  <2>2. i \in S <=> control(text[i])
    BY <2>1
  <2> HIDE DEF S
  <2> QED
    BY <2>1, <2>2, HexClear
<1> HIDE DEF S
<1>5. \A o : Spelled(o, E, 0, text, n, pos)
  BY <1>2, <1>4 DEF Spelled, Raw, Escaped, Put
<1> QED
  BY <1>1, <1>2, <1>3, <1>5 DEF Put

\* uueEncodeBody's text is its own spelling.
LEMMA UueSpells ==
  ASSUME NEW n \in Nat, NEW text \in Seq(UueUnit), n = Len(text)
  PROVE  /\ text \in Seq(Byte)
         /\ \E pos : pos[n] = Len(text) /\ \A o : Spelled(o, text, 0, text, n, pos)
<1>1. \A i \in 1..n : text[i] \in UueUnit
  BY ElementOfSeq
<1>2. text \in Seq(Byte)
  <2>1. UueUnit \subseteq Byte
    BY DEF UueUnit, Byte
  <2>2. \A i \in 1..n : text[i] \in Byte
    BY <1>1, <2>1
  <2> QED
    BY <2>2
<1> DEFINE pos == [i \in 0..n |-> i]
<1>3. /\ pos \in [0..n -> Nat] /\ pos[0] = 0 /\ pos[n] = n /\ \A i \in 0..n : pos[i] <= pos[n]
      /\ \A i \in 1..n : pos[i] = i /\ pos[i] = pos[i - 1] + 1
  OBVIOUS
<1> HIDE DEF pos
<1>4. ASSUME NEW i \in 1..n, NEW o
      PROVE  Raw(o, text, text, pos, i)
  <2>1. Clear(o, text[i])
    BY <1>1, UueClear
  <2> QED
    BY <1>3, <2>1 DEF Raw
<1>5. \A o : Spelled(o, text, 0, text, n, pos)
  BY <1>3, <1>4 DEF Spelled
<1> QED
  BY <1>2, <1>3, <1>5

\* E is how a body is written in a format under opts: a text that decodes to
\* the body, spelled as every reader that may meet it reads it.
Carries(E, body, fmt, opts, text, n, pos) ==
    /\ text \in Seq(Byte) /\ n \in Nat /\ n = Len(text) /\ n <= 3 * Len(body)
    /\ decode(fmt, text) = body
    /\ \E i \in 1..n : text[i] # fmtEnd
    /\ pos[n] = Len(E)
    /\ \A o : fmt = fmtHEX \/ o = opts => Spelled(o, E, 0, text, n, pos)

\* encode (writer.go) and decode (reader.go), for the body of a packet: it has
\* a type byte, so that no encoding makes it all fmtEnd.
THEOREM Encodes ==
  ASSUME NEW body \in Seq(Byte), NEW L \in Nat, L = Len(body), NEW k \in 1..L, body[k] \in 65..78,
         NEW fmt \in fmtBIN..fmtUUE, NEW opts, fmt = fmtBIN => "HI8" \notin opts
  PROVE  /\ encode(body, fmt, opts) \in Seq(Byte)
         /\ \E text, n, pos : Carries(encode(body, fmt, opts), body, fmt, opts, text, n, pos)
<1>0. Unit \subseteq Byte /\ UueUnit \subseteq Byte
  BY DEF Unit, UueUnit, Byte
<1>1. CASE fmt = fmtBIN
  <2>1. encode(body, fmt, opts) = binEncode(opts, body)
    BY <1>1 DEF encode, fmtBIN, fmtHEX, fmtASC, fmtUUE
  <2>2. decode(fmt, body) = body
    BY <1>1 DEF decode, fmtBIN, fmtHEX, fmtASC, fmtUUE
  <2>3. "HI8" \in opts => \A i \in 1..L : body[i] < 128
    BY <1>1
  <2>4. PICK pos : /\ pos[L] = Len(binEncode(opts, body))
                   /\ Spelled(opts, binEncode(opts, body), 0, body, L, pos)
    BY <2>3, BinSpells
  <2>5. binEncode(opts, body) \in Seq(Byte)
    BY <2>3, BinSpells
  <2>6. body[k] # fmtEnd /\ fmt # fmtHEX /\ L <= 3 * L
    BY SMTT(30), <1>1 DEF fmtEnd, fmtBIN, fmtHEX
  <2>7. Carries(binEncode(opts, body), body, fmt, opts, body, L, pos)
    BY <2>2, <2>4, <2>6 DEF Carries
  <2> QED
    BY <2>1, <2>5, <2>7
<1>2. CASE fmt = fmtHEX
  <2> DEFINE text == hexText(body)
  <2>1. /\ text \in Seq(Unit) /\ hexDecode(text) = body /\ Len(text) <= 3 * L
        /\ \E i \in 1..Len(text) : text[i] # 97
    BY SMTT(30), HexRoundTrip
  <2>2. encode(body, fmt, opts) = hexEncode(body) /\ decode(fmt, text) = hexDecode(text)
    BY <1>2 DEF encode, decode, fmtBIN, fmtHEX, fmtASC, fmtUUE
  <2>3. text = hexText(body)
    OBVIOUS
  <2> HIDE DEF text
  <2>4. PICK n \in Nat : n = Len(text)
    BY <2>1, LenProperties
  <2>5. PICK pos : /\ pos[n] = Len(hexEncode(body))
                   /\ \A o : Spelled(o, hexEncode(body), 0, text, n, pos)
    BY <2>1, <2>3, <2>4, HexSpells
  <2>6. hexEncode(body) \in Seq(Byte)
    BY <2>1, <2>3, <2>4, HexSpells
  <2>7. text \in Seq(Byte)
    BY <1>0, <2>1, <2>4, Wider
  <2>8. Carries(hexEncode(body), body, fmt, opts, text, n, pos)
    BY <2>1, <2>2, <2>4, <2>5, <2>7 DEF Carries, fmtEnd
  <2> QED
    BY <2>2, <2>6, <2>8
<1>3. CASE fmt = fmtASC
  <2> DEFINE text == ascUnits(body)
  <2>1. /\ text \in Seq(Unit) /\ ascDecode(text) = body /\ Len(text) <= 2 * L
        /\ \E i \in 1..Len(text) : text[i] # 97
    BY SMTT(30), AscRoundTrip
  <2>2. encode(body, fmt, opts) = binEncode(opts, text) /\ decode(fmt, text) = ascDecode(text)
    BY <1>3 DEF encode, decode, ascEncode, fmtBIN, fmtHEX, fmtASC, fmtUUE
  <2> HIDE DEF text
  <2>4. PICK n \in Nat : n = Len(text)
    BY <2>1, LenProperties
  <2>7. text \in Seq(Byte) /\ \A i \in 1..n : text[i] \in Unit
    BY <1>0, <2>1, <2>4, Wider
  <2>9. "HI8" \in opts => \A i \in 1..n : text[i] < 128
    <3>1. \A c \in Unit : c < 128
      BY DEF Unit
    <3> QED
      BY <2>7, <3>1
  <2>5. PICK pos : /\ pos[n] = Len(binEncode(opts, text))
                   /\ Spelled(opts, binEncode(opts, text), 0, text, n, pos)
    BY <2>4, <2>7, <2>9, BinSpells
  <2>6. binEncode(opts, text) \in Seq(Byte)
    BY <2>4, <2>7, <2>9, BinSpells
  <2>10. n <= 3 * L
    <3>1. n <= 2 * L
      BY <2>1, <2>4
    <3> QED
      BY ONLY <3>1, L \in Nat, n \in Nat
  <2>8. Carries(binEncode(opts, text), body, fmt, opts, text, n, pos)
    BY <1>3, <2>1, <2>2, <2>4, <2>5, <2>7, <2>10 DEF Carries, fmtEnd, fmtHEX, fmtASC
  <2> QED
    BY <2>2, <2>6, <2>8
<1>4. CASE fmt = fmtUUE
  <2> DEFINE text == uueEncode(body)
  <2>1. /\ text \in Seq(UueUnit) /\ uueDecode(text) = body /\ Len(text) <= 2 * L /\ Len(text) > 0
    BY UueRoundTrip
  <2>2. encode(body, fmt, opts) = text /\ decode(fmt, text) = uueDecode(text)
    BY <1>4 DEF encode, decode, fmtBIN, fmtHEX, fmtASC, fmtUUE
  <2> HIDE DEF text
  <2>4. PICK n \in Nat : n = Len(text)
    BY <2>1, LenProperties
  <2>7. text \in Seq(Byte) /\ \A i \in 1..n : text[i] \in UueUnit
    BY <1>0, <2>1, <2>4, Wider
  <2>5. PICK pos : pos[n] = Len(text) /\ \A o : Spelled(o, text, 0, text, n, pos)
    BY <2>1, <2>4, UueSpells
  <2>10. n <= 3 * L /\ 1 \in 1..n
    <3>1. n <= 2 * L /\ n > 0
      BY <2>1, <2>4
    <3> QED
      BY ONLY <3>1, L \in Nat, n \in Nat
  <2>11. text[1] # fmtEnd
    <3>1. \A c \in UueUnit : c # fmtEnd
      BY DEF UueUnit, fmtEnd
    <3> QED
      BY <2>7, <2>10, <3>1
  <2>8. Carries(text, body, fmt, opts, text, n, pos)
    BY <2>1, <2>2, <2>4, <2>5, <2>7, <2>10, <2>11 DEF Carries
  <2> QED
    BY <2>2, <2>7, <2>8
<1>5. fmt \in {fmtBIN, fmtHEX, fmtASC, fmtUUE}
  BY DEF fmtBIN, fmtHEX, fmtASC, fmtUUE
<1> QED
  BY <1>1, <1>2, <1>3, <1>4, <1>5

-----------------------------------------------------------------------------
(* A frame.                                                                *)

\* F is a frame: p bytes that are no DLE, the marker of the format, the text
\* up to place pos[n], the end, and perhaps CR and LF.
FrameOf(o, F, p, fmt, text, n, pos) ==
    /\ F \in Seq(Byte) /\ p \in Nat /\ n \in Nat /\ text \in Seq(Byte) /\ n = Len(text)
    /\ n <= maxEncodedLen
    /\ \A i \in 1..p : strip(F[i]) # DLE
    /\ F[p + 1] = DLE /\ F[p + 2] = fmt /\ fmt \in fmtBIN..fmtUUE
    /\ Spelled(o, F, p + 2, text, n, pos)
    /\ pos[n] + 2 <= Len(F)
    /\ F[pos[n] + 1] = DLE /\ F[pos[n] + 2] = fmtEnd
    /\ \A j \in (pos[n] + 3)..Len(F) : F[j] \in {charCR, charLF}
    /\ \E i \in 1..n : text[i] # fmtEnd

\* Where the parts of a frame lie.
Parts(F, P, p, fmt, E, e) ==
    /\ F \in Seq(Byte) /\ p + 2 + e + 2 <= Len(F)
    /\ \A i \in 1..p : F[i] = P[i]
    /\ F[p + 1] = DLE /\ F[p + 2] = fmt
    /\ \A i \in 1..e : F[p + 2 + i] = E[i]
    /\ F[p + 2 + e + 1] = DLE /\ F[p + 2 + e + 2] = fmtEnd
    /\ \A j \in (p + 2 + e + 3)..Len(F) : F[j] \in {charCR, charLF}

\* The places of what a frame is put together from.
LEMMA Assembled ==
  ASSUME NEW P \in Seq(Byte), NEW p \in Nat, p = Len(P), NEW fmt \in Byte,
         NEW E \in Seq(Byte), NEW e \in Nat, e = Len(E),
         NEW T \in Seq({charCR, charLF}),
         NEW F, F = P \o <<DLE, fmt>> \o E \o <<DLE, fmtEnd>> \o T
  PROVE  Parts(F, P, p, fmt, E, e)
<1> DEFINE M == <<DLE, fmt>>
           X == <<DLE, fmtEnd>>
           A == P \o M
           B == A \o E
           C == B \o X
<1>0. charCR \in Byte /\ charLF \in Byte /\ DLE \in Byte /\ fmtEnd \in Byte
  BY DEF charCR, charLF, DLE, fmtEnd, Byte
<1>1. M \in Seq(Byte) /\ X \in Seq(Byte) /\ T \in Seq(Byte)
  <2>1. PICK t \in Nat : t = Len(T)
    BY LenProperties
  <2>2. {charCR, charLF} \subseteq Byte
    BY <1>0
  <2>3. T \in Seq(Byte)
    BY <2>1, <2>2, Wider
  <2> QED
    BY <1>0, <2>3
<1>2. Len(M) = 2 /\ M[1] = DLE /\ M[2] = fmt /\ Len(X) = 2 /\ X[1] = DLE /\ X[2] = fmtEnd
  OBVIOUS
<1>3. F = C \o T
  OBVIOUS
<1> HIDE DEF M, X
<1>20. A = P \o M /\ B = A \o E /\ C = B \o X
  OBVIOUS
<1> HIDE DEF A, B, C
<1>21. PICK a \in Nat : a = p + 2
  OBVIOUS
<1>22. PICK b \in Nat : b = a + e
  OBVIOUS
<1>23. PICK c \in Nat : c = b + 2
  OBVIOUS
<1>4. /\ A \in Seq(Byte) /\ a = Len(A)
      /\ \A j \in 1..p : A[j] = P[j]
      /\ A[p + 1] = DLE /\ A[p + 2] = fmt
  <2>0. 2 \in Nat /\ 2 = Len(M)
    BY <1>2
  <2>1. Joined(A, Byte, P, p, M, 2)
    BY <1>1, <1>20, <2>0, Concatenated
  <2>2. /\ A \in Seq(Byte) /\ p + 2 = Len(A) /\ \A j \in 1..p : A[j] = P[j]
        /\ \A j \in 1..2 : A[p + j] = M[j]
    BY ONLY <2>1 DEF Joined
  <2>3. 1 \in 1..2 /\ 2 \in 1..2
    OBVIOUS
  <2> QED
    BY ONLY <1>2, <1>21, <2>2, <2>3
<1>5. /\ B \in Seq(Byte) /\ b = Len(B)
      /\ \A j \in 1..a : B[j] = A[j]
      /\ \A j \in 1..e : B[a + j] = E[j]
  <2>1. Joined(B, Byte, A, a, E, e)
    BY <1>4, <1>20, Concatenated
  <2> QED
    BY <1>22, <2>1 DEF Joined
<1>6. /\ C \in Seq(Byte) /\ c = Len(C)
      /\ \A j \in 1..b : C[j] = B[j]
      /\ C[b + 1] = DLE /\ C[b + 2] = fmtEnd
  <2>0. 2 \in Nat /\ 2 = Len(X)
    BY <1>2
  <2>1. Joined(C, Byte, B, b, X, 2)
    BY <1>1, <1>5, <1>20, <2>0, Concatenated
  <2> QED
    BY <1>2, <1>23, <2>1 DEF Joined
<1>7. PICK t \in Nat : t = Len(T)
  BY LenProperties
<1>8. /\ F \in Seq(Byte) /\ c + t = Len(F)
      /\ \A j \in 1..c : F[j] = C[j]
      /\ \A j \in 1..t : F[c + j] = T[j]
  <2>1. Joined(F, Byte, C, c, T, t)
    BY <1>1, <1>3, <1>6, <1>7, Concatenated
  <2> QED
    BY <2>1 DEF Joined
<1>9. ASSUME NEW j \in (c + 1)..Len(F)
      PROVE  F[j] \in {charCR, charLF}
  <2>3. PICK i \in Int : i = j - c
    OBVIOUS
  <2>4. j \in (c + 1)..(c + t)
    BY <1>8
  <2>1. i \in 1..t /\ j = c + i
    BY ONLY <2>3, <2>4, c \in Nat, t \in Nat
  <2>2. T[i] \in {charCR, charLF}
    BY <1>7, <2>1, ElementOfSeq
  <2>5. F[c + i] = T[i]
    BY <1>8, <2>1
  <2> QED
    BY <2>1, <2>2, <2>5
<1>10. ASSUME NEW i \in 1..p
       PROVE  F[i] = P[i]
  <2>1. i \in 1..a /\ i \in 1..b /\ i \in 1..c
    BY ONLY p \in Nat, e \in Nat, i \in 1..p, <1>21, <1>22, <1>23
  <2> QED
    BY SMTT(30), <1>4, <1>5, <1>6, <1>8, <2>1
<1>11. F[p + 1] = DLE /\ F[p + 2] = fmt
  <2>1. /\ p + 1 \in 1..a /\ p + 2 \in 1..a /\ p + 1 \in 1..b /\ p + 2 \in 1..b
        /\ p + 1 \in 1..c /\ p + 2 \in 1..c
    BY ONLY p \in Nat, e \in Nat, <1>21, <1>22, <1>23
  <2> QED
    BY <1>4, <1>5, <1>6, <1>8, <2>1
<1>12. ASSUME NEW i \in 1..e
       PROVE  F[a + i] = E[i]
  <2>1. a + i \in 1..b /\ a + i \in 1..c
    BY ONLY a \in Nat, e \in Nat, i \in 1..e, <1>22, <1>23
  <2> QED
    BY ZenonT(30), <1>5, <1>6, <1>8, <2>1
<1>13. F[b + 1] = DLE /\ F[b + 2] = fmtEnd
  <2>1. b + 1 \in 1..c /\ b + 2 \in 1..c
    BY ONLY b \in Nat, <1>23
  <2> QED
    BY <1>6, <1>8, <2>1
<1>14. c <= Len(F)
  <2>1. \A l : l = Len(F) => c <= l
    BY ONLY <1>8, c \in Nat, t \in Nat
  <2> QED
    BY <2>1
<1>15. a = p + 2 /\ b = p + 2 + e /\ c = p + 2 + e + 2 /\ c + 1 = p + 2 + e + 3
  BY ONLY p \in Nat, e \in Nat, <1>21, <1>22, <1>23
<1>16. b + 1 = p + 2 + e + 1 /\ b + 2 = p + 2 + e + 2
  BY <1>15
<1> QED
  BY <1>8, <1>9, <1>10, <1>11, <1>12, <1>13, <1>14, <1>15, <1>16 DEF Parts

\* No prefix that a peer asks for has a DLE.  A prefix of nothing else would
\* be a cancel sequence.
Modest == \A pre \in PeerPrefixes : \A i \in DOMAIN pre : strip(pre[i]) # DLE

\* putPrefix writes no DLE either.
LEMMA PrefixWritten ==
  ASSUME NEW pre \in Seq(Byte), \A i \in DOMAIN pre : strip(pre[i]) # DLE
  PROVE  /\ putPrefix(pre) \in Seq(Byte)
         /\ \A x \in 1..Len(putPrefix(pre)) : strip(putPrefix(pre)[x]) # DLE
<1>1. PICK n \in Nat : n = Len(pre)
  BY LenProperties
<1> DEFINE A == [i \in 1..n |-> CASE pre[i] \in {221, 222} -> <<>>
                                  [] pre[i] = 223 -> <<0>>
                                  [] OTHER -> <<pre[i]>>]
           P == FlattenSeq(A)
<1>2. putPrefix(pre) = P
  BY <1>1 DEF putPrefix
<1>3. ASSUME NEW i \in 1..n
      PROVE  A[i] = <<>> \/ \E c \in Byte : A[i] = <<c>> /\ strip(c) # DLE
  <2>1. pre[i] \in Byte /\ strip(pre[i]) # DLE
    BY <1>1, ElementOfSeq
  <2>2. 0 \in Byte /\ strip(0) # DLE
    BY DEF Byte, strip, DLE
  <2> QED
    BY <2>1, <2>2
<1> HIDE DEF A
<1>4. ASSUME NEW i \in 1..n
      PROVE  A[i] \in Seq(Byte)
  <2>1. CASE A[i] = <<>>
    BY <2>1
  <2>2. ASSUME NEW c \in Byte, A[i] = <<c>>
        PROVE  A[i] \in Seq(Byte)
    BY <2>2
  <2> QED
    BY <1>3, <2>1, <2>2
<1>5. A \in [1..n -> Seq(Byte)]
  <2>1. DOMAIN A = 1..n /\ A = [i \in 1..n |-> A[i]]
    BY DEF A
  <2> QED
    BY <1>4, <2>1
<1>6. P \in Seq(Byte)
  BY <1>5, Flattened
<1>7. PICK pos : Laid(P, A, n, pos)
  BY <1>5, Flattened
<1> HIDE DEF P
<1>8. PICK l \in Nat : l = Len(P)
  BY <1>6, LenProperties
<1>9. /\ pos \in [0..n -> Nat] /\ pos[0] = 0 /\ pos[n] = l
      /\ \A i \in 1..n : pos[i] = pos[i - 1] + Len(A[i])
      /\ \A i \in 1..n : \A j \in 1..Len(A[i]) : P[pos[i - 1] + j] = A[i][j]
  BY <1>7, <1>8 DEF Laid
<1>10. ASSUME NEW x \in 1..l
       PROVE  strip(P[x]) # DLE
  <2>1. \A i \in 1..n : pos[i - 1] <= pos[i]
    <3> TAKE i \in 1..n
    <3>1. Len(A[i]) \in Nat
      BY <1>4, LenProperties
    <3>2. i - 1 \in 0..n
      BY ONLY i \in 1..n, n \in Nat
    <3> QED
      BY <1>9, <3>1, <3>2
  <2>2. PICK i \in 1..n : x \in (pos[i - 1] + 1)..pos[i]
    BY <1>9, <2>1, InPiece
  <2>3. PICK q \in Nat : q = pos[i - 1]
    <3>2. i - 1 \in 0..n
      BY ONLY i \in 1..n, n \in Nat
    <3> QED
      BY <1>9, <3>2
  <2>4. CASE A[i] = <<>>
    <3>1. Len(A[i]) = 0
      BY <2>4
    <3> QED
      BY <1>9, <2>2, <2>3, <3>1
  <2>5. ASSUME NEW c \in Byte, A[i] = <<c>>, strip(c) # DLE
        PROVE  strip(P[x]) # DLE
    <3>1. Len(A[i]) = 1 /\ A[i][1] = c
      BY <2>5
    <3>2. pos[i] = q + 1 /\ P[q + 1] = c
      <4>1. 1 \in 1..Len(A[i])
        BY ONLY <3>1
      <4> QED
        BY <1>9, <2>3, <3>1, <4>1
    <3>3. x = q + 1
      BY <2>2, <2>3, <3>2
    <3> QED
      BY <2>5, <3>2, <3>3
  <2> QED
    BY <1>3, <2>4, <2>5
<1> QED
  BY <1>2, <1>6, <1>8, <1>10

FramedAs(F, fmt, opts, text, n) ==
    \E p, q : \A o : fmt = fmtHEX \/ o = opts => FrameOf(o, F, p, fmt, text, n, q)

\* A frame is read as FrameOf says.
LEMMA Framed ==
  ASSUME NEW P \in Seq(Byte), \A i \in 1..Len(P) : strip(P[i]) # DLE,
         NEW fmt \in fmtBIN..fmtUUE, NEW opts, NEW body, NEW E \in Seq(Byte), NEW L \in Nat, L = Len(body),
         3 * L <= maxEncodedLen,
         NEW text, NEW n, NEW pos, Carries(E, body, fmt, opts, text, n, pos),
         NEW T \in Seq({charCR, charLF}),
         NEW F, F = P \o <<DLE, fmt>> \o E \o <<DLE, fmtEnd>> \o T
  PROVE  FramedAs(F, fmt, opts, text, n)
<1>0. maxEncodedLen \in Nat
  BY LinkAssumption DEF LinkAssumption
<1>1. PICK p \in Nat : p = Len(P)
  BY LenProperties
<1>2. PICK e \in Nat : e = Len(E)
  BY LenProperties
<1>3. fmt \in Byte
  BY DEF Byte, fmtBIN, fmtUUE
<1>4. /\ F \in Seq(Byte) /\ p + 2 + e + 2 <= Len(F)
      /\ \A i \in 1..p : F[i] = P[i]
      /\ F[p + 1] = DLE /\ F[p + 2] = fmt
      /\ \A i \in 1..e : F[p + 2 + i] = E[i]
      /\ F[p + 2 + e + 1] = DLE /\ F[p + 2 + e + 2] = fmtEnd
      /\ \A j \in (p + 2 + e + 3)..Len(F) : F[j] \in {charCR, charLF}
  <2>1. Parts(F, P, p, fmt, E, e)
    BY <1>1, <1>2, <1>3, Assembled
  <2> QED
    BY <2>1 DEF Parts
<1>5. /\ text \in Seq(Byte) /\ n \in Nat /\ n = Len(text) /\ n <= 3 * L
      /\ \E i \in 1..n : text[i] # fmtEnd
      /\ pos[n] = e
  BY <1>2 DEF Carries
<1>6. \A o : fmt = fmtHEX \/ o = opts => Spelled(o, E, 0, text, n, pos)
  BY DEF Carries
<1>7. pos \in [0..n -> Nat] /\ pos[0] = 0 /\ \A i \in 0..n : pos[i] <= pos[n]
  BY <1>6 DEF Spelled
<1> DEFINE q == [i \in 0..n |-> p + 2 + pos[i]]
<1>8. /\ q \in [0..n -> Nat] /\ q[0] = p + 2 /\ q[n] = p + 2 + e
      /\ \A i \in 0..n : q[i] = p + 2 + pos[i]
  BY SMTT(30), <1>5, <1>7
<1> HIDE DEF q
<1>9. \A i \in 0..n : q[i] <= q[n]
  <2> TAKE i \in 0..n
  <2>1. n \in 0..n
    BY ONLY <1>5
  <2>2. pos[i] \in Nat /\ pos[n] \in Nat /\ pos[i] <= pos[n] /\ q[i] = p + 2 + pos[i] /\ q[n] = p + 2 + pos[n]
    BY <1>7, <1>8, <2>1
  <2> QED
    BY ONLY <2>2, p \in Nat
<1>10. ASSUME NEW o, fmt = fmtHEX \/ o = opts
       PROVE  Spelled(o, F, p + 2, text, n, q)
  <2>1. ASSUME NEW i \in 1..n
        PROVE  Raw(o, F, text, q, i) \/ Escaped(o, F, text, q, i)
    <3>1. i \in 0..n /\ i - 1 \in 0..n
      BY ONLY <1>5, i \in 1..n
    <3>2. PICK a \in Nat : a = pos[i - 1]
      BY <1>7, <3>1
    <3>3. PICK b \in Nat : b = pos[i]
      BY <1>7, <3>1
    <3>4. q[i - 1] = p + 2 + a /\ q[i] = p + 2 + b /\ b <= e
      BY <1>5, <1>7, <1>8, <3>1, <3>2, <3>3
    <3>5. Raw(o, E, text, pos, i) \/ Escaped(o, E, text, pos, i)
      BY <1>6, <1>10 DEF Spelled
    <3>6. CASE Raw(o, E, text, pos, i)
      <4>1. b = a + 1 /\ E[b] = text[i] /\ Clear(o, text[i])
        BY <3>2, <3>3, <3>6 DEF Raw
      <4>2. b \in 1..e
        BY ONLY <3>4, <4>1, a \in Nat, b \in Nat, e \in Nat
      <4>3. F[p + 2 + b] = text[i]
        BY <1>4, <4>1, <4>2
      <4>4. q[i] = q[i - 1] + 1
        BY ONLY <3>4, <4>1, p \in Nat, a \in Nat, b \in Nat
      <4> QED
        BY <3>4, <4>1, <4>3, <4>4 DEF Raw
    <3>7. CASE Escaped(o, E, text, pos, i)
      <4>1. b = a + 2 /\ E[b - 1] = DLE /\ E[b] = flip(text[i]) /\ Veiled(o, text[i])
        BY <3>2, <3>3, <3>7 DEF Escaped
      <4>2. b \in 1..e /\ b - 1 \in 1..e
        BY ONLY <3>4, <4>1, a \in Nat, b \in Nat, e \in Nat
      <4>3. F[p + 2 + b] = flip(text[i]) /\ F[p + 2 + (b - 1)] = DLE
        BY <1>4, <4>1, <4>2
      <4>4. q[i] - 1 = p + 2 + (b - 1) /\ q[i] = q[i - 1] + 2
        BY ONLY <3>4, <4>1, p \in Nat, a \in Nat, b \in Nat
      <4> QED
        BY <3>4, <4>1, <4>3, <4>4 DEF Escaped
    <3> QED
      BY <3>5, <3>6, <3>7
  <2> QED
    BY <1>8, <1>9, <2>1 DEF Spelled
<1>11. n <= maxEncodedLen
  BY ONLY <1>0, <1>5, L \in Nat, 3 * L <= maxEncodedLen
<1>12. \A i \in 1..p : strip(F[i]) # DLE
  BY <1>1, <1>4
<1>13. /\ F[q[n] + 1] = DLE /\ F[q[n] + 2] = fmtEnd /\ q[n] + 2 <= Len(F)
       /\ \A j \in (q[n] + 3)..Len(F) : F[j] \in {charCR, charLF}
  BY <1>4, <1>8
<1>14. \A o : fmt = fmtHEX \/ o = opts => FrameOf(o, F, p, fmt, text, n, q)
  BY <1>4, <1>5, <1>10, <1>11, <1>12, <1>13 DEF FrameOf
<1> QED
  BY <1>14 DEF FramedAs

\* A payload fits if what marshal writes does: the short RPOS is shorter.
LEMMA PayloadFits ==
  ASSUME NEW m \in Message, Len(marshal(m)) <= maxPayloadSize, maxPayloadSize \in Nat, NEW p \in payloads(m)
  PROVE  Len(p) <= maxPayloadSize
<1>1. CASE p = marshal(m)
  BY <1>1
<1>2. CASE p # marshal(m)
  <2>1. m.typ = "RPOS" /\ p = marshalWord(m)
    BY <1>2 DEF payloads
  <2>2. m \in [typ : {"RPOS"}, offset : Int32, blocksize : Uint16, id : Int32]
    BY <2>1 DEF Message, supervisory
  <2>3. 12 = Len(marshal(m)) /\ 10 = Len(marshalWord(m))
    BY <2>2, RposReads
  <2>4. PICK M \in Nat : M = maxPayloadSize
    OBVIOUS
  <2>5. \A k, l : 12 = k /\ 10 = l /\ k <= M => l <= M
    BY ONLY M \in Nat
  <2> QED
    BY ONLY <2>1, <2>3, <2>4, <2>5, Len(marshal(m)) <= maxPayloadSize, Zenon
<1> QED
  BY <1>1, <1>2

\* What finishPacket makes of a text under the options o.
Means(o, fmt, text, m) ==
    LET decoded == decode(fmt, text)
        four == fmt # fmtHEX /\ "C32" \in o
        end == Len(decoded) - (IF four THEN 4 ELSE 2) IN
    /\ decoded # bad /\ Len(decoded) <= maxDecodedLen /\ end >= 1
    /\ IF four THEN crc32Compute(decoded) = crc32Test ELSE crc16Compute(decoded) = crc16Test
    /\ decoded[end] - 64 \in DOMAIN types
    /\ parse(types[decoded[end] - 64], SubSeq(decoded, 1, end - 1)) = {m}

\* What a body with its CRC decodes to is the packet.
Bodied(m, o, fmt, b, p, c) ==
    /\ b \in Seq(Byte) /\ p + 1 + c = Len(b) /\ b[p + 1] \in 65..78
    /\ c = IF fmt # fmtHEX /\ "C32" \in o THEN 4 ELSE 2
    /\ IF fmt # fmtHEX /\ "C32" \in o THEN crc32Compute(b) = crc32Test ELSE crc16Compute(b) = crc16Test
    /\ b[p + 1] - 64 \in DOMAIN types
    /\ parse(types[b[p + 1] - 64], SubSeq(b, 1, p)) = {m}

\* withCRC and finishPacket: what a body with its CRC decodes to is the packet.
LEMMA BodyMade ==
  ASSUME NEW m \in Message, NEW payload \in payloads(m), NEW p \in Nat, p = Len(payload),
         NEW fmt, NEW opts, NEW b, b = withCRC(Append(payload, typeByte(m.typ)), fmt, opts)
  PROVE  \E c \in {2, 4} : Bodied(m, opts, fmt, b, p, c)
<1>1. payload \in Seq(Byte) /\ parse(m.typ, payload) = {m} /\ \E i \in DOMAIN types : m.typ = types[i]
  BY Parses DEF Reads
<1>2. PICK i \in DOMAIN types : m.typ = types[i]
  BY <1>1
<1> DEFINE tb == typeByte(m.typ)
           X == <<tb>>
           body == payload \o X
           one == 1
<1>3. tb \in 65..78 /\ tb - 64 \in DOMAIN types /\ types[tb - 64] = m.typ
  BY <1>2, TypeRead
<1>4. Append(payload, tb) = body
  BY <1>1
<1> HIDE DEF tb
<1>5. X \in Seq(Byte) /\ one = Len(X) /\ X[1] = tb /\ one \in Nat
  BY <1>3 DEF Byte
<1>6. PICK q \in Nat : q = p + one
  OBVIOUS
<1>7. body = payload \o X
  OBVIOUS
<1> HIDE DEF body, X
<1>8. Joined(body, Byte, payload, p, X, one)
  <2> HIDE DEF one
  <2> QED
    BY ONLY <1>1, <1>5, <1>7, p \in Nat, p = Len(payload), Concatenated
<1>9. /\ body \in Seq(Byte) /\ q = Len(body)
      /\ \A j \in 1..p : body[j] = payload[j]
      /\ body[p + 1] = tb
  BY <1>5, <1>6, <1>8 DEF Joined
<1> DEFINE wide == fmt # fmtHEX /\ "C32" \in opts
           c == IF wide THEN 4 ELSE 2
           C == IF wide THEN complement(crc32Compute(body), 4) ELSE complement(crc16Compute(body), 2)
<1>10. b = body \o C
  BY <1>4 DEF withCRC, tb
<1>11. C \in Seq(Byte) /\ c = Len(C) /\ c \in Nat /\ c \in {2, 4}
  <2>1. 4 \in Nat /\ 2 \in Nat
    OBVIOUS
  <2> QED
    BY <2>1, ComplementTyped
<1>12. IF wide THEN crc32Compute(b) = crc32Test ELSE crc16Compute(b) = crc16Test
  BY <1>9, <1>10, Crc16Good, Crc32Good
<1> HIDE DEF C
<1>13. Joined(b, Byte, body, q, C, c)
  <2> HIDE DEF c
  <2> QED
    BY ONLY <1>9, <1>10, <1>11, q \in Nat, Concatenated
<1>14. b \in Seq(Byte) /\ q + c = Len(b) /\ \A j \in 1..q : b[j] = body[j]
  BY <1>13 DEF Joined
<1>15. q = p + 1
  BY <1>6
<1>16. b[p + 1] = tb
  <2>1. p + 1 \in 1..q
    BY ONLY <1>15, p \in Nat
  <2> QED
    BY <1>9, <1>14, <2>1
<1>17. SubSeq(b, 1, p) = payload
  <2>1. SubSeq(b, 1, p) = [j \in 1..p |-> b[j]]
    BY ONLY p \in Nat
  <2>2. ASSUME NEW j \in 1..p
        PROVE  b[j] = payload[j]
    <3>1. j \in 1..q
      BY ONLY <1>15, p \in Nat, j \in 1..p
    <3> QED
      BY <1>9, <1>14, <3>1
  <2>3. payload = [j \in 1..p |-> payload[j]]
    BY <1>1
  <2> QED
    BY ONLY <2>1, <2>2, <2>3
<1>18. p + 1 + c = Len(b) /\ b[p + 1] \in 65..78 /\ b[p + 1] - 64 \in DOMAIN types
       /\ parse(types[b[p + 1] - 64], SubSeq(b, 1, p)) = {m}
  BY ONLY <1>1, <1>3, <1>14, <1>15, <1>16, <1>17
<1>19. Bodied(m, opts, fmt, b, p, c)
  BY ONLY <1>12, <1>14, <1>18 DEF Bodied, c, wide
<1> QED
  BY <1>11, <1>19

\* What is written for a packet is a frame of a text that means the packet, to
\* every reader whose options the format needs.
THEOREM Written ==
  ASSUME Modest, NEW m \in Messages \cup Probes, NEW payload \in payloads(m),
         NEW fmt \in fmtBIN..fmtUUE, NEW opts, fmt = fmtBIN => "HI8" \notin opts, NEW pre \in PeerPrefixes
  PROVE  \E p, text, n, pos : \A o : fmt = fmtHEX \/ o = opts =>
             FrameOf(o, frame(m.typ, payload, fmt, opts, pre), p, fmt, text, n, pos) /\ Means(o, fmt, text, m)
<1>1. /\ m \in Message /\ Len(marshal(m)) <= maxPayloadSize /\ PeerPrefixes \subseteq Seq(Byte)
      /\ DataBufMax \in Nat /\ maxEncodedLen \in Nat /\ 3 * maxDecodedLen <= maxEncodedLen
  BY LinkAssumption DEF LinkAssumption
<1>2. maxPayloadSize \in Nat /\ maxDecodedLen \in Nat /\ maxDecodedLen = maxPayloadSize + 5
  BY ONLY <1>1 DEF maxDecodedLen, maxPayloadSize
<1>3. payload \in Seq(Byte)
  BY <1>1, Parses DEF Reads
<1>4. PICK p \in Nat : p = Len(payload)
  BY <1>3, LenProperties
<1>5. p <= maxPayloadSize
  BY <1>1, <1>2, <1>4, PayloadFits
<1>6. PICK b : b = withCRC(Append(payload, typeByte(m.typ)), fmt, opts)
  OBVIOUS
<1>7. PICK c \in {2, 4} : Bodied(m, opts, fmt, b, p, c)
  BY <1>1, <1>4, <1>6, BodyMade
<1>8. /\ b \in Seq(Byte) /\ p + 1 + c = Len(b) /\ b[p + 1] \in 65..78
      /\ c = IF fmt # fmtHEX /\ "C32" \in opts THEN 4 ELSE 2
      /\ IF fmt # fmtHEX /\ "C32" \in opts THEN crc32Compute(b) = crc32Test ELSE crc16Compute(b) = crc16Test
      /\ b[p + 1] - 64 \in DOMAIN types
      /\ parse(types[b[p + 1] - 64], SubSeq(b, 1, p)) = {m}
  BY <1>7 DEF Bodied
<1>9. PICK L \in Nat : L = Len(b)
  BY <1>8, LenProperties
<1>10. L = p + 1 + c /\ L <= maxDecodedLen /\ p + 1 \in 1..L
  <2>1. L = p + 1 + c /\ c \in {2, 4}
    BY <1>8, <1>9
  <2> QED
    BY ONLY <1>2, <1>5, <2>1, p \in Nat, L \in Nat
<1>11. 3 * L <= maxEncodedLen
  BY ONLY <1>1, <1>2, <1>10, L \in Nat
<1>12. PICK E : E = encode(b, fmt, opts)
  OBVIOUS
<1>13. E \in Seq(Byte) /\ \E text, n, pos : Carries(E, b, fmt, opts, text, n, pos)
  BY <1>8, <1>9, <1>10, <1>12, Encodes
<1>14. PICK text, n, pos : Carries(E, b, fmt, opts, text, n, pos)
  BY <1>13
<1> DEFINE P == putPrefix(pre)
           T == IF m.typ # "DATA" /\ fmt # fmtBIN THEN <<charCR, charLF>> ELSE <<>>
<1>15. P \in Seq(Byte) /\ \A i \in 1..Len(P) : strip(P[i]) # DLE
  <2>1. pre \in Seq(Byte) /\ \A i \in DOMAIN pre : strip(pre[i]) # DLE
    BY <1>1 DEF Modest
  <2> QED
    BY <2>1, PrefixWritten
<1>16. T \in Seq({charCR, charLF})
  <2>1. <<charCR, charLF>> \in Seq({charCR, charLF}) /\ <<>> \in Seq({charCR, charLF})
    OBVIOUS
  <2> QED
    BY ONLY <2>1 DEF T
<1>17. frame(m.typ, payload, fmt, opts, pre) = P \o <<DLE, fmt>> \o E \o <<DLE, fmtEnd>> \o T
  BY <1>6, <1>12 DEF frame
<1> HIDE DEF P, T
<1>18. PICK F : F = frame(m.typ, payload, fmt, opts, pre)
  OBVIOUS
<1>19. FramedAs(F, fmt, opts, text, n)
  <2>1. F = P \o <<DLE, fmt>> \o E \o <<DLE, fmtEnd>> \o T
    BY ONLY <1>17, <1>18
  <2>2. P \in Seq(Byte) /\ E \in Seq(Byte) /\ L = Len(b) /\ L \in Nat /\ fmt \in fmtBIN..fmtUUE
    BY <1>9, <1>13, <1>15
  <2> QED
    BY ONLY <1>11, <1>14, <1>15, <1>16, <2>1, <2>2, Framed
<1>20. PICK r, q : \A o : fmt = fmtHEX \/ o = opts => FrameOf(o, F, r, fmt, text, n, q)
  BY <1>19 DEF FramedAs
<1>21. ASSUME NEW o, fmt = fmtHEX \/ o = opts
       PROVE  Means(o, fmt, text, m)
  <2>1. decode(fmt, text) = b
    BY <1>14 DEF Carries
  <2>2. b # bad
    <3>1. ~(-1 \in Byte)
      BY ONLY TRUE DEF Byte
    <3>2. 1 \in 1..L
      BY ONLY <1>10, p \in Nat, L \in Nat
    <3>3. b[1] \in Byte
      BY <1>8, <1>9, <3>2, ElementOfSeq
    <3> QED
      BY ONLY <3>1, <3>3 DEF bad
  <2>3. fmt # fmtHEX /\ "C32" \in o <=> fmt # fmtHEX /\ "C32" \in opts
    BY <1>21
  <2>4. L - c = p + 1 /\ p + 1 >= 1 /\ (p + 1) - 1 = p
    BY ONLY <1>10, p \in Nat, c \in {2, 4}
  <2>5. Len(b) - (IF fmt # fmtHEX /\ "C32" \in o THEN 4 ELSE 2) = p + 1
    BY ONLY <1>8, <1>9, <2>3, <2>4
  <2> QED
    BY ONLY <1>8, <1>9, <1>10, <2>1, <2>2, <2>3, <2>4, <2>5 DEF Means
<1> QED
  BY <1>18, <1>20, <1>21

-----------------------------------------------------------------------------
(* One byte.                                                               *)

\* What the reader makes of a byte: the parity bit is off if it is forced.
seen(byte) == IF "HI8" \in rxOpts THEN strip(byte) ELSE byte

Rx == [dles : Nat, format : fmtBIN..fmtUUE, inPacket : BOOLEAN, overflow : BOOLEAN, body : Seq(Byte)]

fresh(fmt) == [dles |-> 0, format |-> fmt, inPacket |-> TRUE, overflow |-> FALSE, body |-> <<>>]

marked(c) == rx.dles > 0 \/ c = DLE

\* What the reader sees of a byte, with its parity bit set or not.
LEMMA Seen ==
  ASSUME NEW b \in Byte,
         NEW byte \in {b} \cup (IF "HI8" \in rxOpts THEN {strip(b) + 128} ELSE {})
  PROVE  /\ seen(byte) \in Byte
         /\ ("HI8" \in rxOpts => b < 128) => seen(byte) = b
         /\ strip(b) # DLE => seen(byte) # DLE
<1>1. b \in Nat /\ b < 256
  BY DEF Byte
<1>2. b % 128 \in 0..127 /\ ((b % 128) + 128) % 128 = b % 128 /\ (b < 128 => b % 128 = b)
  BY ONLY <1>1, SMT
<1>3. CASE "HI8" \in rxOpts
  <2>1. seen(byte) = b % 128
    BY ONLY <1>2, <1>3, byte \in {b} \cup (IF "HI8" \in rxOpts THEN {strip(b) + 128} ELSE {}) DEF seen, strip
  <2> QED
    BY ONLY <1>2, <1>3, <2>1 DEF strip, Byte
<1>4. CASE "HI8" \notin rxOpts
  <2>1. seen(byte) = b
    BY ONLY <1>4, byte \in {b} \cup (IF "HI8" \in rxOpts THEN {strip(b) + 128} ELSE {}) DEF seen
  <2>2. b = DLE => strip(b) = DLE
    BY ONLY <1>2 DEF strip, DLE
  <2> QED
    BY ONLY <1>4, <2>1, <2>2, b \in Byte
<1> QED
  BY <1>3, <1>4

\* flip makes a byte of a byte.
LEMMA FlipTyped ==
  ASSUME NEW c \in Byte
  PROVE  flip(c) \in Byte
<1>1. c \in Nat /\ c < 256
  BY DEF Byte
<1> QED
  BY <1>1 DEF flip, Byte

\* collect changes neither the count nor the format.
LEMMA Collects ==
  ASSUME NEW r \in Rx, NEW c \in Byte
  PROVE  /\ collect(r, c) \in Rx /\ collect(r, c).dles = r.dles
         /\ collect(r, c).inPacket = r.inPacket /\ collect(r, c).format = r.format
         /\ ~r.inPacket => collect(r, c) = r
<1>1. Append(r.body, c) \in Seq(Byte)
  BY DEF Rx
<1> QED
  BY <1>1 DEF collect, Rx

\* A byte that the filter eats changes nothing.
LEMMA Eaten ==
  ASSUME NEW byte, ReadByte(byte), Eats(rxOpts, seen(byte))
  PROVE  rx' = rx /\ got' = got /\ heard' = heard
<1>1. eaten(seen(byte))
  BY DEF eaten, Eats
<1> QED
  BY <1>1 DEF ReadByte, seen

\* A DLE.
LEMMA DleRead ==
  ASSUME NEW byte, ReadByte(byte), seen(byte) = DLE, rx \in Rx
  PROVE  /\ got' = got
         /\ rx.dles + 1 >= 5 => heard' = TRUE
         /\ rx.dles + 1 < 5 => heard' = FALSE /\ rx' = [rx EXCEPT !.dles = @ + 1]
<1>1. ~eaten(DLE)
  BY DEF eaten, masked, strip, DLE
<1>2. DLE \notin 97..101
  BY DEF DLE
<1>3. /\ heard' = (rx.dles + 1 >= detectCancelCount)
      /\ rx' = [rx EXCEPT !.dles = IF heard' THEN 0 ELSE @ + 1]
      /\ got' = got
  BY <1>1, <1>2 DEF ReadByte, seen, fmtBIN, fmtUUE, fmtEnd
<1>4. rx.dles \in Nat
  BY DEF Rx
<1>5. CASE rx.dles + 1 >= 5
  <2>1. (rx.dles + 1 >= detectCancelCount) = TRUE
    BY ONLY <1>5 DEF detectCancelCount
  <2>2. ~(rx.dles + 1 < 5)
    BY ONLY <1>4, <1>5
  <2> QED
    BY ONLY <1>3, <2>1, <2>2
<1>6. CASE ~(rx.dles + 1 >= 5)
  <2>1. (rx.dles + 1 >= detectCancelCount) = FALSE
    BY ONLY <1>6 DEF detectCancelCount
  <2>2. heard' = FALSE
    BY ONLY <1>3, <2>1
  <2>3. rx' = [rx EXCEPT !.dles = @ + 1]
    BY ONLY <1>3, <2>2
  <2> QED
    BY ONLY <1>3, <1>6, <2>2, <2>3
<1> QED
  BY ONLY <1>5, <1>6

\* A marker.
LEMMA MarkRead ==
  ASSUME NEW byte, ReadByte(byte), seen(byte) \in fmtBIN..fmtUUE, rx \in Rx, rx.dles > 0
  PROVE  rx' = fresh(seen(byte)) /\ got' = got /\ heard' = heard
<1> DEFINE c == seen(byte)
<1>1. c \in 98..101
  BY DEF fmtBIN, fmtUUE
<1>2. ~eaten(c) /\ c # DLE /\ c # fmtEnd /\ c \in fmtEnd..fmtUUE
  BY <1>1 DEF eaten, masked, strip, DLE, control, charXON, charXOF, fmtEnd, fmtUUE
<1> QED
  BY <1>2 DEF ReadByte, seen, fresh

\* The end of a packet.
LEMMA EndRead ==
  ASSUME NEW byte, ReadByte(byte), seen(byte) = fmtEnd, rx \in Rx, rx.dles > 0
  PROVE  /\ rx' = [rx EXCEPT !.inPacket = FALSE, !.overflow = FALSE, !.body = <<>>]
         /\ heard' = heard
         /\ \/ finished = {} /\ got' = got
            \/ \E m \in finished : got' = Append(got, m)
<1>1. ~eaten(fmtEnd) /\ fmtEnd # DLE /\ fmtEnd \notin fmtBIN..fmtUUE /\ fmtEnd \in fmtEnd..fmtUUE
  BY DEF eaten, masked, strip, DLE, control, charXON, charXOF, fmtEnd, fmtUUE, fmtBIN
<1> QED
  BY <1>1 DEF ReadByte, seen

\* A byte that a DLE escapes, and one by itself.
LEMMA EscapedRead ==
  ASSUME NEW byte, ReadByte(byte), seen(byte) \notin fmtEnd..fmtUUE, seen(byte) # DLE,
         ~Eats(rxOpts, seen(byte)), rx.dles > 0
  PROVE  rx' = afterEscape(collect(rx, flip(seen(byte)))) /\ got' = got /\ heard' = heard
<1>1. ~eaten(seen(byte))
  BY DEF eaten, Eats
<1>2. seen(byte) \notin fmtBIN..fmtUUE /\ seen(byte) # fmtEnd
  BY DEF fmtBIN, fmtUUE, fmtEnd
<1> QED
  BY <1>1, <1>2 DEF ReadByte, seen

\* A byte that no DLE precedes is collected as it is.
LEMMA RawRead ==
  ASSUME NEW byte, ReadByte(byte), seen(byte) # DLE, ~Eats(rxOpts, seen(byte)), ~(rx.dles > 0)
  PROVE  rx' = collect(rx, seen(byte)) /\ got' = got /\ heard' = heard
<1>1. ~eaten(seen(byte))
  BY DEF eaten, Eats
<1> QED
  BY <1>1 DEF ReadByte, seen

\* What a byte that is no DLE may do.
NoDleEffect(c) ==
    /\ rx' \in Rx /\ rx'.dles <= rx.dles /\ heard' = heard
    /\ got' = got \/ \E m : got' = Append(got, m)
    /\ ~Eats(rxOpts, c) /\ c # fmtEnd => rx'.dles = 0
    /\ (rx.inPacket => rx.dles = 0) => got' = got /\ (rx'.inPacket => rx'.dles = 0)
    /\ c \in {charCR, charLF} /\ ~rx.inPacket => ~rx'.inPacket /\ got' = got

\* Reading a byte that is no DLE.
LEMMA NoDleRead ==
  ASSUME NEW byte, ReadByte(byte), seen(byte) \in Byte, seen(byte) # DLE, rx \in Rx
  PROVE  NoDleEffect(seen(byte))
<1> DEFINE c == seen(byte)
<1>1. rx.dles \in Nat /\ rx.inPacket \in BOOLEAN
  BY DEF Rx
<1>2. CASE Eats(rxOpts, c)
  <2>1. rx' = rx /\ got' = got /\ heard' = heard
    BY <1>2, Eaten
  <2>2. rx.dles <= rx.dles
    BY <1>1
  <2> QED
    BY ONLY <1>2, <2>1, <2>2, rx \in Rx DEF NoDleEffect
<1>3. CASE ~Eats(rxOpts, c) /\ ~(rx.dles > 0)
  <2>1. rx' = collect(rx, c) /\ got' = got /\ heard' = heard
    BY <1>3, RawRead
  <2>2. collect(rx, c) \in Rx /\ collect(rx, c).dles = rx.dles /\ collect(rx, c).inPacket = rx.inPacket
    BY Collects
  <2>3. rx.dles = 0 /\ rx.dles <= rx.dles
    BY ONLY <1>1, <1>3
  <2> QED
    BY ONLY <1>3, <2>1, <2>2, <2>3 DEF NoDleEffect
<1>4. CASE ~Eats(rxOpts, c) /\ rx.dles > 0 /\ c \in fmtBIN..fmtUUE
  <2>1. rx' = fresh(c) /\ got' = got /\ heard' = heard
    BY <1>4, MarkRead
  <2>2. fresh(c) \in Rx /\ fresh(c).dles = 0
    BY <1>4 DEF fresh, Rx
  <2>3. 0 <= rx.dles
    BY <1>1
  <2>4. c \notin {charCR, charLF}
    BY ONLY <1>4 DEF charCR, charLF, fmtBIN, fmtUUE
  <2> QED
    BY ONLY <2>1, <2>2, <2>3, <2>4 DEF NoDleEffect
<1>5. CASE ~Eats(rxOpts, c) /\ rx.dles > 0 /\ c = fmtEnd
  <2>1. /\ rx' = [rx EXCEPT !.inPacket = FALSE, !.overflow = FALSE, !.body = <<>>]
        /\ heard' = heard
        /\ \/ finished = {} /\ got' = got
           \/ \E m \in finished : got' = Append(got, m)
    BY <1>5, EndRead
  <2> DEFINE r == [rx EXCEPT !.inPacket = FALSE, !.overflow = FALSE, !.body = <<>>]
  <2>8. r \in Rx /\ r.dles = rx.dles /\ ~r.inPacket
    <3>1. <<>> \in Seq(Byte)
      OBVIOUS
    <3> QED
      BY ONLY <3>1, rx \in Rx DEF Rx
  <2>2. rx' \in Rx /\ rx'.dles = rx.dles /\ ~rx'.inPacket
    BY ONLY <2>1, <2>8
  <2>3. rx.dles <= rx.dles /\ ~(rx.dles = 0)
    BY ONLY <1>1, <1>5
  <2>4. ~rx.inPacket => finished = {}
    BY DEF finished
  <2>5. c \notin {charCR, charLF}
    BY ONLY <1>5 DEF charCR, charLF, fmtEnd
  <2>6. got' = got \/ \E m : got' = Append(got, m)
    BY ONLY <2>1
  <2>7. (rx.inPacket => rx.dles = 0) => got' = got
    BY ONLY <2>1, <2>3, <2>4
  <2> QED
    BY ONLY <1>5, <2>1, <2>2, <2>3, <2>5, <2>6, <2>7 DEF NoDleEffect
<1>6. CASE ~Eats(rxOpts, c) /\ rx.dles > 0 /\ c \notin fmtEnd..fmtUUE
  <2>1. rx' = afterEscape(collect(rx, flip(c))) /\ got' = got /\ heard' = heard
    BY <1>6, EscapedRead
  <2>2. flip(c) \in Byte
    BY FlipTyped
  <2>3. PICK r : r = collect(rx, flip(c))
    OBVIOUS
  <2>4. r \in Rx /\ r.inPacket = rx.inPacket
    BY <2>2, <2>3, Collects
  <2>5. afterEscape(r) \in Rx /\ afterEscape(r).dles = 0 /\ afterEscape(r).inPacket = r.inPacket
    BY ONLY <2>4 DEF afterEscape, Rx
  <2>6. 0 <= rx.dles
    BY <1>1
  <2> QED
    BY ONLY <2>1, <2>3, <2>4, <2>5, <2>6 DEF NoDleEffect
<1>7. c \in fmtEnd..fmtUUE <=> c = fmtEnd \/ c \in fmtBIN..fmtUUE
  BY DEF fmtEnd, fmtBIN, fmtUUE
<1> QED
  BY <1>2, <1>3, <1>4, <1>5, <1>6, <1>7

\* Reading a DLE, when no cancel is due yet.
LEMMA DleTyped ==
  ASSUME NEW byte, ReadByte(byte), seen(byte) = DLE, rx \in Rx, rx.dles <= 3
  PROVE  /\ rx' \in Rx /\ rx'.dles = rx.dles + 1 /\ rx' = [rx EXCEPT !.dles = @ + 1]
         /\ heard' = FALSE /\ got' = got
<1>1. rx.dles \in Nat
  BY DEF Rx
<1>2. rx.dles + 1 < 5 /\ rx.dles + 1 \in Nat
  BY <1>1
<1>3. got' = got /\ heard' = FALSE /\ rx' = [rx EXCEPT !.dles = @ + 1]
  BY <1>2, DleRead
<1> QED
  BY <1>2, <1>3 DEF Rx

-----------------------------------------------------------------------------
(* How many DLEs may have been read at each place of a frame.              *)

\* With d DLEs counted before place k.  slack is 2 until the line has damaged
\* a byte: that may make a DLE of one that would have ended a run.
Bound(p, text, n, pos, k, d, slack) ==
    \/ k \in 0..p /\ d + slack <= 3
    \/ k = p + 1 /\ d + slack <= 4
    \/ \E i \in 0..n : /\ k = pos[i]
                       /\ \/ d + slack <= 2
                          \/ slack = 0 /\ d <= 3 /\ \E j \in (i + 1)..n : text[j] # fmtEnd
    \/ \E i \in 1..n : /\ k = pos[i] - 1 /\ pos[i] = pos[i - 1] + 2
                       /\ d + slack <= 3 \/ (slack = 0 /\ d <= 4)
    \/ k > pos[n] /\ d + slack <= 3


\* Reading the next byte of a frame, damaged before or not.
LEMMA BoundStep ==
  ASSUME NEW F, NEW p, NEW fmt, NEW text, NEW n, NEW pos, FrameOf(rxOpts, F, p, fmt, text, n, pos),
         NEW k \in Nat, k < Len(F), NEW slack \in {0, 2}, rx \in Rx, ~heard,
         Bound(p, text, n, pos, k, rx.dles, slack),
         NEW byte \in {F[k + 1]} \cup (IF "HI8" \in rxOpts THEN {strip(F[k + 1]) + 128} ELSE {}),
         ReadByte(byte)
  PROVE  rx' \in Rx /\ heard' = FALSE /\ Bound(p, text, n, pos, k + 1, rx'.dles, slack)
<1> DEFINE c == seen(byte)
           b == F[k + 1]
           d == rx.dles
<1>1. /\ F \in Seq(Byte) /\ p \in Nat /\ n \in Nat /\ text \in Seq(Byte) /\ n = Len(text)
      /\ \A i \in 1..p : strip(F[i]) # DLE
      /\ F[p + 1] = DLE /\ F[p + 2] = fmt /\ fmt \in fmtBIN..fmtUUE
      /\ pos \in [0..n -> Nat] /\ pos[0] = p + 2
      /\ \A i \in 0..n : pos[i] <= pos[n]
      /\ \A i \in 1..n : Raw(rxOpts, F, text, pos, i) \/ Escaped(rxOpts, F, text, pos, i)
      /\ F[pos[n] + 1] = DLE /\ F[pos[n] + 2] = fmtEnd
      /\ \A j \in (pos[n] + 3)..Len(F) : F[j] \in {charCR, charLF}
      /\ \E i \in 1..n : text[i] # fmtEnd
  BY DEF FrameOf, Spelled
<1>2. b \in Byte
  <2>1. PICK l \in Nat : l = Len(F)
    BY <1>1, LenProperties
  <2>2. k + 1 \in 1..l
    BY <2>1
  <2> QED
    BY <1>1, <2>1, <2>2, ElementOfSeq
<1>3. /\ c \in Byte /\ (("HI8" \in rxOpts => b < 128) => c = b) /\ (strip(b) # DLE => c # DLE)
  BY <1>2, Seen
<1>4. d \in Nat
  BY DEF Rx
<1> HIDE DEF c, b
\* A DLE costs one, and nothing else does.
<1>5. ASSUME c = DLE, d <= 3
      PROVE  rx' \in Rx /\ heard' = FALSE /\ rx'.dles = d + 1
  BY <1>5, DleTyped DEF c
<1>6. ASSUME c # DLE
      PROVE  /\ rx' \in Rx /\ heard' = FALSE /\ rx'.dles <= d /\ rx'.dles \in Nat
             /\ ~Eats(rxOpts, c) /\ c # fmtEnd => rx'.dles = 0
  <2>1. NoDleEffect(c)
    BY <1>3, <1>6, NoDleRead DEF c
  <2>2. rx' \in Rx => rx'.dles \in Nat
    BY DEF Rx
  <2> QED
    BY <2>1, <2>2 DEF NoDleEffect
<1>7. b = DLE => c = DLE
  <2>1. DLE < 128
    BY DEF DLE
  <2> QED
    BY <1>3, <2>1
<1> DEFINE d2 == rx'.dles
           Goal == rx' \in Rx /\ heard' = FALSE /\ Bound(p, text, n, pos, k + 1, d2, slack)
<1>8. CASE k \in 0..p /\ d + slack <= 3
  <2>1. CASE k = p
    <3>1. b = DLE /\ c = DLE /\ d <= 3
      BY SMTT(30), <1>1, <1>4, <1>7, <1>8, <2>1 DEF b
    <3>2. rx' \in Rx /\ heard' = FALSE /\ d2 = d + 1
      BY <1>5, <3>1
    <3>3. k + 1 = p + 1 /\ d2 + slack <= 4
      BY ONLY <1>4, <1>8, <2>1, <3>2, slack \in {0, 2}
    <3> QED
      BY ONLY <3>2, <3>3 DEF Bound
  <2>2. CASE k # p
    <3>1. k + 1 \in 1..p /\ k + 1 \in 0..p
      BY ONLY <1>1, <1>8, <2>2, k \in Nat
    <3>2. c # DLE
      BY <1>1, <1>3, <3>1 DEF b
    <3>3. rx' \in Rx /\ heard' = FALSE /\ d2 <= d /\ d2 \in Nat
      BY <1>6, <3>2
    <3>4. d2 + slack <= 3
      BY ONLY <1>4, <1>8, <3>3, slack \in {0, 2}
    <3> QED
      BY ONLY <3>1, <3>3, <3>4 DEF Bound
  <2> QED
    BY <2>1, <2>2
<1>9. CASE k = p + 1 /\ d + slack <= 4
  <2>1. b = fmt
    <3>1. k + 1 = p + 2
      BY ONLY <1>1, <1>9
    <3> QED
      BY <1>1, <3>1 DEF b
  <2>2. fmt < 128 /\ fmt # DLE /\ fmt # fmtEnd /\ ~Eats(rxOpts, fmt)
    <3>1. fmt \in 98..101
      BY ONLY <1>1 DEF fmtBIN, fmtUUE
    <3>2. masked(rxOpts, fmt) = fmt
      BY ONLY <3>1 DEF masked, strip
    <3> QED
      BY ONLY <3>1, <3>2 DEF fmtEnd, DLE, Eats, control, charXON, charXOF
  <2>3. c = fmt
    BY <1>3, <2>1, <2>2
  <2>4. rx' \in Rx /\ heard' = FALSE /\ d2 = 0
    BY <1>6, <2>2, <2>3
  <2>5. 0 \in 0..n /\ k + 1 = pos[0] /\ d2 + slack <= 2
    BY ONLY <1>1, <1>9, <2>4, slack \in {0, 2}
  <2> QED
    BY ONLY <2>4, <2>5 DEF Bound
<1>10. ASSUME NEW i \in 0..n, k = pos[i],
              d + slack <= 2 \/ (slack = 0 /\ d <= 3 /\ \E j \in (i + 1)..n : text[j] # fmtEnd)
       PROVE  Goal
  <2>1. CASE i = n
    <3>1. ~(\E j \in (i + 1)..n : text[j] # fmtEnd)
      BY ONLY <1>1, <2>1
    <3>2. d + slack <= 2
      BY <1>10, <3>1
    <3>3. b = DLE /\ c = DLE /\ d <= 3
      BY SMTT(30), <1>1, <1>4, <1>7, <1>10, <2>1, <3>2 DEF b
    <3>4. rx' \in Rx /\ heard' = FALSE /\ d2 = d + 1
      BY <1>5, <3>3
    <3>5. pos[n] \in Nat
      BY SMTT(30), <1>1
    <3>6. k + 1 > pos[n] /\ d2 + slack <= 3
      BY ONLY <1>4, <1>10, <2>1, <3>2, <3>4, <3>5, slack \in {0, 2}
    <3> QED
      BY ONLY <3>4, <3>6 DEF Bound
  <2>2. CASE i # n
    <3>1. PICK m \in 1..n : m = i + 1 /\ i = m - 1 /\ m \in 0..n
      <4>1. i + 1 \in 1..n /\ i = (i + 1) - 1 /\ i + 1 \in 0..n
        BY ONLY <1>1, <2>2, i \in 0..n
      <4> QED
        BY ONLY <4>1
    <3>2. CASE Raw(rxOpts, F, text, pos, m)
      <4>1. pos[m] = k + 1 /\ b = text[m] /\ Clear(rxOpts, text[m])
        BY <1>10, <3>1, <3>2 DEF Raw, b
      <4>2. c = text[m] /\ c # DLE /\ ~Eats(rxOpts, c)
        BY <1>3, <4>1 DEF Clear
      <4>3. /\ rx' \in Rx /\ heard' = FALSE /\ d2 <= d /\ d2 \in Nat
            /\ c # fmtEnd => d2 = 0
        BY <1>6, <4>2
      <4>4. CASE c # fmtEnd \/ d + slack <= 2
        <5>1. d2 + slack <= 2
          BY ONLY <1>4, <4>3, <4>4, slack \in {0, 2}
        <5> QED
          BY ONLY <3>1, <4>1, <4>3, <5>1 DEF Bound
      <4>5. CASE c = fmtEnd /\ slack = 0 /\ d <= 3 /\ \E j \in (i + 1)..n : text[j] # fmtEnd
        <5>1. PICK j \in (i + 1)..n : text[j] # fmtEnd
          BY <4>5
        <5>2. j # m
          BY ONLY <4>2, <4>5, <5>1
        <5>3. j \in (m + 1)..n
          BY ONLY <1>1, <3>1, <5>1, <5>2, i \in 0..n
        <5>4. d2 <= 3
          BY ONLY <1>4, <4>3, <4>5
        <5> QED
          BY ONLY <3>1, <4>1, <4>3, <4>5, <5>1, <5>3, <5>4 DEF Bound
      <4> QED
        BY <1>10, <4>4, <4>5
    <3>3. CASE Escaped(rxOpts, F, text, pos, m)
      <4>1. pos[m] = k + 2 /\ F[pos[m] - 1] = DLE /\ pos[m] = pos[m - 1] + 2
        BY <1>10, <3>1, <3>3 DEF Escaped
      <4>2. k + 1 = pos[m] - 1
        BY ONLY <4>1, k \in Nat
      <4>3. b = DLE /\ c = DLE /\ d <= 3
        <5>1. b = DLE
          BY ONLY <4>1, <4>2 DEF b
        <5>2. d <= 3
          BY ONLY <1>4, <1>10, slack \in {0, 2}
        <5> QED
          BY <1>7, <5>1, <5>2
      <4>4. rx' \in Rx /\ heard' = FALSE /\ d2 = d + 1
        BY <1>5, <4>3
      <4>5. d2 + slack <= 3 \/ (slack = 0 /\ d2 <= 4)
        BY ONLY <1>4, <1>10, <4>4, slack \in {0, 2}
      <4> QED
        BY ONLY <3>1, <4>1, <4>2, <4>4, <4>5 DEF Bound
    <3> QED
      BY <1>1, <3>1, <3>2, <3>3
  <2> QED
    BY <2>1, <2>2
<1>11. ASSUME NEW i \in 1..n, k = pos[i] - 1, pos[i] = pos[i - 1] + 2,
              d + slack <= 3 \/ (slack = 0 /\ d <= 4)
       PROVE  Goal
  <2>1. i \in 0..n /\ i - 1 \in 0..n
    BY ONLY <1>1, i \in 1..n
  <2>2. pos[i] \in Nat /\ pos[i - 1] \in Nat
    BY <1>1, <2>1
  <2>3. Escaped(rxOpts, F, text, pos, i)
    <3>1. ~(pos[i] = pos[i - 1] + 1)
      BY ONLY <1>11, <2>2
    <3> QED
      BY <1>1, <3>1 DEF Raw
  <2>4. k + 1 = pos[i]
    BY ONLY <1>11, <2>2
  <2>5. b = flip(text[i]) /\ Veiled(rxOpts, text[i])
    BY <2>3, <2>4 DEF Escaped, b
  <2>6. flip(text[i]) # DLE /\ flip(text[i]) \notin 97..101 /\ ~Eats(rxOpts, flip(text[i]))
        /\ ("HI8" \in rxOpts => flip(text[i]) < 128)
    BY <2>5, FlipReads
  <2>7. c = flip(text[i]) /\ c # DLE /\ c # fmtEnd /\ ~Eats(rxOpts, c)
    <3>1. fmtEnd \in 97..101
      BY DEF fmtEnd
    <3> QED
      BY <1>3, <2>5, <2>6, <3>1
  <2>8. rx' \in Rx /\ heard' = FALSE /\ d2 = 0
    BY <1>6, <2>7
  <2>9. d2 + slack <= 2
    BY ONLY <2>8, slack \in {0, 2}
  <2> QED
    BY ONLY <2>1, <2>4, <2>8, <2>9 DEF Bound
<1>12. CASE k > pos[n] /\ d + slack <= 3
  <2>1. PICK q \in Nat : q = pos[n]
    BY SMTT(30), <1>1
  <2>2. c # DLE
    <3>1. CASE k = q + 1
      <4>1. b = fmtEnd
        <5>1. k + 1 = q + 2
          BY ONLY <3>1, q \in Nat
        <5> QED
          BY <1>1, <2>1, <5>1 DEF b
      <4>2. strip(fmtEnd) # DLE
        BY DEF strip, fmtEnd, DLE
      <4> QED
        BY <1>3, <4>1, <4>2
    <3>2. CASE k # q + 1
      <4>1. PICK l \in Nat : l = Len(F)
        BY <1>1, LenProperties
      <4>2. k + 1 \in (q + 3)..l
        BY <1>12, <2>1, <3>2, <4>1
      <4>3. b \in {charCR, charLF}
        BY <1>1, <2>1, <4>1, <4>2 DEF b
      <4>4. strip(b) # DLE
        BY <4>3 DEF strip, charCR, charLF, DLE
      <4> QED
        BY <1>3, <4>4
    <3> QED
      BY <3>1, <3>2
  <2>3. rx' \in Rx /\ heard' = FALSE /\ d2 <= d /\ d2 \in Nat
    BY <1>6, <2>2
  <2>4. k + 1 > pos[n] /\ d2 + slack <= 3
    BY ONLY <1>4, <1>12, <2>1, <2>3, k \in Nat, q \in Nat, slack \in {0, 2}
  <2> QED
    BY ONLY <2>3, <2>4 DEF Bound
<1> QED
  <2>1. Bound(p, text, n, pos, k, d, slack)
    OBVIOUS
  <2> HIDE DEF d
  <2>2. Goal
    BY ONLY <1>8, <1>9, <1>10, <1>11, <1>12, <2>1 DEF Bound
  <2> QED
    BY ONLY <2>2

\* Fewer DLEs counted are within the bound as well.
LEMMA BoundLess ==
  ASSUME NEW p, NEW text, NEW n, NEW pos, NEW k, NEW d \in Nat, NEW slack \in {0, 2},
         Bound(p, text, n, pos, k, d, slack), NEW e \in Nat, e <= d
  PROVE  Bound(p, text, n, pos, k, e, slack)
<1>1. /\ d + slack <= 2 => e + slack <= 2
      /\ d + slack <= 3 => e + slack <= 3
      /\ d + slack <= 4 => e + slack <= 4
      /\ d <= 3 => e <= 3
      /\ d <= 4 => e <= 4
  OBVIOUS
<1> QED
  BY <1>1 DEF Bound

\* A damaged byte uses up the slack.
LEMMA BoundDamaged ==
  ASSUME NEW o, NEW F, NEW p, NEW fmt, NEW text, NEW n, NEW pos, FrameOf(o, F, p, fmt, text, n, pos),
         NEW k \in Nat, NEW d \in Nat, Bound(p, text, n, pos, k, d, 2)
  PROVE  Bound(p, text, n, pos, k + 1, d + 1, 0)
<1>1. /\ p \in Nat /\ n \in Nat /\ pos \in [0..n -> Nat] /\ pos[0] = p + 2
      /\ \A i \in 1..n : Raw(o, F, text, pos, i) \/ Escaped(o, F, text, pos, i)
      /\ \E i \in 1..n : text[i] # fmtEnd
  BY DEF FrameOf, Spelled
<1> DEFINE e == d + 1
           Goal == Bound(p, text, n, pos, k + 1, e, 0)
<1>2. CASE k \in 0..p /\ d + 2 <= 3
  <2>1. k + 1 \in 0..p \/ k + 1 = p + 1
    BY <1>1, <1>2
  <2>2. e + 0 <= 3 /\ e + 0 <= 4
    BY <1>2
  <2> QED
    BY ONLY <2>1, <2>2 DEF Bound
<1>3. CASE k = p + 1 /\ d + 2 <= 4
  <2>1. 0 \in 0..n /\ k + 1 = pos[0] /\ e <= 3
    BY <1>1, <1>3
  <2>2. \E j \in (0 + 1)..n : text[j] # fmtEnd
    <3>1. 0 + 1 = 1
      OBVIOUS
    <3> QED
      BY <1>1, <3>1
  <2> QED
    BY ONLY <2>1, <2>2 DEF Bound
<1>4. ASSUME NEW i \in 0..n, k = pos[i], d + 2 <= 2 \/ 2 = 0
      PROVE  Goal
  <2>1. e + 0 <= 2 /\ e + 0 <= 3
    BY <1>4
  <2>2. CASE i = n
    <3>1. k + 1 > pos[n]
      BY <1>4, <2>2
    <3> QED
      BY ONLY <2>1, <3>1 DEF Bound
  <2>3. CASE i # n
    <3>1. PICK m \in 1..n : m = i + 1 /\ i = m - 1 /\ m \in 0..n
      <4>1. i + 1 \in 1..n /\ i = (i + 1) - 1 /\ i + 1 \in 0..n
        BY ONLY <1>1, <2>3, i \in 0..n
      <4> QED
        BY ONLY <4>1
    <3>2. CASE Raw(o, F, text, pos, m)
      <4>1. pos[m] = k + 1
        BY <1>4, <3>1, <3>2 DEF Raw
      <4> QED
        BY ONLY <2>1, <3>1, <4>1 DEF Bound
    <3>3. CASE Escaped(o, F, text, pos, m)
      <4>1. pos[m] = k + 2 /\ pos[m] = pos[m - 1] + 2
        BY <1>4, <3>1, <3>3 DEF Escaped
      <4>2. k + 1 = pos[m] - 1
        BY ONLY <4>1, k \in Nat
      <4> QED
        BY ONLY <2>1, <3>1, <4>1, <4>2 DEF Bound
    <3> QED
      BY <1>1, <3>1, <3>2, <3>3
  <2> QED
    BY <2>2, <2>3
<1>5. ASSUME NEW i \in 1..n, k = pos[i] - 1, d + 2 <= 3 \/ 2 = 0
      PROVE  Goal
  <2>1. i \in 0..n
    BY <1>1
  <2>2. pos[i] \in Nat
    BY <1>1, <2>1
  <2>3. k + 1 = pos[i] /\ e + 0 <= 2
    BY ONLY <1>5, <2>2, d \in Nat
  <2> QED
    BY ONLY <2>1, <2>3 DEF Bound
<1>6. CASE k > pos[n] /\ d + 2 <= 3
  <2>1. pos[n] \in Nat
    BY <1>1
  <2>2. k + 1 > pos[n] /\ e + 0 <= 3
    BY ONLY <1>6, <2>1, k \in Nat, d \in Nat
  <2> QED
    BY ONLY <2>2 DEF Bound
<1> QED
  <2>1. Bound(p, text, n, pos, k, d, 2)
    OBVIOUS
  <2>2. 2 # 0
    OBVIOUS
  <2>3. Goal
    BY ONLY <1>2, <1>3, <1>4, <1>5, <1>6, <2>1, <2>2 DEF Bound
  <2> QED
    BY ONLY <2>3

-----------------------------------------------------------------------------
(* What has been understood.                                               *)

\* g is s up to n, but for what became of packet h.
Keeps(g, s, n, h) ==
    /\ h \notin 1..n => Len(g) = n /\ \A i \in 1..n : g[i] = s[i]
    /\ h \in 1..n =>
         \E d \in Nat : /\ Len(g) = n - 1 + d
                        /\ \A i \in 1..(h - 1) : g[i] = s[i]
                        /\ \A i \in (h + 1)..n : g[i - 1 + d] = s[i]

IsSeq(g) == \E S : g \in Seq(S)

\* Append, on a sequence of whatever.
LEMMA Appended ==
  ASSUME NEW g, IsSeq(g), NEW m, NEW l \in Nat, l = Len(g)
  PROVE  /\ IsSeq(Append(g, m)) /\ l + 1 = Len(Append(g, m))
         /\ \A i \in 1..l : Append(g, m)[i] = g[i]
         /\ Append(g, m)[l + 1] = m
<1>1. PICK S : g \in Seq(S)
  BY DEF IsSeq
<1> DEFINE T == S \cup {m}
<1>2. g \in [1..l -> S]
  BY <1>1
<1>3. g \in [1..l -> T]
  BY <1>2
<1>4. g \in Seq(T) /\ m \in T
  <2> HIDE DEF T
  <2>1. g \in Seq(T)
    BY ONLY <1>3, l \in Nat
  <2> QED
    BY <2>1 DEF T
<1> HIDE DEF T
<1>5. /\ Append(g, m) \in Seq(T) /\ l + 1 = Len(Append(g, m))
      /\ \A i \in 1..l : Append(g, m)[i] = g[i]
      /\ Append(g, m)[l + 1] = m
  BY <1>4
<1> QED
  BY <1>5 DEF IsSeq

\* The packet that was sent.
LEMMA KeepsOne ==
  ASSUME NEW g, IsSeq(g), NEW s, NEW n \in Nat \ {0}, NEW h \in Nat, h # n, Keeps(g, s, n - 1, h),
         NEW f, f = Append(g, s[n])
  PROVE  Keeps(f, s, n, h)
<1>1. PICK l \in Nat : l = Len(g)
  BY LenProperties DEF IsSeq
<1>2. l + 1 = Len(f) /\ (\A i \in 1..l : f[i] = g[i]) /\ f[l + 1] = s[n]
  BY <1>1, Appended
<1>3. CASE h \notin 1..n
  <2>1. h \notin 1..(n - 1)
    BY <1>3
  <2>2. l = n - 1 /\ \A i \in 1..(n - 1) : g[i] = s[i]
    BY <1>1, <2>1 DEF Keeps
  <2>3. n = Len(f)
    BY <1>2, <2>2
  <2>4. \A i \in 1..n : f[i] = s[i]
    <3> TAKE i \in 1..n
    <3>1. CASE i = n
      BY <1>2, <2>2, <3>1
    <3>2. CASE i # n
      <4>1. i \in 1..l /\ i \in 1..(n - 1)
        BY ONLY <2>2, <3>2, i \in 1..n, n \in Nat \ {0}
      <4> QED
        BY <1>2, <2>2, <4>1
    <3> QED
      BY <3>1, <3>2
  <2> QED
    BY ONLY <1>3, <2>3, <2>4 DEF Keeps
<1>4. CASE h \in 1..n
  <2>1. h \in 1..(n - 1)
    BY <1>4
  <2>2. PICK d \in Nat : /\ Len(g) = (n - 1) - 1 + d
                         /\ \A i \in 1..(h - 1) : g[i] = s[i]
                         /\ \A i \in (h + 1)..(n - 1) : g[i - 1 + d] = s[i]
    BY <2>1 DEF Keeps
  <2>3. l = (n - 1) - 1 + d
    BY <1>1, <2>2
  <2>4. l + 1 = n - 1 + d /\ Len(f) = n - 1 + d
    BY ONLY <1>2, <2>3, n \in Nat \ {0}, d \in Nat
  <2>5. \A i \in 1..(h - 1) : f[i] = s[i]
    <3> TAKE i \in 1..(h - 1)
    <3>1. i \in 1..l
      BY ONLY <2>1, <2>3, i \in 1..(h - 1), n \in Nat \ {0}, d \in Nat, h \in Nat
    <3> QED
      BY <1>2, <2>2, <3>1
  <2>6. \A i \in (h + 1)..n : f[i - 1 + d] = s[i]
    <3> TAKE i \in (h + 1)..n
    <3>1. CASE i = n
      BY <1>2, <2>4, <3>1
    <3>2. CASE i # n
      <4>1. i - 1 + d \in 1..l /\ i \in (h + 1)..(n - 1)
        BY ONLY <2>1, <2>3, <3>2, i \in (h + 1)..n, n \in Nat \ {0}, d \in Nat, h \in Nat
      <4> QED
        BY <1>2, <2>2, <4>1
    <3> QED
      BY <3>1, <3>2
  <2> QED
    BY ONLY <1>4, <2>4, <2>5, <2>6, d \in Nat DEF Keeps
<1> QED
  BY <1>3, <1>4

\* Whatever a damaged packet turns into.
LEMMA KeepsAny ==
  ASSUME NEW g, IsSeq(g), NEW s, NEW n \in Nat \ {0}, Keeps(g, s, n, n), NEW m, NEW f, f = Append(g, m)
  PROVE  Keeps(f, s, n, n)
<1>1. PICK l \in Nat : l = Len(g)
  BY LenProperties DEF IsSeq
<1>2. l + 1 = Len(f) /\ (\A i \in 1..l : f[i] = g[i])
  BY <1>1, Appended
<1>3. n \in 1..n
  OBVIOUS
<1>4. PICK d \in Nat : Len(g) = n - 1 + d /\ \A i \in 1..(n - 1) : g[i] = s[i]
  BY <1>3 DEF Keeps
<1>5. l = n - 1 + d
  BY <1>1, <1>4
<1>6. d + 1 \in Nat /\ Len(f) = n - 1 + (d + 1)
  BY ONLY <1>2, <1>5, n \in Nat \ {0}, d \in Nat
<1>7. \A i \in 1..(n - 1) : f[i] = s[i]
  <2> TAKE i \in 1..(n - 1)
  <2>1. i \in 1..l
    BY ONLY <1>5, i \in 1..(n - 1), n \in Nat \ {0}, d \in Nat
  <2> QED
    BY <1>2, <1>4, <2>1
<1>8. \A i \in (n + 1)..n : f[i - 1 + (d + 1)] = s[i]
  OBVIOUS
<1> QED
  BY ONLY <1>3, <1>6, <1>7, <1>8 DEF Keeps

\* From here on packet n counts as damaged.
LEMMA KeepsHit ==
  ASSUME NEW g, NEW s, NEW n \in Nat \ {0}, Keeps(g, s, n - 1, 0) \/ Keeps(g, s, n, 0)
  PROVE  Keeps(g, s, n, n)
<1>1. n \in 1..n /\ 0 \notin 1..n /\ 0 \notin 1..(n - 1) /\ 0 \in Nat /\ 1 \in Nat
      /\ n - 1 = n - 1 + 0 /\ n = n - 1 + 1 /\ (n + 1)..n = {}
  OBVIOUS
<1>2. CASE Keeps(g, s, n - 1, 0)
  <2>1. Len(g) = n - 1 /\ \A i \in 1..(n - 1) : g[i] = s[i]
    BY <1>1, <1>2 DEF Keeps
  <2>2. Len(g) = n - 1 + 0
    BY ONLY <1>1, <2>1
  <2> QED
    BY ONLY <1>1, <2>1, <2>2 DEF Keeps
<1>3. CASE Keeps(g, s, n, 0)
  <2>1. Len(g) = n /\ \A i \in 1..n : g[i] = s[i]
    BY <1>1, <1>3 DEF Keeps
  <2>2. Len(g) = n - 1 + 1
    BY ONLY <1>1, <2>1
  <2>3. \A i \in 1..(n - 1) : g[i] = s[i]
    BY <2>1
  <2> QED
    BY ONLY <1>1, <2>2, <2>3 DEF Keeps
<1> QED
  BY <1>2, <1>3

\* One packet more is written.
LEMMA KeepsWritten ==
  ASSUME NEW g, NEW s, NEW n \in Nat, NEW h \in 0..n, Keeps(g, s, n, h), NEW t, \A i \in 1..n : t[i] = s[i]
  PROVE  Keeps(g, t, n, h)
<1>1. CASE h \notin 1..n
  BY <1>1 DEF Keeps
<1>2. CASE h \in 1..n
  <2>1. PICK d \in Nat : /\ Len(g) = n - 1 + d
                         /\ \A i \in 1..(h - 1) : g[i] = s[i]
                         /\ \A i \in (h + 1)..n : g[i - 1 + d] = s[i]
    BY <1>2 DEF Keeps
  <2>2. (\A i \in 1..(h - 1) : i \in 1..n) /\ (\A i \in (h + 1)..n : i \in 1..n)
    BY ONLY <1>2, n \in Nat
  <2>3. (\A i \in 1..(h - 1) : g[i] = t[i]) /\ (\A i \in (h + 1)..n : g[i - 1 + d] = t[i])
    BY <2>1, <2>2
  <2> QED
    BY ONLY <1>2, <2>1, <2>3 DEF Keeps
<1> QED
  BY <1>1, <1>2

-----------------------------------------------------------------------------
(* The reader within a frame that the line has not damaged.                *)

\* In a frame, with i bytes of the text collected.
Within(fmt, text, i, dles) ==
    [dles |-> dles, format |-> fmt, inPacket |-> TRUE, overflow |-> FALSE, body |-> SubSeq(text, 1, i)]

\* Nothing that a marker or a prefix byte could end.
Quiet == rx.inPacket => rx.dles = 0

\* Before place k of the frame of packet N.
Clean(p, fmt, text, n, pos, k, N) ==
    \/ k \in 0..p /\ Keeps(got, sent, N - 1, hit) /\ ((hit = N - 1 /\ hit > 0) \/ Quiet)
    \/ k = p + 1 /\ Keeps(got, sent, N - 1, hit) /\ rx.dles > 0
    \/ \E i \in 0..n : k = pos[i] /\ Keeps(got, sent, N - 1, hit) /\ rx = Within(fmt, text, i, 0)
    \/ \E i \in 1..n : /\ k = pos[i] - 1 /\ pos[i] = pos[i - 1] + 2
                       /\ Keeps(got, sent, N - 1, hit) /\ rx = Within(fmt, text, i - 1, 1)
    \/ k = pos[n] + 1 /\ Keeps(got, sent, N - 1, hit) /\ rx = Within(fmt, text, n, 1)
    \/ k >= pos[n] + 2 /\ Keeps(got, sent, N, hit) /\ ~rx.inPacket

Prefixed(text, i) ==
    /\ SubSeq(text, 1, i - 1) \in Seq(Byte) /\ i - 1 = Len(SubSeq(text, 1, i - 1))
    /\ Append(SubSeq(text, 1, i - 1), text[i]) = SubSeq(text, 1, i)

\* The prefixes of a text, one byte longer each.
LEMMA PrefixGrows ==
  ASSUME NEW text \in Seq(Byte), NEW n \in Nat, n = Len(text), NEW i \in 1..n
  PROVE  Prefixed(text, i)
<1>1. i - 1 \in 0..n /\ i \in Nat /\ i - 1 \in Nat
  BY ONLY i \in 1..n, n \in Nat
<1>2. \A j \in 1..n : text[j] \in Byte
  BY ElementOfSeq
<1> DEFINE s == SubSeq(text, 1, i - 1)
           t == SubSeq(text, 1, i)
<1>3. s = [j \in 1..(i - 1) |-> text[j]] /\ t = [j \in 1..i |-> text[j]]
  BY <1>1
<1>4. s \in Seq(Byte) /\ i - 1 = Len(s)
  <2>1. \A j \in 1..(i - 1) : j \in 1..n
    BY ONLY <1>1, n \in Nat
  <2>2. s \in [1..(i - 1) -> Byte]
    BY <1>2, <1>3, <2>1
  <2> HIDE DEF s
  <2> QED
    BY ONLY <1>1, <2>2
<1>5. Append(s, text[i]) = [j \in 1..((i - 1) + 1) |-> IF j = (i - 1) + 1 THEN text[i] ELSE s[j]]
  <2> HIDE DEF s
  <2> QED
    BY <1>4
<1>6. (i - 1) + 1 = i /\ \A j \in 1..i : j # i => j \in 1..(i - 1)
  BY <1>1
<1>7. \A j \in 1..i : (IF j = i THEN text[i] ELSE s[j]) = text[j]
  <2> TAKE j \in 1..i
  <2>1. CASE j = i
    BY <2>1
  <2>2. CASE j # i
    <3>1. j \in 1..(i - 1)
      BY <1>6, <2>2
    <3>2. s[j] = text[j]
      BY ONLY <1>3, <3>1
    <3> QED
      BY ONLY <2>2, <3>2
  <2> QED
    BY <2>1, <2>2
<1>9. s = SubSeq(text, 1, i - 1) /\ t = SubSeq(text, 1, i)
  OBVIOUS
<1> HIDE DEF s, t
<1>8. Append(s, text[i]) = t
  BY ONLY <1>3, <1>5, <1>6, <1>7
<1> QED
  BY ONLY <1>4, <1>8, <1>9 DEF Prefixed

\* One byte more of the text.
LEMMA WithinMore ==
  ASSUME NEW fmt \in fmtBIN..fmtUUE, NEW text \in Seq(Byte), NEW n \in Nat, n = Len(text), n <= maxEncodedLen,
         NEW i \in 1..n
  PROVE  /\ collect(Within(fmt, text, i - 1, 0), text[i]) = Within(fmt, text, i, 0)
         /\ afterEscape(collect(Within(fmt, text, i - 1, 1), text[i])) = Within(fmt, text, i, 0)
<1> DEFINE s == SubSeq(text, 1, i - 1)
           t == SubSeq(text, 1, i)
<1>1. s \in Seq(Byte) /\ t \in Seq(Byte) /\ i - 1 = Len(s) /\ Append(s, text[i]) = t
  <2>1. Prefixed(text, i)
    BY ONLY text \in Seq(Byte), n \in Nat, n = Len(text), i \in 1..n, PrefixGrows
  <2>2. text[i] \in Byte
    BY ElementOfSeq
  <2>3. s \in Seq(Byte) /\ i - 1 = Len(s) /\ Append(s, text[i]) = t
    BY ONLY <2>1 DEF Prefixed
  <2> QED
    BY <2>2, <2>3
<1> HIDE DEF s, t
<1>2. ~(Len(s) >= maxEncodedLen)
  <2>1. maxEncodedLen \in Nat
    BY LinkAssumption DEF LinkAssumption
  <2>2. ~(i - 1 >= maxEncodedLen)
    BY ONLY <2>1, n \in Nat, n <= maxEncodedLen, i \in 1..n
  <2> QED
    BY ONLY <1>1, <2>2
<1>3. \A d \in {0, 1} :
        collect([dles |-> d, format |-> fmt, inPacket |-> TRUE, overflow |-> FALSE, body |-> s], text[i])
          = [dles |-> d, format |-> fmt, inPacket |-> TRUE, overflow |-> FALSE, body |-> t]
  BY ONLY <1>1, <1>2 DEF collect
<1>4. afterEscape([dles |-> 1, format |-> fmt, inPacket |-> TRUE, overflow |-> FALSE, body |-> t])
        = [dles |-> 0, format |-> fmt, inPacket |-> TRUE, overflow |-> FALSE, body |-> t]
  <2> DEFINE r == [dles |-> 1, format |-> fmt, inPacket |-> TRUE, overflow |-> FALSE, body |-> t]
  <2>1. r \in Rx
    <3>1. t \in Seq(Byte)
      BY <1>1
    <3> QED
      BY ONLY <3>1, fmt \in fmtBIN..fmtUUE DEF Rx
  <2>2. afterEscape(r) = [dles |-> 0, format |-> r.format, inPacket |-> r.inPacket, overflow |-> r.overflow,
                          body |-> r.body]
    <3> HIDE DEF r
    <3> QED
      BY ONLY <2>1 DEF Rx, afterEscape
  <2> QED
    BY ONLY <2>2
<1> QED
  BY <1>3, <1>4 DEF Within, s, t

\* What finishPacket makes of the whole text.
LEMMA Finishes ==
  ASSUME NEW fmt \in fmtBIN..fmtUUE, NEW text \in Seq(Byte), NEW n \in Nat, n = Len(text), NEW d,
         rx = Within(fmt, text, n, d), NEW m, Means(rxOpts, fmt, text, m)
  PROVE  finished = {m}
<1>1. SubSeq(text, 1, n) = text
  OBVIOUS
<1>2. rx.format = fmt /\ rx.body = text /\ rx.inPacket /\ ~rx.overflow
  BY <1>1 DEF Within
<1>3. PICK b : b = decode(fmt, text)
  OBVIOUS
<1>4. PICK e : e = Len(b) - (IF fmt # fmtHEX /\ "C32" \in rxOpts THEN 4 ELSE 2)
  OBVIOUS
<1>5. /\ b # bad /\ Len(b) <= maxDecodedLen /\ e >= 1
      /\ IF fmt # fmtHEX /\ "C32" \in rxOpts THEN crc32Compute(b) = crc32Test ELSE crc16Compute(b) = crc16Test
      /\ b[e] - 64 \in DOMAIN types
      /\ parse(types[b[e] - 64], SubSeq(b, 1, e - 1)) = {m}
  BY <1>3, <1>4 DEF Means
<1>6. crcGood(fmt, b)
  BY ONLY <1>5 DEF crcGood, use32
<1>7. e = Len(b) - (IF use32(fmt) THEN 4 ELSE 2)
  BY ONLY <1>4 DEF use32
<1>8. finished = IF /\ rx.inPacket /\ ~rx.overflow /\ b # bad
                    /\ Len(b) <= maxDecodedLen /\ e >= 1
                    /\ crcGood(fmt, b) /\ b[e] - 64 \in DOMAIN types
                 THEN parse(types[b[e] - 64], SubSeq(b, 1, e - 1))
                 ELSE {}
  BY ONLY <1>2, <1>3, <1>7 DEF finished
<1> QED
  BY ONLY <1>2, <1>5, <1>6, <1>8

\* A DLE in a frame.
LEMMA WithinEscape ==
  ASSUME NEW fmt \in fmtBIN..fmtUUE, NEW body \in Seq(Byte),
         rx = [dles |-> 0, format |-> fmt, inPacket |-> TRUE, overflow |-> FALSE, body |-> body],
         rx' = [rx EXCEPT !.dles = @ + 1]
  PROVE  rx' = [dles |-> 1, format |-> fmt, inPacket |-> TRUE, overflow |-> FALSE, body |-> body]
<1>1. rx \in Rx
  BY DEF Rx
<1>2. \A a \in Rx : [a EXCEPT !.dles = @ + 1] = [dles |-> a.dles + 1, format |-> a.format, inPacket |-> a.inPacket,
                                                overflow |-> a.overflow, body |-> a.body]
  BY DEF Rx
<1>3. rx' = [dles |-> rx.dles + 1, format |-> rx.format, inPacket |-> rx.inPacket,
             overflow |-> rx.overflow, body |-> rx.body]
  BY ONLY <1>1, <1>2, rx' = [rx EXCEPT !.dles = @ + 1]
<1>4. /\ rx.dles = 0 /\ rx.format = fmt /\ rx.inPacket = TRUE /\ rx.overflow = FALSE /\ rx.body = body
  BY ONLY rx = [dles |-> 0, format |-> fmt, inPacket |-> TRUE, overflow |-> FALSE, body |-> body]
<1>5. rx.dles + 1 = 1
  BY ONLY <1>4
<1> QED
  BY ONLY <1>3, <1>4, <1>5

\* Read byte by byte, the frame of packet N yields the packet.
LEMMA CleanStep ==
  ASSUME NEW F, NEW p, NEW fmt, NEW text, NEW n, NEW pos, FrameOf(rxOpts, F, p, fmt, text, n, pos),
         NEW N \in Nat \ {0}, Means(rxOpts, fmt, text, sent[N]), hit \in Nat, hit # N,
         NEW k \in Nat, k < Len(F), rx \in Rx, heard' = FALSE, IsSeq(got),
         Clean(p, fmt, text, n, pos, k, N),
         NEW byte \in {F[k + 1]} \cup (IF "HI8" \in rxOpts THEN {strip(F[k + 1]) + 128} ELSE {}),
         ReadByte(byte), sent' = sent, hit' = hit
  PROVE  Clean(p, fmt, text, n, pos, k + 1, N)'
<1> DEFINE c == seen(byte)
           b == F[k + 1]
           d == rx.dles
<1>1. /\ F \in Seq(Byte) /\ p \in Nat /\ n \in Nat /\ text \in Seq(Byte) /\ n = Len(text) /\ n <= maxEncodedLen
      /\ \A i \in 1..p : strip(F[i]) # DLE
      /\ F[p + 1] = DLE /\ F[p + 2] = fmt /\ fmt \in fmtBIN..fmtUUE
      /\ pos \in [0..n -> Nat] /\ pos[0] = p + 2
      /\ \A i \in 0..n : pos[i] <= pos[n]
      /\ \A i \in 1..n : Raw(rxOpts, F, text, pos, i) \/ Escaped(rxOpts, F, text, pos, i)
      /\ F[pos[n] + 1] = DLE /\ F[pos[n] + 2] = fmtEnd
      /\ \A j \in (pos[n] + 3)..Len(F) : F[j] \in {charCR, charLF}
  BY DEF FrameOf, Spelled
<1>2. b \in Byte
  <2>1. PICK l \in Nat : l = Len(F)
    BY <1>1, LenProperties
  <2>2. k + 1 \in 1..l
    BY <2>1
  <2> QED
    BY <1>1, <2>1, <2>2, ElementOfSeq
<1>3. /\ c \in Byte /\ (("HI8" \in rxOpts => b < 128) => c = b) /\ (strip(b) # DLE => c # DLE)
  BY <1>2, Seen
<1>4. d \in Nat
  BY DEF Rx
<1> HIDE DEF c, b
<1>5. ASSUME b = DLE
      PROVE  got' = got /\ rx' = [rx EXCEPT !.dles = @ + 1]
  <2>1. DLE < 128
    BY DEF DLE
  <2>2. c = DLE
    BY <1>3, <1>5, <2>1
  <2>3. d + 1 < 5
    <3>1. ~(d + 1 >= 5)
      BY <2>2, DleRead DEF c
    <3> QED
      BY ONLY <1>4, <3>1
  <2> QED
    BY <2>2, <2>3, DleRead DEF c
<1>6. c # DLE => NoDleEffect(c)
  BY <1>3, NoDleRead DEF c
<1> DEFINE Goal == Clean(p, fmt, text, n, pos, k + 1, N)'
           Before == Keeps(got, sent, N - 1, hit)
<1>7. got' = got /\ Before => Keeps(got', sent', N - 1, hit')
  OBVIOUS
<1>8. CASE k \in 0..p /\ Before /\ ((hit = N - 1 /\ hit > 0) \/ Quiet)
  <2>1. CASE k = p
    <3>1. b = DLE
      BY <1>1, <2>1 DEF b
    <3>2. got' = got /\ rx' = [rx EXCEPT !.dles = @ + 1]
      BY <1>5, <3>1
    <3>3. rx'.dles = d + 1
      BY <3>2 DEF Rx
    <3>4. k + 1 = p + 1 /\ rx'.dles > 0
      BY ONLY <1>4, <2>1, <3>3
    <3> QED
      BY ONLY <1>7, <1>8, <3>2, <3>4 DEF Clean
  <2>2. CASE k # p
    <3>1. k + 1 \in 1..p /\ k + 1 \in 0..p
      BY ONLY <1>1, <1>8, <2>2, k \in Nat
    <3>2. c # DLE
      BY <1>1, <1>3, <3>1 DEF b
    <3>3. /\ got' = got \/ \E m : got' = Append(got, m)
          /\ Quiet => got' = got /\ Quiet'
      BY <1>6, <3>2 DEF NoDleEffect, Quiet
    <3>4. CASE Quiet
      BY ONLY <1>7, <1>8, <3>1, <3>3, <3>4 DEF Clean
    <3>5. CASE hit = N - 1 /\ hit > 0
      <4>1. N - 1 \in Nat \ {0} /\ Keeps(got, sent, N - 1, N - 1)
        BY <1>8, <3>5
      <4>2. Keeps(got', sent, N - 1, N - 1)
        <5>1. CASE got' = got
          BY <4>1, <5>1
        <5>2. ASSUME NEW m, got' = Append(got, m)
              PROVE  Keeps(got', sent, N - 1, N - 1)
          BY <4>1, <5>2, KeepsAny
        <5> QED
          BY <3>3, <5>1, <5>2
      <4>3. Keeps(got', sent', N - 1, hit') /\ hit' = N - 1 /\ hit' > 0
        BY ONLY <3>5, <4>2, sent' = sent, hit' = hit
      <4> QED
        BY ONLY <3>1, <4>3 DEF Clean
    <3> QED
      BY <1>8, <3>4, <3>5
  <2> QED
    BY <2>1, <2>2
<1>9. CASE k = p + 1 /\ Before /\ d > 0
  <2>1. b = fmt
    <3>1. k + 1 = p + 2
      BY ONLY <1>1, <1>9
    <3> QED
      BY <1>1, <3>1 DEF b
  <2>2. fmt < 128
    BY ONLY <1>1 DEF fmtBIN, fmtUUE
  <2>3. c = fmt
    BY <1>3, <2>1, <2>2
  <2>4. rx' = fresh(fmt) /\ got' = got
    BY <1>1, <1>9, <2>3, MarkRead DEF c
  <2>5. SubSeq(text, 1, 0) = <<>>
    BY <1>1
  <2>6. rx' = Within(fmt, text, 0, 0)
    BY ONLY <2>4, <2>5 DEF Within, fresh
  <2>7. 0 \in 0..n /\ k + 1 = pos[0]
    BY ONLY <1>1, <1>9
  <2> QED
    BY ONLY <1>7, <1>9, <2>4, <2>6, <2>7 DEF Clean
<1>10. ASSUME NEW i \in 0..n, k = pos[i], Before, rx = Within(fmt, text, i, 0)
       PROVE  Goal
  <2>0. d = 0
    BY <1>10 DEF Within
  <2>1. CASE i = n
    <3>1. b = DLE
      BY <1>1, <1>10, <2>1 DEF b
    <3>2. got' = got /\ rx' = [rx EXCEPT !.dles = @ + 1]
      BY <1>5, <3>1
    <3>3. rx' = Within(fmt, text, n, 1)
      <4>1. SubSeq(text, 1, n) \in Seq(Byte) /\ fmt \in fmtBIN..fmtUUE
        BY <1>1
      <4> QED
        BY ONLY <1>10, <2>1, <3>2, <4>1, WithinEscape DEF Within
    <3>4. k + 1 = pos[n] + 1
      BY ONLY <1>10, <2>1
    <3> QED
      BY ONLY <1>7, <1>10, <3>2, <3>3, <3>4 DEF Clean
  <2>2. CASE i # n
    <3>1. PICK m \in 1..n : m = i + 1 /\ i = m - 1 /\ m \in 0..n
      <4>1. i + 1 \in 1..n /\ i = (i + 1) - 1 /\ i + 1 \in 0..n
        BY ONLY <1>1, <2>2, i \in 0..n
      <4> QED
        BY ONLY <4>1
    <3>2. CASE Raw(rxOpts, F, text, pos, m)
      <4>1. pos[m] = k + 1 /\ b = text[m] /\ Clear(rxOpts, text[m])
        BY <1>10, <3>1, <3>2 DEF Raw, b
      <4>2. c = text[m] /\ c # DLE /\ ~Eats(rxOpts, c)
        BY <1>3, <4>1 DEF Clear
      <4>3. ~(rx.dles > 0)
        BY ONLY <2>0
      <4>4. rx' = collect(rx, c) /\ got' = got
        BY <4>2, <4>3, RawRead DEF c
      <4>5. collect(Within(fmt, text, m - 1, 0), text[m]) = Within(fmt, text, m, 0)
        BY <1>1, WithinMore
      <4>6. rx' = Within(fmt, text, m, 0)
        BY ONLY <1>10, <3>1, <4>2, <4>4, <4>5
      <4> QED
        BY ONLY <1>7, <1>10, <3>1, <4>1, <4>4, <4>6 DEF Clean
    <3>3. CASE Escaped(rxOpts, F, text, pos, m)
      <4>1. pos[m] = k + 2 /\ F[pos[m] - 1] = DLE /\ pos[m] = pos[m - 1] + 2
        BY <1>10, <3>1, <3>3 DEF Escaped
      <4>2. k + 1 = pos[m] - 1
        BY ONLY <4>1, k \in Nat
      <4>3. b = DLE
        BY ONLY <4>1, <4>2 DEF b
      <4>4. got' = got /\ rx' = [rx EXCEPT !.dles = @ + 1]
        BY <1>5, <4>3
      <4>5. rx' = Within(fmt, text, m - 1, 1)
        <5>1. SubSeq(text, 1, m - 1) \in Seq(Byte) /\ fmt \in fmtBIN..fmtUUE
          <6>1. m \in 1..n
            BY <3>1
          <6>2. Prefixed(text, m)
            BY <1>1, <6>1, PrefixGrows
          <6> QED
            BY <1>1, <6>2 DEF Prefixed
        <5> QED
          BY ONLY <1>10, <3>1, <4>4, <5>1, WithinEscape DEF Within
      <4> QED
        BY ONLY <1>7, <1>10, <3>1, <4>1, <4>2, <4>4, <4>5 DEF Clean
    <3> QED
      BY <1>1, <3>1, <3>2, <3>3
  <2> QED
    BY <2>1, <2>2
<1>11. ASSUME NEW i \in 1..n, k = pos[i] - 1, pos[i] = pos[i - 1] + 2, Before, rx = Within(fmt, text, i - 1, 1)
       PROVE  Goal
  <2>1. i \in 0..n /\ i - 1 \in 0..n
    BY ONLY <1>1, i \in 1..n
  <2>2. pos[i] \in Nat /\ pos[i - 1] \in Nat
    BY <1>1, <2>1
  <2>3. Escaped(rxOpts, F, text, pos, i)
    <3>1. ~(pos[i] = pos[i - 1] + 1)
      BY ONLY <1>11, <2>2
    <3> QED
      BY <1>1, <3>1 DEF Raw
  <2>4. k + 1 = pos[i]
    BY ONLY <1>11, <2>2
  <2>5. b = flip(text[i]) /\ Veiled(rxOpts, text[i])
    BY <2>3, <2>4 DEF Escaped, b
  <2>6. flip(text[i]) # DLE /\ flip(text[i]) \notin 97..101 /\ ~Eats(rxOpts, flip(text[i]))
        /\ ("HI8" \in rxOpts => flip(text[i]) < 128) /\ flip(flip(text[i])) = text[i]
    BY <2>5, FlipReads
  <2>7. c = flip(text[i]) /\ c # DLE /\ c \notin fmtEnd..fmtUUE /\ ~Eats(rxOpts, c) /\ flip(c) = text[i]
    <3>1. fmtEnd..fmtUUE = 97..101
      BY DEF fmtEnd, fmtUUE
    <3> QED
      BY <1>3, <2>5, <2>6, <3>1
  <2>8. rx.dles > 0
    <3>1. rx.dles = 1
      BY <1>11 DEF Within
    <3> QED
      BY ONLY <3>1
  <2>9. rx' = afterEscape(collect(rx, flip(c))) /\ got' = got
    BY <2>7, <2>8, EscapedRead DEF c
  <2>10. afterEscape(collect(Within(fmt, text, i - 1, 1), text[i])) = Within(fmt, text, i, 0)
    BY <1>1, WithinMore
  <2>11. rx' = Within(fmt, text, i, 0)
    BY ONLY <1>11, <2>7, <2>9, <2>10
  <2> QED
    BY ONLY <1>7, <1>11, <2>1, <2>4, <2>9, <2>11 DEF Clean
<1>12. CASE k = pos[n] + 1 /\ Before /\ rx = Within(fmt, text, n, 1)
  <2>0. PICK q \in Nat : q = pos[n]
    BY SMTT(30), <1>1
  <2>1. b = fmtEnd
    <3>1. k + 1 = q + 2
      BY ONLY <1>12, <2>0
    <3> QED
      BY <1>1, <2>0, <3>1 DEF b
  <2>2. c = fmtEnd
    <3>1. fmtEnd < 128
      BY DEF fmtEnd
    <3> QED
      BY <1>3, <2>1, <3>1
  <2>3. rx.dles > 0
    <3>1. rx.dles = 1
      BY <1>12 DEF Within
    <3> QED
      BY ONLY <3>1
  <2>4. /\ rx' = [rx EXCEPT !.inPacket = FALSE, !.overflow = FALSE, !.body = <<>>]
        /\ \/ finished = {} /\ got' = got
           \/ \E m \in finished : got' = Append(got, m)
    BY <2>2, <2>3, EndRead DEF c
  <2>5. finished = {sent[N]}
    BY SMTT(30), <1>1, <1>12, Finishes
  <2>6. got' = Append(got, sent[N])
    BY ONLY <2>4, <2>5
  <2>7. Keeps(got', sent, N, hit)
    BY <1>12, <2>6, KeepsOne
  <2>8. ~rx'.inPacket
    BY <2>4 DEF Rx
  <2>9. k + 1 >= pos[n] + 2
    BY ONLY <1>12, <2>0
  <2> QED
    BY ONLY <2>7, <2>8, <2>9, sent' = sent, hit' = hit DEF Clean
<1>13. CASE k >= pos[n] + 2 /\ Keeps(got, sent, N, hit) /\ ~rx.inPacket
  <2>0. PICK q \in Nat : q = pos[n]
    BY SMTT(30), <1>1
  <2>1. PICK l \in Nat : l = Len(F)
    BY <1>1, LenProperties
  <2>2. k + 1 \in (q + 3)..l
    BY <1>13, <2>0, <2>1
  <2>3. b \in {charCR, charLF}
    BY <1>1, <2>0, <2>1, <2>2 DEF b
  <2>4. b < 128 /\ b # DLE
    BY ONLY <2>3 DEF charCR, charLF, DLE
  <2>5. c = b
    BY <1>3, <2>4
  <2>6. ~rx'.inPacket /\ got' = got
    BY <1>6, <1>13, <2>3, <2>4, <2>5 DEF NoDleEffect
  <2>7. k + 1 >= pos[n] + 2
    BY ONLY <1>13, <2>0, k \in Nat
  <2> QED
    BY ONLY <1>13, <2>6, <2>7, sent' = sent, hit' = hit DEF Clean
<1> QED
  <2>1. Clean(p, fmt, text, n, pos, k, N)
    OBVIOUS
  <2>2. Goal
    BY ONLY <1>8, <1>9, <1>10, <1>11, <1>12, <1>13, <2>1 DEF Clean
  <2> QED
    BY ONLY <2>2

-----------------------------------------------------------------------------
(* The line.                                                               *)

\* The line holds what follows place k of F.
RestOf(l, F, k) ==
    /\ l \in Seq(Byte) /\ Len(l) = Len(F) - k
    /\ \A j \in 1..Len(l) : l[j] = F[k + j]

\* Before anything is read the rest is the frame.
LEMMA RestWhole ==
  ASSUME NEW F \in Seq(Byte)
  PROVE  RestOf(F, F, 0)
<1>1. PICK l \in Nat : l = Len(F)
  BY LenProperties
<1>2. l = l - 0 /\ \A j \in 1..l : 0 + j = j
  BY ONLY l \in Nat
<1> QED
  BY ONLY <1>1, <1>2, F \in Seq(Byte) DEF RestOf

\* Nothing is left at the end of the frame.
LEMMA RestEmpty ==
  ASSUME NEW l, NEW F \in Seq(Byte), NEW k \in Nat, RestOf(l, F, k)
  PROVE  l = <<>> <=> k = Len(F)
<1>1. PICK m \in Nat : m = Len(F)
  BY LenProperties
<1>2. l \in Seq(Byte) /\ Len(l) = m - k
  BY <1>1 DEF RestOf
<1>3. l = <<>> <=> Len(l) = 0
  BY <1>2, EmptySeq
<1>4. m - k = 0 <=> k = m
  BY ONLY m \in Nat, k \in Nat
<1> QED
  BY ONLY <1>1, <1>2, <1>3, <1>4

\* A byte is read.
LEMMA RestTail ==
  ASSUME NEW l, NEW F \in Seq(Byte), NEW k \in Nat, RestOf(l, F, k), k < Len(F)
  PROVE  l # <<>> /\ Head(l) = F[k + 1] /\ RestOf(Tail(l), F, k + 1)
<1>1. PICK m \in Nat : m = Len(F)
  BY LenProperties
<1>2. l \in Seq(Byte) /\ Len(l) = m - k /\ \A j \in 1..Len(l) : l[j] = F[k + j]
  BY <1>1 DEF RestOf
<1>3. PICK q \in Nat : q = Len(l)
  BY <1>2, LenProperties
<1>4. q = m - k /\ 1 \in 1..q /\ q # 0
  BY <1>1, <1>2, <1>3
<1>5. l # <<>>
  BY <1>3, <1>4
<1>6. Head(l) = l[1] /\ Tail(l) \in Seq(Byte) /\ Len(Tail(l)) = q - 1 /\ \A j \in 1..(q - 1) : Tail(l)[j] = l[j + 1]
  BY <1>2, <1>3, <1>5, HeadTailProperties
<1>7. q - 1 = m - (k + 1) /\ \A j \in 1..(q - 1) : j + 1 \in 1..q /\ k + (j + 1) = (k + 1) + j
  BY ONLY <1>4, m \in Nat, k \in Nat, q \in Nat
<1>8. \A j \in 1..(q - 1) : Tail(l)[j] = F[(k + 1) + j]
  BY ONLY <1>2, <1>3, <1>6, <1>7
<1>9. l[1] = F[k + 1]
  BY ONLY <1>2, <1>3, <1>4
<1> QED
  BY ONLY <1>1, <1>5, <1>6, <1>7, <1>8, <1>9 DEF RestOf

\* A byte put before a sequence.
LEMMA Led ==
  ASSUME NEW c \in Byte, NEW t \in Seq(Byte), NEW l, l = <<c>> \o t
  PROVE  l # <<>> /\ Head(l) = c /\ Tail(l) = t
<1>1. PICK m \in Nat : m = Len(t)
  BY LenProperties
<1>2. <<c>> \in Seq(Byte) /\ Len(<<c>>) = 1 /\ <<c>>[1] = c
  OBVIOUS
<1>3. Joined(l, Byte, <<c>>, 1, t, m)
  BY <1>1, <1>2, Concatenated
<1>4. l \in Seq(Byte) /\ 1 + m = Len(l) /\ l[1] = c /\ \A j \in 1..m : l[1 + j] = t[j]
  BY <1>2, <1>3 DEF Joined
<1>5. l # <<>>
  BY <1>4
<1>6. Head(l) = l[1] /\ Tail(l) \in Seq(Byte) /\ Len(Tail(l)) = Len(l) - 1
      /\ \A j \in 1..(Len(l) - 1) : Tail(l)[j] = l[j + 1]
  BY <1>4, <1>5, HeadTailProperties
<1>7. (1 + m) - 1 = m /\ \A j \in 1..m : j + 1 = 1 + j
  OBVIOUS
<1>8. Len(Tail(l)) = m /\ \A j \in 1..m : Tail(l)[j] = t[j]
  BY ONLY <1>4, <1>6, <1>7
<1>9. Tail(l) = t
  BY <1>1, <1>6, <1>8, SeqEqual
<1> QED
  BY ONLY <1>4, <1>5, <1>6, <1>9

-----------------------------------------------------------------------------
(* Noise.                                                                  *)

\* Whatever the link inserts the filter eats.
LEMMA NoiseEaten ==
  ASSUME NEW byte \in noise
  PROVE  Eats(rxOpts, seen(byte))
<1> QED
  BY DEF noise, Eats, seen, masked, strip, control, charXON, charXOF, charCR, DLE

-----------------------------------------------------------------------------
(* What the reader is at between two frames, and in one.                   *)

\* Nothing has been damaged: a damaged byte may yet add to the DLEs counted.
Slack == IF hit = 0 THEN 2 ELSE 0

\* The frame on the line is a frame of packet N for this reader, and stays
\* one if the reader's options can still change.
Sound(F, p, fmt, text, n, pos, N) ==
    /\ \A o : fmt = fmtHEX \/ o = rxOpts =>
          FrameOf(o, F, p, fmt, text, n, pos) /\ Means(o, fmt, text, sent[N])
    /\ fmt = fmtHEX \/ "reader" \in agreed

\* Between two frames, when N packets are written.
Calm(N) ==
    /\ rx.dles + Slack <= 3 /\ Keeps(got, sent, N, hit)
    /\ (hit = N /\ hit > 0) \/ Quiet

\* Before place k of the frame of packet N.
Midway(p, fmt, text, n, pos, k, N) ==
    /\ Bound(p, text, n, pos, k, rx.dles, Slack)
    /\ hit = N => Keeps(got, sent, N, N)
    /\ hit # N => Clean(p, fmt, text, n, pos, k, N)

\* At most four DLEs in a row are counted in a frame, damaged or not.
LEMMA BoundFour ==
  ASSUME NEW p, NEW text, NEW n, NEW pos, NEW k, NEW d \in Nat, Bound(p, text, n, pos, k, d, 0)
  PROVE  d <= 4
<1>1. (d + 0 <= 2 => d <= 4) /\ (d + 0 <= 3 => d <= 4) /\ (d + 0 <= 4 => d <= 4) /\ (d <= 3 => d <= 4)
  OBVIOUS
<1> QED
  BY <1>1 DEF Bound

\* The end of the frame.
LEMMA MidwayEnds ==
  ASSUME NEW o, NEW F, NEW p, NEW fmt, NEW text, NEW n, NEW pos, FrameOf(o, F, p, fmt, text, n, pos),
         NEW k \in Nat, k = Len(F), NEW N \in Nat \ {0}, hit' \in Nat, Midway(p, fmt, text, n, pos, k, N)'
  PROVE  Calm(N)'
<1>1. /\ p \in Nat /\ n \in Nat /\ pos \in [0..n -> Nat] /\ pos[0] = p + 2
      /\ \A i \in 0..n : pos[i] <= pos[n]
      /\ pos[n] + 2 <= k
  BY DEF FrameOf, Spelled
<1>2. PICK q \in Nat : q = pos[n]
  BY <1>1
<1>3. q + 2 <= k /\ p + 2 <= q /\ \A i \in 0..n : pos[i] \in Nat /\ pos[i] <= q
  <2>1. 0 \in 0..n
    BY <1>1
  <2> QED
    BY <1>1, <1>2, <2>1
<1>4. /\ k \notin 0..p /\ k # p + 1 /\ k # q + 1
      /\ \A i \in 0..n : k # pos[i] /\ k # pos[i] - 1
  BY ONLY <1>1, <1>3, k \in Nat, q \in Nat
<1>5. 1..n \subseteq 0..n
  BY <1>1
<1>6. rx'.dles + Slack' <= 3
  BY ONLY Midway(p, fmt, text, n, pos, k, N)', <1>4, <1>5 DEF Midway, Bound
<1>7. CASE hit' = N
  <2>1. hit' > 0
    BY <1>7
  <2> QED
    BY ONLY <1>6, <1>7, <2>1, Midway(p, fmt, text, n, pos, k, N)' DEF Midway, Calm
<1>8. CASE hit' # N
  <2>1. Keeps(got', sent', N, hit') /\ ~rx'.inPacket
    BY ONLY <1>2, <1>4, <1>5, <1>8, Midway(p, fmt, text, n, pos, k, N)' DEF Midway, Clean
  <2> QED
    BY ONLY <1>6, <2>1 DEF Calm, Quiet
<1> QED
  BY <1>7, <1>8

\* A frame is more than nothing, and its first byte is still to be read.
LEMMA MidwayStarts ==
  ASSUME NEW o, NEW F, NEW p, NEW fmt, NEW text, NEW n, NEW pos, FrameOf(o, F, p, fmt, text, n, pos),
         NEW N \in Nat \ {0}, hit' \in 0..(N - 1), rx'.dles + Slack' <= 3,
         Keeps(got', sent', N - 1, hit'), (hit' = N - 1 /\ hit' > 0) \/ Quiet'
  PROVE  0 < Len(F) /\ Midway(p, fmt, text, n, pos, 0, N)'
<1>1. p \in Nat /\ n \in Nat /\ pos \in [0..n -> Nat] /\ pos[n] + 2 <= Len(F) /\ F \in Seq(Byte)
  BY DEF FrameOf, Spelled
<1>2. 0 < Len(F)
  <2>1. PICK l \in Nat : l = Len(F)
    BY <1>1, LenProperties
  <2>2. n \in 0..n
    BY <1>1
  <2>3. pos[n] \in Nat
    BY <1>1, <2>2
  <2> QED
    BY ONLY <1>1, <2>1, <2>3
<1>3. 0 \in 0..p
  BY <1>1
<1>4. hit' # N
  BY ONLY hit' \in 0..(N - 1), N \in Nat \ {0}
<1> QED
  BY ONLY <1>2, <1>3, <1>4, rx'.dles + Slack' <= 3, Keeps(got', sent', N - 1, hit'), (hit' = N - 1 /\ hit' > 0) \/ Quiet'
     DEF Midway, Bound, Clean

\* A byte adds at most one packet.
LEMMA OnePacket ==
  ASSUME NEW byte, ReadByte(byte), seen(byte) \in Byte, rx \in Rx, IsSeq(got)
  PROVE  IsSeq(got') /\ (got' = got \/ \E m : got' = Append(got, m))
<1>1. got' = got \/ \E m : got' = Append(got, m)
  <2>1. CASE seen(byte) = DLE
    BY <2>1, DleRead
  <2>2. CASE seen(byte) # DLE
    BY <2>2, NoDleRead DEF NoDleEffect
  <2> QED
    BY <2>1, <2>2
<1>2. ASSUME NEW m, got' = Append(got, m)
      PROVE  IsSeq(got')
  <2>1. PICK l \in Nat : l = Len(got)
    BY LenProperties DEF IsSeq
  <2> QED
    BY <1>2, <2>1, Appended
<1> QED
  BY <1>1, <1>2

\* Reading a byte of the frame as it was written.
LEMMA MidwayStep ==
  ASSUME NEW F, NEW p, NEW fmt, NEW text, NEW n, NEW pos, NEW N \in Nat \ {0},
         Sound(F, p, fmt, text, n, pos, N), hit \in Nat,
         NEW k \in Nat, k < Len(F), rx \in Rx, ~heard, IsSeq(got),
         Midway(p, fmt, text, n, pos, k, N),
         NEW byte \in {F[k + 1]} \cup (IF "HI8" \in rxOpts THEN {strip(F[k + 1]) + 128} ELSE {}),
         ReadByte(byte), sent' = sent, hit' = hit
  PROVE  rx' \in Rx /\ heard' = FALSE /\ IsSeq(got') /\ Midway(p, fmt, text, n, pos, k + 1, N)'
<1>1. FrameOf(rxOpts, F, p, fmt, text, n, pos) /\ Means(rxOpts, fmt, text, sent[N])
  BY DEF Sound
<1>2. Slack \in {0, 2} /\ Slack' = Slack
  BY DEF Slack
<1>3. PICK s \in {0, 2} : s = Slack
  BY <1>2
<1>4. Bound(p, text, n, pos, k, rx.dles, s)
  BY <1>3 DEF Midway
<1>5. rx' \in Rx /\ heard' = FALSE /\ Bound(p, text, n, pos, k + 1, rx'.dles, s)
  <2>1. CASE s = 0
    <3>1. Bound(p, text, n, pos, k, rx.dles, 0)
      BY <1>4, <2>1
    <3>2. rx' \in Rx /\ heard' = FALSE /\ Bound(p, text, n, pos, k + 1, rx'.dles, 0)
      BY ZenonT(30), <1>1, <3>1, BoundStep
    <3> QED
      BY ONLY <2>1, <3>2
  <2>2. CASE s = 2
    <3>1. Bound(p, text, n, pos, k, rx.dles, 2)
      BY <1>4, <2>2
    <3>2. rx' \in Rx /\ heard' = FALSE /\ Bound(p, text, n, pos, k + 1, rx'.dles, 2)
      BY ZenonT(30), <1>1, <3>1, BoundStep
    <3> QED
      BY ONLY <2>2, <3>2
  <2> QED
    BY <2>1, <2>2
<1>6. seen(byte) \in Byte
  <2>1. F \in Seq(Byte)
    BY <1>1 DEF FrameOf
  <2>2. PICK l \in Nat : l = Len(F)
    BY <2>1, LenProperties
  <2>3. k + 1 \in 1..l
    BY <2>2
  <2>4. F[k + 1] \in Byte
    BY <2>1, <2>2, <2>3, ElementOfSeq
  <2> QED
    BY <2>4, Seen
<1>7. IsSeq(got') /\ (got' = got \/ \E m : got' = Append(got, m))
  BY <1>6, OnePacket
<1>8. CASE hit = N
  <2>1. Keeps(got, sent, N, N)
    BY <1>8 DEF Midway
  <2>2. Keeps(got', sent, N, N)
    <3>1. CASE got' = got
      BY <2>1, <3>1
    <3>2. ASSUME NEW m, got' = Append(got, m)
          PROVE  Keeps(got', sent, N, N)
      BY <2>1, <3>2, KeepsAny
    <3> QED
      BY <1>7, <3>1, <3>2
  <2> QED
    BY ONLY <1>2, <1>3, <1>5, <1>7, <1>8, <2>2, sent' = sent, hit' = hit DEF Midway
<1>9. CASE hit # N
  <2>1. Clean(p, fmt, text, n, pos, k, N)
    BY <1>9 DEF Midway
  <2>2. Clean(p, fmt, text, n, pos, k + 1, N)'
    BY ZenonT(30), <1>1, <1>5, <1>9, <2>1, CleanStep
  <2> QED
    BY ONLY <1>2, <1>3, <1>5, <1>7, <1>9, <2>2, hit' = hit DEF Midway
<1> QED
  BY <1>8, <1>9

\* Reading the byte that the line has put there.
LEMMA SpoiltStep ==
  ASSUME NEW F, NEW p, NEW fmt, NEW text, NEW n, NEW pos, NEW N \in Nat \ {0},
         hit = N, NEW k \in Nat, rx \in Rx, ~heard, IsSeq(got), Keeps(got, sent, N, N),
         Bound(p, text, n, pos, k, rx.dles + 1, 0), NEW c \in Byte,
         NEW byte \in {c} \cup (IF "HI8" \in rxOpts THEN {strip(c) + 128} ELSE {}),
         ReadByte(byte), sent' = sent, hit' = hit
  PROVE  rx' \in Rx /\ heard' = FALSE /\ IsSeq(got') /\ Midway(p, fmt, text, n, pos, k, N)'
<1>1. seen(byte) \in Byte
  BY Seen
<1>2. PICK d \in Nat : d = rx.dles
  BY DEF Rx
<1>3. d + 1 \in Nat /\ d + 1 <= 4 /\ d + 1 < 5
  <2>1. d + 1 \in Nat
    OBVIOUS
  <2>2. d + 1 <= 4
    BY <1>2, <2>1, BoundFour
  <2> QED
    BY ONLY <2>1, <2>2, d \in Nat
<1>4. IsSeq(got') /\ (got' = got \/ \E m : got' = Append(got, m))
  BY <1>1, OnePacket
<1>5. Keeps(got', sent, N, N)
  <2>1. CASE got' = got
    BY <2>1
  <2>2. ASSUME NEW m, got' = Append(got, m)
        PROVE  Keeps(got', sent, N, N)
    BY <2>2, KeepsAny
  <2> QED
    BY <1>4, <2>1, <2>2
<1>6. rx' \in Rx /\ heard' = FALSE /\ rx'.dles \in Nat /\ rx'.dles <= d + 1
  <2>1. CASE seen(byte) = DLE
    <3>1. heard' = FALSE /\ rx' = [rx EXCEPT !.dles = @ + 1]
      BY <1>2, <1>3, <2>1, DleRead
    <3>2. rx' \in Rx /\ rx'.dles = d + 1
      BY <1>2, <3>1 DEF Rx
    <3> QED
      BY ONLY <1>3, <3>1, <3>2
  <2>2. CASE seen(byte) # DLE
    <3>1. rx' \in Rx /\ rx'.dles <= rx.dles /\ heard' = heard
      BY <1>1, <2>2, NoDleRead DEF NoDleEffect
    <3>2. rx'.dles \in Nat
      BY ONLY <3>1 DEF Rx
    <3>3. rx'.dles <= d + 1
      BY ONLY <1>2, <3>1, <3>2, d \in Nat
    <3>4. heard' = FALSE
      BY <3>1
    <3> QED
      BY ONLY <3>1, <3>2, <3>3, <3>4
  <2> QED
    BY <2>1, <2>2
<1>7. Bound(p, text, n, pos, k, rx'.dles, 0)
  <2>1. Bound(p, text, n, pos, k, d + 1, 0)
    BY <1>2
  <2> QED
    BY ONLY <1>3, <1>6, <2>1, BoundLess
<1>8. Slack' = 0
  BY DEF Slack
<1> QED
  BY ONLY <1>4, <1>5, <1>6, <1>7, <1>8, hit = N, sent' = sent, hit' = hit DEF Midway

-----------------------------------------------------------------------------
(* The invariant of the link.                                              *)

\* The rest of the frame of packet N, or that rest after a damaged byte.
OnLine(F, p, fmt, text, n, pos, k, N) ==
    \/ k < Len(F) /\ RestOf(line, F, k) /\ Midway(p, fmt, text, n, pos, k, N)
    \/ /\ hit = N /\ k <= Len(F) /\ Keeps(got, sent, N, N) /\ Bound(p, text, n, pos, k, rx.dles + 1, 0)
       /\ \E c \in Byte : \E t : line = <<c>> \o t /\ RestOf(t, F, k)

Underway(N) ==
    \E F, p, fmt, text, n, pos : /\ Sound(F, p, fmt, text, n, pos, N)
                                 /\ \E k \in Nat : OnLine(F, p, fmt, text, n, pos, k, N)

\* Between two frames or in one.
Open(N) ==
    /\ ~cancelling /\ heard = FALSE /\ rx \in Rx
    /\ \/ line = <<>> /\ Calm(N)
       \/ line # <<>> /\ N > 0 /\ Underway(N)

\* In a cancel sequence, until it is heard.
Cancelled ==
    /\ heard = FALSE /\ rx \in Rx
    /\ \E k \in 0..4 : k <= rx.dles /\ RestOf(line, writeCancel, k)

Closed(N) ==
    /\ cancelling /\ Keeps(got, sent, N, hit)
    /\ heard \/ Cancelled

LinkTypes ==
    /\ sent \in Seq(Messages \cup Probes) /\ IsSeq(got)
    /\ hit \in 0..Len(sent) /\ prefix \in PeerPrefixes

LinkInv == AgreedInv /\ LinkTypes /\ (Open(Len(sent)) \/ Closed(Len(sent)))

\* After a step that leaves k bytes of the frame read.
LEMMA Settles ==
  ASSUME NEW F, NEW p, NEW fmt, NEW text, NEW n, NEW pos, NEW N \in Nat \ {0}, Sound(F, p, fmt, text, n, pos, N)',
         NEW k \in Nat, k <= Len(F), RestOf(line', F, k), Midway(p, fmt, text, n, pos, k, N)',
         hit' \in Nat, ~cancelling', heard' = FALSE, rx' \in Rx
  PROVE  Open(N)'
<1>1. FrameOf(rxOpts', F, p, fmt, text, n, pos)
  BY DEF Sound
<1>2. F \in Seq(Byte)
  BY <1>1 DEF FrameOf
<1>3. PICK l \in Nat : l = Len(F)
  BY <1>2, LenProperties
<1>4. line' = <<>> <=> k = l
  BY <1>2, <1>3, RestEmpty
<1>5. CASE k = l
  <2>1. k = Len(F)
    BY <1>3, <1>5
  <2>2. Calm(N)'
    BY <1>1, <2>1, MidwayEnds
  <2> QED
    BY ONLY <1>4, <1>5, <2>2, ~cancelling', heard' = FALSE, rx' \in Rx DEF Open
<1>6. CASE k # l
  <2>1. k < Len(F)
    BY <1>3, <1>6
  <2>2. OnLine(F, p, fmt, text, n, pos, k, N)'
    BY ONLY <2>1, RestOf(line', F, k), Midway(p, fmt, text, n, pos, k, N)' DEF OnLine
  <2>3. Underway(N)'
    BY ONLY <2>2, Sound(F, p, fmt, text, n, pos, N)', k \in Nat DEF Underway
  <2>4. N > 0
    OBVIOUS
  <2> QED
    BY ONLY <1>4, <1>6, <2>3, <2>4, ~cancelling', heard' = FALSE, rx' \in Rx DEF Open
<1> QED
  BY <1>5, <1>6

\* What is on the line stays right for the reader when its options change, as
\* only a HEX frame can be there then.
LEMMA SoundStays ==
  ASSUME NEW F, NEW p, NEW fmt, NEW text, NEW n, NEW pos, NEW N, Sound(F, p, fmt, text, n, pos, N),
         sent' = sent, agreed \subseteq agreed', rxOpts' = rxOpts \/ "reader" \notin agreed
  PROVE  Sound(F, p, fmt, text, n, pos, N)'
<1>1. fmt = fmtHEX \/ "reader" \in agreed'
  BY DEF Sound
<1>2. ASSUME NEW o, fmt = fmtHEX \/ o = rxOpts'
      PROVE  FrameOf(o, F, p, fmt, text, n, pos) /\ Means(o, fmt, text, sent'[N])
  <2>1. fmt = fmtHEX \/ o = rxOpts
    BY <1>2 DEF Sound
  <2> QED
    BY <2>1 DEF Sound
<1> QED
  BY ONLY <1>1, <1>2 DEF Sound

\* A step that touches neither line nor reader.
LEMMA OpenStays ==
  ASSUME NEW N, Open(N), UNCHANGED <<line, sent, got, hit, cancelling, rx, heard>>,
         agreed \subseteq agreed', rxOpts' = rxOpts \/ "reader" \notin agreed
  PROVE  Open(N)'
<1>1. /\ ~cancelling' /\ heard' = FALSE /\ rx' \in Rx
      /\ line' = line /\ sent' = sent /\ got' = got /\ hit' = hit /\ rx' = rx
  BY DEF Open
<1>2. CASE line = <<>> /\ Calm(N)
  <2>1. Calm(N)'
    BY ONLY <1>1, <1>2 DEF Calm, Quiet, Slack
  <2> QED
    BY ONLY <1>1, <1>2, <2>1 DEF Open
<1>3. CASE line # <<>> /\ N > 0 /\ Underway(N)
  <2>1. PICK F, p, fmt, text, n, pos : /\ Sound(F, p, fmt, text, n, pos, N)
                                       /\ \E k \in Nat : OnLine(F, p, fmt, text, n, pos, k, N)
    BY <1>3 DEF Underway
  <2>2. PICK k \in Nat : OnLine(F, p, fmt, text, n, pos, k, N)
    BY <2>1
  <2>3. Sound(F, p, fmt, text, n, pos, N)'
    BY <1>1, <2>1, SoundStays
  <2>4. Midway(p, fmt, text, n, pos, k, N) => Midway(p, fmt, text, n, pos, k, N)'
    BY ONLY <1>1 DEF Midway, Slack, Clean, Quiet
  <2>5. OnLine(F, p, fmt, text, n, pos, k, N)'
    BY ONLY <1>1, <2>2, <2>4 DEF OnLine
  <2>6. Underway(N)'
    BY ONLY <2>3, <2>5, k \in Nat DEF Underway
  <2> QED
    BY ONLY <1>1, <1>3, <2>6 DEF Open
<1> QED
  BY <1>2, <1>3 DEF Open

\* The same while a cancel sequence is on the line.
LEMMA ClosedStays ==
  ASSUME NEW N, Closed(N), UNCHANGED <<line, sent, got, hit, cancelling, rx, heard>>
  PROVE  Closed(N)'
BY DEF Closed, Cancelled

\* The cancel sequence begins with eight DLEs.
LEMMA WriteCancelTyped == writeCancel \in Seq(Byte) /\ Len(writeCancel) = 18 /\ \A i \in 1..8 : writeCancel[i] = DLE
BY DEF writeCancel, Byte, DLE, charBS, cancelCount

\* The formats a writer may choose its reader can tell apart.
LEMMA FormatsRead ==
  ASSUME NEW typ, NEW fmt \in formats(typ)
  PROVE  /\ fmt \in fmtBIN..fmtUUE
         /\ fmt = fmtBIN => "HI8" \notin txOpts
         /\ typ \in supervisory => fmt = fmtHEX
<1>1. Foreign \subseteq {fmtASC, fmtUUE}
  BY LinkAssumption DEF LinkAssumption
<1>2. fmtBIN = 98 /\ fmtHEX = 99 /\ fmtASC = 100 /\ fmtUUE = 101
  BY DEF fmtBIN, fmtHEX, fmtASC, fmtUUE
<1>3. CASE typ \in supervisory
  <2>1. selectFormat(typ, txOpts) = fmtHEX
    BY <1>3 DEF selectFormat
  <2>2. fmt = fmtHEX
    BY <1>3, <2>1 DEF formats
  <2> QED
    BY ONLY <1>2, <1>3, <2>2
<1>4. CASE typ \notin supervisory
  <2>1. /\ selectFormat(typ, txOpts) \in {fmtBIN, fmtHEX, fmtASC, fmtUUE}
        /\ selectFormat(typ, txOpts) = fmtBIN => "HI8" \notin txOpts
    <3>1. CASE "HI8" \notin txOpts
      BY <1>4, <3>1 DEF selectFormat
    <3>2. CASE "HI8" \in txOpts
      <4>1. selectFormat(typ, txOpts) \in {fmtHEX, fmtASC, fmtUUE}
        BY <1>4, <3>2 DEF selectFormat
      <4> QED
        BY ONLY <1>2, <4>1
    <3> QED
      BY <3>1, <3>2
  <2>2. fmt = selectFormat(typ, txOpts) \/ fmt \in {fmtASC, fmtUUE}
    BY <1>1 DEF formats
  <2>3. fmt \in {fmtBIN, fmtHEX, fmtASC, fmtUUE} /\ (fmt = fmtBIN => "HI8" \notin txOpts)
    BY ONLY <1>2, <2>1, <2>2
  <2> QED
    BY ONLY <1>2, <1>4, <2>3
<1> QED
  BY <1>3, <1>4

\* A packet is written between two frames.
LEMMA WriteStep ==
  ASSUME Modest, LinkInv, Write
  PROVE  LinkTypes' /\ Open(Len(sent))'
<1>1. /\ sent \in Seq(Messages \cup Probes) /\ IsSeq(got) /\ hit \in 0..Len(sent) /\ prefix \in PeerPrefixes
      /\ AgreedInv
  BY DEF LinkInv, LinkTypes
<1>2. PICK N \in Nat : N = Len(sent)
  BY <1>1, LenProperties
<1>3. /\ line = <<>> /\ ~cancelling
      /\ \E m \in IF sent = <<>> THEN Messages ELSE Probes :
            /\ m.typ \in supervisory \/ agreed = {"writer", "reader"}
            /\ sent' = Append(sent, m)
            /\ \E payload \in payloads(m), format \in formats(m.typ) :
                  line' = frame(m.typ, payload, format, txOpts, prefix)
      /\ link' = link /\ got' = got /\ hit' = hit /\ cancelling' = cancelling /\ rx' = rx /\ heard' = heard
  BY DEF Write
<1>4. /\ rxOpts' = rxOpts /\ agreed' = agreed /\ prefix' = prefix
  BY <1>3 DEF link
<1>5. heard = FALSE /\ rx \in Rx /\ Calm(N)
  BY ONLY <1>2, <1>3, LinkInv DEF LinkInv, Open, Closed
<1>6. PICK m \in Messages \cup Probes :
          /\ m.typ \in supervisory \/ agreed = {"writer", "reader"}
          /\ sent' = Append(sent, m)
          /\ \E payload \in payloads(m), format \in formats(m.typ) :
                line' = frame(m.typ, payload, format, txOpts, prefix)
  BY <1>3
<1>7. PICK payload \in payloads(m), fmt \in formats(m.typ) :
          line' = frame(m.typ, payload, fmt, txOpts, prefix)
  BY <1>6
<1>8. fmt \in fmtBIN..fmtUUE /\ (fmt = fmtBIN => "HI8" \notin txOpts) /\ (m.typ \in supervisory => fmt = fmtHEX)
  BY FormatsRead
<1>9. PICK F : F = frame(m.typ, payload, fmt, txOpts, prefix)
  OBVIOUS
<1>10. PICK p, text, n, pos : \A o : fmt = fmtHEX \/ o = txOpts =>
          FrameOf(o, F, p, fmt, text, n, pos) /\ Means(o, fmt, text, m)
  BY <1>1, <1>8, <1>9, Written
<1>11. /\ sent' \in Seq(Messages \cup Probes) /\ N + 1 = Len(sent') /\ sent'[N + 1] = m
       /\ \A i \in 1..N : sent'[i] = sent[i]
  BY <1>1, <1>2, <1>6, AppendProperties
<1>12. N + 1 \in Nat \ {0} /\ (N + 1) - 1 = N
  OBVIOUS
<1>13. Sound(F, p, fmt, text, n, pos, N + 1)'
  <2>1. fmt = fmtHEX \/ (txOpts = rxOpts /\ "reader" \in agreed)
    <3>1. CASE m.typ \in supervisory
      BY <1>8, <3>1
    <3>2. CASE agreed = {"writer", "reader"}
      <4>1. bothCompatible(writerCfg, readerCfg)
        BY <1>1, <3>2 DEF AgreedInv, bothCompatible
      <4>2. SameOptions(writerCfg, readerCfg)
        BY <1>1, OneOptionSet DEF AgreedInv
      <4> QED
        BY <1>1, <3>2, <4>1, <4>2 DEF AgreedInv, SameOptions
    <3> QED
      BY <1>6, <3>1, <3>2
  <2>2. fmt = fmtHEX \/ "reader" \in agreed'
    BY <1>4, <2>1
  <2>3. ASSUME NEW o, fmt = fmtHEX \/ o = rxOpts'
        PROVE  FrameOf(o, F, p, fmt, text, n, pos) /\ Means(o, fmt, text, sent'[N + 1])
    <3>1. fmt = fmtHEX \/ o = txOpts
      BY ONLY <1>4, <2>1, <2>3
    <3>2. FrameOf(o, F, p, fmt, text, n, pos) /\ Means(o, fmt, text, m)
      BY ONLY <1>10, <3>1
    <3> QED
      BY ONLY <1>11, <3>2
  <2> QED
    BY ONLY <2>2, <2>3 DEF Sound
<1>14. hit' \in 0..((N + 1) - 1) /\ hit' \in Nat
  BY <1>1, <1>2, <1>3
<1>15. Slack' = Slack /\ (Quiet <=> Quiet')
  BY <1>3 DEF Slack, Quiet
<1>16. /\ rx'.dles + Slack' <= 3 /\ ((hit' = (N + 1) - 1 /\ hit' > 0) \/ Quiet')
       /\ Keeps(got', sent', (N + 1) - 1, hit')
  <2>1. Keeps(got, sent, N, hit) /\ rx.dles + Slack <= 3 /\ ((hit = N /\ hit > 0) \/ Quiet)
    BY <1>5 DEF Calm
  <2>2. hit \in 0..N
    BY <1>1, <1>2
  <2>3. Keeps(got, sent', N, hit)
    BY ONLY <1>11, <2>1, <2>2, N \in Nat, KeepsWritten
  <2> QED
    BY ONLY <1>3, <1>12, <1>15, <2>1, <2>3
<1>17. FrameOf(rxOpts', F, p, fmt, text, n, pos)
  BY <1>13 DEF Sound
<1>18. 0 < Len(F) /\ Midway(p, fmt, text, n, pos, 0, N + 1)'
  BY ONLY <1>12, <1>14, <1>16, <1>17, MidwayStarts
<1>19. F \in Seq(Byte)
  BY <1>17 DEF FrameOf
<1>20. RestOf(line', F, 0)
  BY <1>7, <1>9, <1>19, RestWhole
<1>21. Open(N + 1)'
  <2>1. 0 <= Len(F) /\ 0 \in Nat
    <3>1. PICK l \in Nat : l = Len(F)
      BY <1>19, LenProperties
    <3> QED
      BY ONLY <3>1
  <2>2. ~cancelling' /\ heard' = FALSE /\ rx' \in Rx
    BY <1>3, <1>5
  <2> QED
    BY ONLY <1>12, <1>13, <1>14, <1>18, <1>20, <2>1, <2>2, Settles
<1>22. LinkTypes'
  <2>1. hit' \in 0..Len(sent')
    BY ONLY <1>11, <1>14, N \in Nat
  <2> QED
    BY ONLY <1>1, <1>3, <1>4, <1>11, <2>1 DEF LinkTypes
<1> QED
  BY ONLY <1>11, <1>21, <1>22

\* What every step but Write leaves of the types.
LEMMA TypesStay ==
  ASSUME LinkTypes, sent' = sent, IsSeq(got'), hit' \in 0..Len(sent), prefix' = prefix
  PROVE  LinkTypes'
BY DEF LinkTypes

\* A byte of a frame is read.
LEMMA OpenRead ==
  ASSUME LinkTypes, Open(Len(sent)), Read
  PROVE  LinkTypes' /\ Open(Len(sent))'
<1>1. sent \in Seq(Messages \cup Probes) /\ IsSeq(got) /\ hit \in 0..Len(sent)
  BY DEF LinkTypes
<1>2. PICK N \in Nat : N = Len(sent)
  BY <1>1, LenProperties
<1>3. /\ line # <<>> /\ line' = Tail(line) /\ sent' = sent /\ hit' = hit
      /\ cancelling' = cancelling /\ prefix' = prefix /\ rxOpts' = rxOpts /\ agreed' = agreed
  BY DEF Read, link
<1>4. PICK byte \in {Head(line)} \cup (IF "HI8" \in rxOpts THEN {strip(Head(line)) + 128} ELSE {}) :
          ReadByte(byte)
  BY DEF Read
<1>5. ~cancelling /\ heard = FALSE /\ rx \in Rx /\ N \in Nat \ {0} /\ Underway(N)
  BY ONLY <1>2, <1>3, N \in Nat, Open(Len(sent)) DEF Open
<1>6. PICK F, p, fmt, text, n, pos : /\ Sound(F, p, fmt, text, n, pos, N)
                                     /\ \E k \in Nat : OnLine(F, p, fmt, text, n, pos, k, N)
  BY <1>5 DEF Underway
<1>7. PICK k \in Nat : OnLine(F, p, fmt, text, n, pos, k, N)
  BY <1>6
<1>8. hit \in Nat /\ hit' \in Nat /\ hit' \in 0..Len(sent)
  BY <1>1, <1>2, <1>3
<1>9. Sound(F, p, fmt, text, n, pos, N)'
  <2>1. agreed \subseteq agreed'
    BY <1>3
  <2> QED
    BY ONLY <1>3, <1>6, <2>1, SoundStays
<1>10. F \in Seq(Byte)
  <2>1. FrameOf(rxOpts, F, p, fmt, text, n, pos)
    BY <1>6 DEF Sound
  <2> QED
    BY <2>1 DEF FrameOf
<1>11. PICK l \in Nat : l = Len(F)
  BY <1>10, LenProperties
<1>12. ASSUME NEW e \in Nat, e <= Len(F), RestOf(line', F, e),
              rx' \in Rx /\ heard' = FALSE /\ IsSeq(got') /\ Midway(p, fmt, text, n, pos, e, N)'
       PROVE  LinkTypes' /\ Open(Len(sent))'
  <2>1. ~cancelling'
    BY <1>3, <1>5
  <2>2. Open(N)'
    BY <1>5, <1>8, <1>9, <1>12, <2>1, Settles
  <2>3. LinkTypes'
    BY <1>3, <1>8, <1>12, TypesStay
  <2> QED
    BY ONLY <1>2, <1>3, <2>2, <2>3
<1>13. CASE k < Len(F) /\ RestOf(line, F, k) /\ Midway(p, fmt, text, n, pos, k, N)
  <2>1. Head(line) = F[k + 1] /\ RestOf(line', F, k + 1)
    BY <1>3, <1>10, <1>13, RestTail
  <2>2. byte \in {F[k + 1]} \cup (IF "HI8" \in rxOpts THEN {strip(F[k + 1]) + 128} ELSE {})
    BY <2>1
  <2>3. rx' \in Rx /\ heard' = FALSE /\ IsSeq(got') /\ Midway(p, fmt, text, n, pos, k + 1, N)'
    BY ZenonT(30), <1>1, <1>3, <1>4, <1>5, <1>6, <1>8, <1>13, <2>2, MidwayStep
  <2>4. k + 1 \in Nat /\ k + 1 <= Len(F)
    BY <1>11, <1>13
  <2> QED
    BY ONLY <1>12, <2>1, <2>3, <2>4
<1>14. CASE /\ hit = N /\ k <= Len(F) /\ Keeps(got, sent, N, N) /\ Bound(p, text, n, pos, k, rx.dles + 1, 0)
            /\ \E c \in Byte : \E t : line = <<c>> \o t /\ RestOf(t, F, k)
  <2>0. PICK c \in Byte : \E t : line = <<c>> \o t /\ RestOf(t, F, k)
    BY <1>14
  <2>1. PICK t : line = <<c>> \o t /\ RestOf(t, F, k)
    BY <2>0
  <2>2. t \in Seq(Byte)
    BY <2>1 DEF RestOf
  <2>3. Head(line) = c /\ Tail(line) = t
    BY <2>1, <2>2, Led
  <2>4. RestOf(line', F, k)
    BY <1>3, <2>1, <2>3
  <2>5. byte \in {c} \cup (IF "HI8" \in rxOpts THEN {strip(c) + 128} ELSE {})
    BY <2>3
  <2>6. rx' \in Rx /\ heard' = FALSE /\ IsSeq(got') /\ Midway(p, fmt, text, n, pos, k, N)'
    BY <1>1, <1>3, <1>4, <1>5, <1>14, <2>5, SpoiltStep
  <2> QED
    BY ONLY <1>12, <1>14, <2>4, <2>6, k \in Nat
<1> QED
  BY ONLY <1>7, <1>13, <1>14 DEF OnLine

\* A byte of a frame is damaged.
LEMMA DamageStep ==
  ASSUME LinkTypes, Open(Len(sent)), Damage
  PROVE  LinkTypes' /\ Open(Len(sent))'
<1>1. sent \in Seq(Messages \cup Probes) /\ IsSeq(got) /\ hit \in 0..Len(sent)
  BY DEF LinkTypes
<1>2. PICK N \in Nat : N = Len(sent)
  BY <1>1, LenProperties
<1>3. /\ line # <<>> /\ hit = 0 /\ hit' = N
      /\ \E c \in DamageTo : line' = (IF c = Lost THEN <<>> ELSE <<c>>) \o Tail(line)
      /\ sent' = sent /\ got' = got /\ rx' = rx /\ heard' = heard
      /\ cancelling' = cancelling /\ prefix' = prefix /\ rxOpts' = rxOpts /\ agreed' = agreed
  BY <1>2 DEF Damage, link
<1>4. ~cancelling /\ heard = FALSE /\ rx \in Rx /\ N \in Nat \ {0} /\ Underway(N)
  BY ONLY <1>2, <1>3, N \in Nat, Open(Len(sent)) DEF Open
<1>5. PICK F, p, fmt, text, n, pos : /\ Sound(F, p, fmt, text, n, pos, N)
                                     /\ \E k \in Nat : OnLine(F, p, fmt, text, n, pos, k, N)
  BY <1>4 DEF Underway
<1>6. PICK k \in Nat : OnLine(F, p, fmt, text, n, pos, k, N)
  BY <1>5
<1>7. hit # N /\ N > 0
  BY ONLY <1>3, <1>4
<1>8. k < Len(F) /\ RestOf(line, F, k) /\ Midway(p, fmt, text, n, pos, k, N)
  BY ONLY <1>6, <1>7 DEF OnLine
<1>9. FrameOf(rxOpts, F, p, fmt, text, n, pos)
  BY <1>5 DEF Sound
<1>10. F \in Seq(Byte)
  BY <1>9 DEF FrameOf
<1>11. k + 1 \in Nat /\ k + 1 <= Len(F)
  <2>1. PICK l \in Nat : l = Len(F)
    BY <1>10, LenProperties
  <2> QED
    BY <1>8, <2>1
<1>12. RestOf(Tail(line), F, k + 1)
  BY <1>8, <1>10, RestTail
<1>13. Keeps(got, sent, N, N)
  <2>1. Clean(p, fmt, text, n, pos, k, N)
    BY <1>7, <1>8 DEF Midway
  <2>2. Keeps(got, sent, N - 1, 0) \/ Keeps(got, sent, N, 0)
    BY ONLY <1>3, <2>1 DEF Clean
  <2> QED
    BY <1>4, <2>2, KeepsHit
<1>14. PICK d \in Nat : d = rx.dles
  BY <1>4 DEF Rx
<1>15. Bound(p, text, n, pos, k + 1, d + 1, 0)
  <2>1. Slack = 2
    BY <1>3 DEF Slack
  <2>2. Bound(p, text, n, pos, k, d, 2)
    BY <1>8, <1>14, <2>1 DEF Midway
  <2> QED
    BY <1>9, <2>2, BoundDamaged
<1>16. Sound(F, p, fmt, text, n, pos, N)'
  <2>1. agreed \subseteq agreed'
    BY <1>3
  <2> QED
    BY ONLY <1>3, <1>5, <2>1, SoundStays
<1>17. PICK c \in DamageTo : line' = (IF c = Lost THEN <<>> ELSE <<c>>) \o Tail(line)
  BY <1>3
<1>18. Tail(line) \in Seq(Byte)
  BY <1>12 DEF RestOf
<1>19. ~cancelling' /\ heard' = FALSE /\ rx' \in Rx /\ hit' \in Nat
  BY ONLY <1>3, <1>4
<1>20. Open(N)'
  <2>1. CASE c = Lost
    <3>1. line' = Tail(line)
      <4>1. line' = <<>> \o Tail(line)
        BY <1>17, <2>1
      <4> QED
        BY ONLY <1>18, <4>1
    <3>2. Bound(p, text, n, pos, k + 1, d, 0)
      <4>1. d + 1 \in Nat /\ d <= d + 1
        OBVIOUS
      <4> QED
        BY ONLY <1>15, <4>1, d \in Nat, BoundLess
    <3>3. Slack' = 0
      BY ONLY <1>3, <1>4 DEF Slack
    <3>4. Midway(p, fmt, text, n, pos, k + 1, N)'
      BY ONLY <1>3, <1>13, <1>14, <3>2, <3>3 DEF Midway
    <3>5. RestOf(line', F, k + 1)
      BY <1>12, <3>1
    <3> QED
      BY ONLY <1>4, <1>11, <1>16, <1>19, <3>4, <3>5, Settles
  <2>2. CASE c # Lost
    <3>1. line' = <<c>> \o Tail(line)
      BY <1>17, <2>2
    <3>2. c \in Byte
      BY <2>2, LinkAssumption DEF LinkAssumption
    <3>3. line' # <<>>
      BY <1>18, <3>1, <3>2, Led
    <3>4. /\ hit' = N /\ k + 1 <= Len(F) /\ Keeps(got', sent', N, N)
          /\ Bound(p, text, n, pos, k + 1, rx'.dles + 1, 0)
      BY ONLY <1>3, <1>11, <1>13, <1>14, <1>15
    <3>5. OnLine(F, p, fmt, text, n, pos, k + 1, N)'
      BY ONLY <1>12, <3>1, <3>2, <3>4 DEF OnLine
    <3>6. Underway(N)'
      BY ONLY <1>11, <1>16, <3>5 DEF Underway
    <3> QED
      BY ONLY <1>7, <1>19, <3>3, <3>6 DEF Open
  <2> QED
    BY <2>1, <2>2
<1>21. LinkTypes'
  <2>1. IsSeq(got') /\ hit' \in 0..Len(sent)
    BY ONLY <1>1, <1>2, <1>3, N \in Nat
  <2> QED
    BY <1>3, <2>1, TypesStay
<1> QED
  BY ONLY <1>2, <1>3, <1>20, <1>21

\* writeCancel, between two frames.
LEMMA CancelStep ==
  ASSUME LinkTypes, Open(Len(sent)), Cancel
  PROVE  LinkTypes' /\ Closed(Len(sent))'
<1>1. sent \in Seq(Messages \cup Probes) /\ IsSeq(got) /\ hit \in 0..Len(sent)
  BY DEF LinkTypes
<1>2. /\ line = <<>> /\ cancelling' = TRUE /\ line' = writeCancel
      /\ sent' = sent /\ got' = got /\ hit' = hit /\ rx' = rx /\ heard' = heard /\ prefix' = prefix
  BY DEF Cancel, link
<1>3. heard = FALSE /\ rx \in Rx /\ Keeps(got, sent, Len(sent), hit)
  BY ONLY <1>2, Open(Len(sent)) DEF Open, Calm
<1>4. RestOf(line', writeCancel, 0)
  BY <1>2, WriteCancelTyped, RestWhole
<1>5. 0 \in 0..4 /\ 0 <= rx'.dles
  BY <1>2, <1>3 DEF Rx
<1>6. Closed(Len(sent))'
  BY ONLY <1>2, <1>3, <1>4, <1>5 DEF Closed, Cancelled
<1>7. LinkTypes'
  BY <1>1, <1>2, TypesStay
<1> QED
  BY <1>6, <1>7

\* A byte of a cancel sequence is read.
LEMMA ClosedRead ==
  ASSUME LinkTypes, Closed(Len(sent)), Read
  PROVE  LinkTypes' /\ Closed(Len(sent))'
<1>1. sent \in Seq(Messages \cup Probes) /\ IsSeq(got) /\ hit \in 0..Len(sent)
  BY DEF LinkTypes
<1>2. /\ line # <<>> /\ ~heard /\ line' = Tail(line) /\ sent' = sent /\ hit' = hit
      /\ cancelling' = cancelling /\ prefix' = prefix
  BY DEF Read, link
<1>3. PICK byte \in {Head(line)} \cup (IF "HI8" \in rxOpts THEN {strip(Head(line)) + 128} ELSE {}) :
          ReadByte(byte)
  BY DEF Read
<1>4. cancelling /\ Keeps(got, sent, Len(sent), hit) /\ Cancelled
  BY ONLY <1>2, Closed(Len(sent)) DEF Closed
<1>5. PICK k \in 0..4 : k <= rx.dles /\ RestOf(line, writeCancel, k)
  BY <1>4 DEF Cancelled
<1>6. rx \in Rx
  BY <1>4 DEF Cancelled
<1>7. k \in Nat /\ k < 18 /\ k + 1 \in 1..8
  OBVIOUS
<1>8. Head(line) = DLE /\ RestOf(line', writeCancel, k + 1)
  <2>0. writeCancel \in Seq(Byte) /\ k < Len(writeCancel) /\ k \in Nat /\ RestOf(line, writeCancel, k)
    BY ONLY <1>5, <1>7, WriteCancelTyped
  <2>1. Head(line) = writeCancel[k + 1] /\ RestOf(line', writeCancel, k + 1)
    BY ONLY <1>2, <2>0, RestTail
  <2> QED
    BY <1>7, <2>1, WriteCancelTyped
<1>9. seen(byte) = DLE
  <2>1. DLE \in Byte /\ DLE < 128
    BY DEF DLE, Byte
  <2>2. byte \in {DLE} \cup (IF "HI8" \in rxOpts THEN {strip(DLE) + 128} ELSE {})
    BY <1>3, <1>8
  <2> QED
    BY <2>1, <2>2, Seen
<1>10. PICK d \in Nat : d = rx.dles
  BY <1>6 DEF Rx
<1>11. /\ got' = got
       /\ d + 1 >= 5 => heard' = TRUE
       /\ d + 1 < 5 => heard' = FALSE /\ rx' = [rx EXCEPT !.dles = @ + 1]
  BY <1>3, <1>6, <1>9, <1>10, DleRead
<1>12. Closed(Len(sent))'
  <2>1. CASE d + 1 >= 5
    BY ONLY <1>2, <1>4, <1>11, <2>1 DEF Closed
  <2>2. CASE d + 1 < 5
    <3>1. k + 1 \in 0..4 /\ k + 1 <= d + 1
      BY ONLY <1>5, <1>10, <2>2, k \in 0..4, d \in Nat
    <3>2. rx' \in Rx /\ rx'.dles = d + 1
      BY <1>6, <1>10, <1>11, <2>2 DEF Rx
    <3>3. Cancelled'
      BY ONLY <1>8, <1>11, <2>2, <3>1, <3>2 DEF Cancelled
    <3> QED
      BY ONLY <1>2, <1>4, <1>11, <3>3 DEF Closed
  <2> QED
    BY ONLY <2>1, <2>2, d \in Nat
<1>13. LinkTypes'
  BY <1>1, <1>2, <1>11, TypesStay
<1> QED
  BY <1>12, <1>13

\* Nothing is on the line at first.
LEMMA LinkInit == Init => LinkInv
<1> SUFFICES ASSUME Init PROVE LinkInv
  OBVIOUS
<1>1. /\ sent = <<>> /\ got = <<>> /\ line = <<>> /\ hit = 0 /\ heard = FALSE /\ ~cancelling
      /\ prefix \in PeerPrefixes
      /\ rx = [dles |-> 0, format |-> fmtBIN, inPacket |-> FALSE, overflow |-> FALSE, body |-> <<>>]
  BY DEF Init
<1>2. /\ <<>> \in Seq(Messages \cup Probes) /\ Len(<<>>) = 0 /\ 0 \in 0..0 /\ 1..0 = {} /\ 0 \notin 1..0
  OBVIOUS
<1>3. IsSeq(got)
  BY <1>1, <1>2 DEF IsSeq
<1>4. LinkTypes
  BY ONLY <1>1, <1>2, <1>3 DEF LinkTypes
<1>5. Keeps(got, sent, 0, hit)
  BY ONLY <1>1, <1>2 DEF Keeps
<1>6. rx \in Rx /\ rx.dles = 0 /\ ~rx.inPacket
  <2>1. fmtBIN \in fmtBIN..fmtUUE /\ <<>> \in Seq(Byte)
    BY DEF fmtBIN, fmtUUE
  <2>2. rx \in Rx
    BY ONLY <1>1, <2>1 DEF Rx
  <2> QED
    BY ONLY <1>1, <2>2
<1>7. Calm(0)
  <2>1. rx.dles + Slack <= 3
    BY ONLY <1>1, <1>6 DEF Slack
  <2> QED
    BY ONLY <1>5, <1>6, <2>1 DEF Calm, Quiet
<1>8. Open(Len(sent))
  BY ONLY <1>1, <1>2, <1>6, <1>7 DEF Open
<1> QED
  BY ONLY <1>4, <1>8, AgreedInit, Init DEF LinkInv

\* What every step preserves.
Kept == LinkTypes /\ (Open(Len(sent)) \/ Closed(Len(sent)))

\* A step that touches neither line nor reader.
LEMMA Untouched ==
  ASSUME Kept, UNCHANGED <<line, sent, got, hit, cancelling, rx, heard, prefix>>, agreed \subseteq agreed',
         rxOpts' = rxOpts \/ "reader" \notin agreed
  PROVE  Kept'
<1>1. LinkTypes'
  BY TypesStay DEF LinkTypes, Kept
<1>2. UNCHANGED <<line, sent, got, hit, cancelling, rx, heard>>
  OBVIOUS
<1>3. Len(sent') = Len(sent)
  OBVIOUS
<1>4. PICK N : N = Len(sent)
  OBVIOUS
<1>5. CASE Open(N)
  <2>1. Open(N)'
    BY <1>2, <1>5, OpenStays
  <2> QED
    BY ONLY <1>1, <1>3, <1>4, <2>1 DEF Kept
<1>6. CASE Closed(N)
  <2>1. Closed(N)'
    BY <1>2, <1>6, ClosedStays
  <2> QED
    BY ONLY <1>1, <1>3, <1>4, <2>1 DEF Kept
<1> QED
  BY <1>4, <1>5, <1>6 DEF Kept

\* The inductive step.
LEMMA LinkStep == Modest /\ LinkInv /\ [Next]_vars => LinkInv'
<1> SUFFICES ASSUME Modest, LinkInv, [Next]_vars PROVE LinkInv'
  OBVIOUS
<1>1. AgreedInv'
  BY AgreedStep DEF LinkInv
<1>2. Kept
  BY DEF LinkInv, Kept
<1>3. LinkTypes /\ (Open(Len(sent)) \/ Closed(Len(sent)))
  BY <1>2 DEF Kept
<1>4. ASSUME WriterAgrees PROVE Kept'
  <2>1. /\ UNCHANGED <<line, sent, got, hit, cancelling, rx, heard, prefix>> /\ agreed \subseteq agreed'
        /\ rxOpts' = rxOpts
    BY <1>4 DEF WriterAgrees
  <2> QED
    BY ONLY <1>2, <2>1, Untouched
<1>5. ASSUME ReaderAgrees PROVE Kept'
  <2>1. /\ UNCHANGED <<line, sent, got, hit, cancelling, rx, heard, prefix>> /\ agreed \subseteq agreed'
        /\ "reader" \notin agreed
    BY <1>5 DEF ReaderAgrees
  <2> QED
    BY ONLY <1>2, <2>1, Untouched
<1>6. ASSUME UNCHANGED vars PROVE Kept'
  <2>1. /\ UNCHANGED <<line, sent, got, hit, cancelling, rx, heard, prefix>> /\ agreed \subseteq agreed'
        /\ rxOpts' = rxOpts
    BY <1>6 DEF vars, link
  <2> QED
    BY ONLY <1>2, <2>1, Untouched
<1>7. ASSUME Write PROVE Kept'
  <2>1. LinkTypes' /\ Open(Len(sent))'
    BY <1>7, WriteStep
  <2> QED
    BY ONLY <2>1 DEF Kept
<1>8. ASSUME Cancel PROVE Kept'
  <2>1. Open(Len(sent))
    BY <1>3, <1>8 DEF Cancel, Closed
  <2>2. LinkTypes' /\ Closed(Len(sent))'
    BY <1>3, <1>8, <2>1, CancelStep
  <2> QED
    BY ONLY <2>2 DEF Kept
<1>9. ASSUME Read PROVE Kept'
  <2>1. CASE Open(Len(sent))
    <3>1. LinkTypes' /\ Open(Len(sent))'
      BY <1>3, <1>9, <2>1, OpenRead
    <3> QED
      BY ONLY <3>1 DEF Kept
  <2>2. CASE Closed(Len(sent))
    <3>1. LinkTypes' /\ Closed(Len(sent))'
      BY <1>3, <1>9, <2>2, ClosedRead
    <3> QED
      BY ONLY <3>1 DEF Kept
  <2> QED
    BY <1>3, <2>1, <2>2
<1>10. ASSUME Noise PROVE Kept'
  <2>1. PICK byte \in noise : ReadByte(byte)
    BY <1>10 DEF Noise
  <2>2. rx' = rx /\ got' = got /\ heard' = heard
    BY <2>1, NoiseEaten, Eaten
  <2>3. UNCHANGED <<link, line, sent, hit, cancelling>>
    BY <1>10 DEF Noise
  <2>4. /\ UNCHANGED <<line, sent, got, hit, cancelling, rx, heard, prefix>> /\ agreed \subseteq agreed'
        /\ rxOpts' = rxOpts
    BY <2>2, <2>3 DEF link
  <2> QED
    BY ONLY <1>2, <2>4, Untouched
<1>11. ASSUME Damage PROVE Kept'
  <2>1. Open(Len(sent))
    BY <1>3, <1>11 DEF Damage, Closed
  <2>2. LinkTypes' /\ Open(Len(sent))'
    BY <1>3, <1>11, <2>1, DamageStep
  <2> QED
    BY ONLY <2>2 DEF Kept
<1>12. Kept'
  BY <1>4, <1>5, <1>6, <1>7, <1>8, <1>9, <1>10, <1>11 DEF Next
<1> QED
  BY ONLY <1>1, <1>12 DEF LinkInv, Kept

\* A damaged byte costs no packet but the one it is in: all the others are
\* understood, in order.
OthersDelivered ==
    \E n \in {Len(sent) - 1, Len(sent)} : Keeps(got, sent, n, hit) /\ (line = <<>> => n = Len(sent))

\* Only the cancel sequence brings the count to five, and it always does.
LEMMA InvCancelExact == LinkInv => CancelExact
<1> SUFFICES ASSUME LinkInv PROVE CancelExact
  OBVIOUS
<1>1. CASE Open(Len(sent))
  BY <1>1 DEF Open, CancelExact
<1>2. CASE Closed(Len(sent))
  <2>1. ASSUME Cancelled
        PROVE  line # <<>>
    <3>1. PICK k \in 0..4 : RestOf(line, writeCancel, k)
      BY <2>1 DEF Cancelled
    <3>2. writeCancel \in Seq(Byte) /\ k \in Nat /\ k # Len(writeCancel)
      BY WriteCancelTyped
    <3> QED
      BY ONLY <3>1, <3>2, RestEmpty
  <2> QED
    BY ONLY <1>2, <2>1 DEF Closed, CancelExact
<1> QED
  BY <1>1, <1>2 DEF LinkInv

\* What the reader has understood in the middle of a frame and between two.
LEMMA InvOthers == LinkInv => OthersDelivered
<1> SUFFICES ASSUME LinkInv PROVE OthersDelivered
  OBVIOUS
<1>1. LinkTypes
  BY DEF LinkInv
<1>2. PICK N \in Nat : N = Len(sent)
  BY <1>1, LenProperties DEF LinkTypes
<1>3. CASE Closed(N)
  BY ONLY <1>2, <1>3 DEF Closed, OthersDelivered
<1>4. CASE Open(N) /\ line = <<>>
  BY ONLY <1>2, <1>4 DEF Open, Calm, OthersDelivered
<1>5. CASE Open(N) /\ line # <<>>
  <2>1. Underway(N)
    BY ONLY <1>5 DEF Open
  <2>2. PICK F, p, fmt, text, n, pos : \E k \in Nat : OnLine(F, p, fmt, text, n, pos, k, N)
    BY <2>1 DEF Underway
  <2>3. PICK k \in Nat : OnLine(F, p, fmt, text, n, pos, k, N)
    BY <2>2
  <2>4. Midway(p, fmt, text, n, pos, k, N) \/ (hit = N /\ Keeps(got, sent, N, N))
    BY ONLY <2>3 DEF OnLine
  <2>5. Keeps(got, sent, N, hit) \/ Keeps(got, sent, N - 1, hit)
    BY ONLY <2>4 DEF Midway, Clean
  <2> QED
    BY ONLY <1>2, <1>5, <2>5 DEF OthersDelivered
<1> QED
  BY <1>2, <1>3, <1>4, <1>5 DEF LinkInv

\* Nothing damaged: what is understood is what was sent.
LEMMA OthersAll == LinkTypes /\ OthersDelivered /\ hit = 0 => Delivered
<1> SUFFICES ASSUME LinkTypes, OthersDelivered, hit = 0 PROVE Delivered
  OBVIOUS
<1>1. sent \in Seq(Messages \cup Probes) /\ IsSeq(got)
  BY DEF LinkTypes
<1>2. PICK N \in Nat : N = Len(sent)
  BY <1>1, LenProperties
<1>3. PICK n \in {N - 1, N} : Keeps(got, sent, n, hit) /\ (line = <<>> => n = N)
  BY <1>2 DEF OthersDelivered
<1>4. Len(got) = n /\ \A i \in 1..n : got[i] = sent[i]
  <2>1. 0 \notin 1..n
    BY <1>3
  <2> QED
    BY ONLY <1>3, <2>1, hit = 0 DEF Keeps
<1>5. PICK S : got \in Seq(S)
  BY <1>1 DEF IsSeq
<1>6. n \in Nat /\ n <= N
  <2>1. Len(got) \in Nat
    BY <1>5, LenProperties
  <2>2. n <= N
    BY <1>2, <1>3
  <2> QED
    BY ONLY <1>4, <2>1, <2>2
<1>7. IsPrefix(got, sent)
  <2>1. Len(got) <= Len(sent)
    BY ONLY <1>2, <1>4, <1>6
  <2>2. SubSeq(got, 1, Len(got)) = [i \in 1..n |-> got[i]] /\ SubSeq(sent, 1, Len(got)) = [i \in 1..n |-> sent[i]]
    BY <1>1, <1>2, <1>4, <1>5, <1>6
  <2>3. SubSeq(got, 1, Len(got)) = SubSeq(sent, 1, Len(got))
    BY ONLY <1>4, <2>2
  <2> QED
    BY ONLY <2>1, <2>3 DEF IsPrefix
<1>8. ASSUME line = <<>>
      PROVE  got = sent
  <2>1. n = N
    BY <1>3, <1>8
  <2> DEFINE T == S \cup (Messages \cup Probes)
  <2>2. got \in Seq(T) /\ sent \in Seq(T)
    <3>1. got \in [1..n -> S] /\ sent \in [1..N -> Messages \cup Probes]
      BY <1>1, <1>2, <1>4, <1>5, LenProperties
    <3>2. got \in [1..n -> T] /\ sent \in [1..N -> T]
      BY ONLY <3>1
    <3> QED
      BY ONLY <1>6, <3>2, N \in Nat
  <2>3. Len(got) = Len(sent) /\ \A i \in 1..Len(got) : got[i] = sent[i]
    BY ONLY <1>2, <1>4, <2>1
  <2> QED
    BY ONLY <2>2, <2>3, SeqEqual
<1> QED
  BY ONLY <1>7, <1>8, hit = 0 DEF Delivered

\* readPacket reports a cancel only if the peer sent the sequence, and always
\* if it did.
THEOREM CancelExactHolds == ASSUME Modest PROVE Spec => []CancelExact
<1>1. Init => LinkInv
  BY LinkInit
<1>2. LinkInv /\ [Next]_vars => LinkInv'
  BY LinkStep
<1>3. LinkInv => CancelExact
  BY InvCancelExact
<1> QED
  BY <1>1, <1>2, <1>3, PTL DEF Spec

\* writePacket, readPacket: whatever one byte of a frame becomes, every packet
\* but that one is understood, in order, and nothing else but what the reader
\* may have made of the damaged frame.
THEOREM OthersAlwaysDelivered == ASSUME Modest PROVE Spec => []OthersDelivered
<1>1. Init => LinkInv
  BY LinkInit
<1>2. LinkInv /\ [Next]_vars => LinkInv'
  BY LinkStep
<1>3. LinkInv => OthersDelivered
  BY InvOthers
<1> QED
  BY <1>1, <1>2, <1>3, PTL DEF Spec

\* writePacket, readPacket: as long as no byte is damaged, what the batch
\* understands is what was sent, in order and with nothing missing, whatever the
\* link inserts and wherever in a frame the options change.
THEOREM UndamagedDelivered == ASSUME Modest PROVE Spec => [](hit = 0 => Delivered)
<1>1. Init => LinkInv
  BY LinkInit
<1>2. LinkInv /\ [Next]_vars => LinkInv'
  BY LinkStep
<1>3. LinkInv => (hit = 0 => Delivered)
  BY InvOthers, OthersAll DEF LinkInv
<1> QED
  BY <1>1, <1>2, <1>3, PTL DEF Spec

=============================================================================
