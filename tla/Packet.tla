------------------------------- MODULE Packet -------------------------------
(***************************************************************************)
(* The binary packets (packet.go): from a record to the payload of a frame *)
(* and back, and frames (writer.go): from a payload to the bytes written.  *)
(* START, INIT, INITACK, END and IDLE count as empty: INIT's fields are    *)
(* Negotiation's subject, and FINFO is left out.                           *)
(***************************************************************************)
EXTENDS Encoding

types == <<"START", "INIT", "INITACK", "FINFO", "FINFOACK", "DATA", "DATAACK", "RPOS", "EOF",
           "EOFACK", "END", "IDLE", "DEVDATA", "DEVDACK">>
typeByte(typ) == 64 + CHOOSE i \in DOMAIN types : types[i] = typ
supervisory == {"START", "INIT", "INITACK", "END", "IDLE"}

Byte == 0..255
Uint16 == 0..(2^16 - 1)
Int32 == (-(2^30) - 2^30)..(2^30 - 1 + 2^30)

\* Offsets are those the batch has checked against SafeMaxOffset before they
\* are cut to 32 bits.
Message ==
    [typ : supervisory \cup {"EOFACK"}]
    \cup [typ : {"FINFOACK", "DATAACK", "EOF"}, offset : Int32]
    \cup [typ : {"DATA"}, offset : Int32, data : Seq(Byte)]
    \cup [typ : {"RPOS"}, offset : Int32, blocksize : Uint16, id : Int32]
    \cup [typ : {"DEVDATA"}, id : Int32, device : Seq(1..255), data : Seq(Byte)]
    \cup [typ : {"DEVDACK"}, id : Int32]

\* Four bytes, low first, of a number or of its two's complement.
le32(v) == [k \in 1..4 |-> (v \div 256^(k - 1)) % 256]

\* readLE32 as a signed number.  Ids and block sizes stay below 2^31.
int32(p, off) ==
    p[off] + 256 * p[off + 1] + 256^2 * p[off + 2]
        + 256^3 * (IF p[off + 3] < 128 THEN p[off + 3] ELSE p[off + 3] - 256)

marshalOffset(m) == le32(m.offset)
marshalData(m) == le32(m.offset) \o m.data
marshalRpos(m) == le32(m.offset) \o le32(m.blocksize) \o le32(m.id)
marshalDevData(m) == le32(m.id) \o m.device \o <<0>> \o m.data
marshalDevAck(m) == le32(m.id)

marshal(m) ==
    CASE m.typ \in {"FINFOACK", "DATAACK", "EOF"} -> marshalOffset(m)
      [] m.typ = "DATA" -> marshalData(m)
      [] m.typ = "RPOS" -> marshalRpos(m)
      [] m.typ = "DEVDATA" -> marshalDevData(m)
      [] m.typ = "DEVDACK" -> marshalDevAck(m)
      [] OTHER -> <<>>

\* The RPOS of the peers that follow the text of FSC-0072.
marshalWord(m) == le32(m.offset) \o SubSeq(le32(m.blocksize), 1, 2) \o le32(m.id)
payloads(m) == {marshal(m)} \cup (IF m.typ = "RPOS" THEN {marshalWord(m)} ELSE {})

malformed == {}
parseOffset(typ, p) ==
    IF Len(p) < 4 THEN malformed ELSE {[typ |-> typ, offset |-> int32(p, 1)]}
parseData(p) ==
    IF Len(p) < 4 THEN malformed
    ELSE {[typ |-> "DATA", offset |-> int32(p, 1), data |-> SubSeq(p, 5, Len(p))]}
parseRpos(p) ==
    CASE Len(p) = 12 -> {[typ |-> "RPOS", offset |-> int32(p, 1), blocksize |-> int32(p, 5),
                          id |-> int32(p, 9)]}
      [] Len(p) = 10 -> {[typ |-> "RPOS", offset |-> int32(p, 1),
                          blocksize |-> p[5] + 256 * p[6], id |-> int32(p, 7)]}
      [] OTHER -> malformed
parseDevData(p) ==
    LET nuls == {i \in 5..Len(p) : p[i] = 0} IN
    IF Len(p) < 5 \/ nuls = {} THEN malformed
    ELSE {[typ |-> "DEVDATA", id |-> int32(p, 1), device |-> SubSeq(p, 5, Min(nuls) - 1),
           data |-> SubSeq(p, Min(nuls) + 1, Len(p))]}
parseDevAck(p) ==
    IF Len(p) < 4 THEN malformed ELSE {[typ |-> "DEVDACK", id |-> int32(p, 1)]}

\* What the batch understands of a packet: one record, or nothing.
parse(typ, p) ==
    CASE typ \in {"FINFOACK", "DATAACK", "EOF"} -> parseOffset(typ, p)
      [] typ = "DATA" -> parseData(p)
      [] typ = "RPOS" -> parseRpos(p)
      [] typ = "DEVDATA" -> parseDevData(p)
      [] typ = "DEVDACK" -> parseDevAck(p)
      [] OTHER -> {[typ |-> typ]}

-----------------------------------------------------------------------------
fmtEnd == 97
fmtBIN == 98
fmtHEX == 99
fmtASC == 100
fmtUUE == 101

selectFormat(typ, opts) ==
    CASE typ \in supervisory -> fmtHEX
      [] typ \notin supervisory /\ "HI8" \notin opts -> fmtBIN
      [] OTHER -> IF {"CTL", "UUE"} \subseteq opts THEN fmtUUE
                  ELSE IF "ASC" \in opts THEN fmtASC ELSE fmtHEX

withCRC(body, format, opts) ==
    body \o (IF format # fmtHEX /\ "C32" \in opts THEN complement(crc32Compute(body), 4)
                                                  ELSE complement(crc16Compute(body), 2))

encode(body, format, opts) ==
    CASE format = fmtBIN -> binEncode(opts, body)
      [] format = fmtHEX -> hexEncode(body)
      [] format = fmtASC -> ascEncode(opts, body)
      [] format = fmtUUE -> uueEncode(body)

\* 221 and 222 stand for a break and a pause, 223 for a NUL.
putPrefix(prefix) ==
    FlattenSeq([i \in 1..Len(prefix) |->
        CASE prefix[i] \in {221, 222} -> <<>>
          [] prefix[i] = 223 -> <<0>>
          [] OTHER -> <<prefix[i]>>])

\* writePacket, for the format that selectFormat chose.
frame(typ, payload, format, opts, prefix) ==
    putPrefix(prefix) \o <<DLE, format>>
        \o encode(withCRC(Append(payload, typeByte(typ)), format, opts), format, opts)
        \o <<DLE, fmtEnd>>
        \o (IF typ # "DATA" /\ format # fmtBIN THEN <<charCR, charLF>> ELSE <<>>)

cancelCount == 8
writeCancel == [i \in 1..18 |-> IF i <= cancelCount THEN DLE ELSE charBS]

=============================================================================
