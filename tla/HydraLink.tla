------------------------------ MODULE HydraLink -----------------------------
(***************************************************************************)
(* One direction of a link: the frames an end writes (writer.go), a line   *)
(* that inserts flow-control and control bytes, sets parity bits and may   *)
(* damage a byte, and the reader (reader.go), one byte at a time, under    *)
(* the options of the moment: those assumed at first, the negotiated ones  *)
(* from the instant the event loop has handled the peer's INIT.  That no   *)
(* frame but the HEX ones is written before is HydraBatch's ModesFlipped.  *)
(***************************************************************************)
EXTENDS Negotiation, Packet

CONSTANTS
    Configs,         \* configurations of the two ends
    Messages,        \* what the writer sends first ...
    Probes,          \* ... and afterwards
    Foreign,         \* formats that a foreign writer uses besides its own choice
    PeerPrefixes,    \* packet prefixes that this reader's end asked for
    DamageTo,        \* what a damaged byte becomes; Lost: it vanishes
    Lost,
    DataBufMax,      \* 2048 in the code
    maxEncodedLen,   \* 6183 in the code
    MaxSent          \* bound: packets

maxPayloadSize == DataBufMax + 8
maxDecodedLen == maxPayloadSize + 1 + 4
detectCancelCount == 5

\* The buffers hold what the batch marshals and the longest an encoding makes
\* of it.  (Nothing in SendDevice enforces the first of a device name, which is
\* documented to have 3 characters.)
ASSUME LinkAssumption ==
    /\ Configs \subseteq Config
    /\ Messages \cup Probes \subseteq Message
    /\ \A m \in Messages \cup Probes : Len(marshal(m)) <= maxPayloadSize
    /\ Foreign \subseteq {fmtASC, fmtUUE}
    /\ PeerPrefixes \subseteq Seq(Byte)
    /\ DamageTo \subseteq Byte \cup {Lost} /\ Lost \notin Byte
    /\ DataBufMax \in Nat /\ maxEncodedLen \in Nat /\ 3 * maxDecodedLen <= maxEncodedLen

VARIABLES
    writerCfg, readerCfg,   \* the configurations of the two ends
    agreed,     \* the ends that have handled the other's INIT
    txOpts,     \* b.opts of the writer
    rxOpts,     \* s.rxOpts of the reader
    prefix,     \* b.prefix of the writer
    line,       \* bytes written and not yet read
    sent, got,  \* packets written, packets understood
    hit,        \* the packet that the line damaged, or 0
    cancelling, \* writeCancel has been called
    rx,         \* the reader's per-byte state
    heard       \* readPacket has returned ErrPeerCancel

link == <<writerCfg, readerCfg, agreed, txOpts, rxOpts, prefix>>
vars == <<link, line, sent, got, hit, cancelling, rx, heard>>

Init ==
    /\ writerCfg \in Configs /\ readerCfg \in Configs
    /\ agreed = {} /\ txOpts = {} /\ rxOpts = capAssumed
    /\ prefix \in PeerPrefixes
    /\ line = <<>> /\ sent = <<>> /\ got = <<>> /\ hit = 0 /\ cancelling = FALSE
    /\ rx = [dles |-> 0, format |-> fmtBIN, inPacket |-> FALSE, overflow |-> FALSE, body |-> <<>>]
    /\ heard = FALSE

-----------------------------------------------------------------------------
(* The writer.                                                             *)

WriterAgrees ==
    /\ "writer" \notin agreed /\ compatible(writerCfg, sendInit(readerCfg))
    /\ agreed' = agreed \cup {"writer"}
    /\ txOpts' = options(writerCfg, readerCfg)
    /\ UNCHANGED <<writerCfg, readerCfg, rxOpts, prefix, line, sent, got, hit, cancelling, rx, heard>>

\* It happens at any byte of a frame.
ReaderAgrees ==
    /\ "reader" \notin agreed /\ compatible(readerCfg, sendInit(writerCfg))
    /\ agreed' = agreed \cup {"reader"}
    /\ rxOpts' = options(readerCfg, writerCfg)
    /\ UNCHANGED <<writerCfg, readerCfg, txOpts, prefix, line, sent, got, hit, cancelling, rx, heard>>

formats(typ) ==
    {selectFormat(typ, txOpts)} \cup (IF typ \in supervisory THEN {} ELSE Foreign)

Write ==
    /\ line = <<>> /\ ~cancelling /\ Len(sent) < MaxSent
    /\ \E m \in IF sent = <<>> THEN Messages ELSE Probes :
        /\ m.typ \in supervisory \/ agreed = {"writer", "reader"}
        /\ sent' = Append(sent, m)
        /\ \E payload \in payloads(m), format \in formats(m.typ) :
            line' = frame(m.typ, payload, format, txOpts, prefix)
    /\ UNCHANGED <<link, got, hit, cancelling, rx, heard>>

Cancel ==
    /\ line = <<>> /\ ~cancelling
    /\ cancelling' = TRUE /\ line' = writeCancel
    /\ UNCHANGED <<link, sent, got, hit, rx, heard>>

-----------------------------------------------------------------------------
(* The reader.                                                             *)

\* The inbound noise filter.
eaten(c) ==
    LET n == masked(rxOpts, c) IN
    /\ n # DLE
    /\ \/ "XON" \in rxOpts /\ n \in {charXON, charXOF}
       \/ "CTL" \in rxOpts /\ control(n)

\* collect, on a reader state that other fields of may have changed too.
collect(r, c) ==
    IF ~r.inPacket \/ r.overflow THEN r
    ELSE IF Len(r.body) >= maxEncodedLen THEN [r EXCEPT !.overflow = TRUE]
    ELSE [r EXCEPT !.body = Append(@, c)]

\* (faulty variant) An escaped byte does not end a run of DLEs.
afterEscapeCounted(r) == r

afterEscape(r) == [r EXCEPT !.dles = 0]

decode(format, body) ==
    CASE format = fmtBIN -> body
      [] format = fmtHEX -> hexDecode(body)
      [] format = fmtASC -> ascDecode(body)
      [] format = fmtUUE -> uueDecode(body)

\* (faulty variant) The CRC is CRC-32 in every format once C32 is on.
use32Always(format) == "C32" \in rxOpts

\* HEX is always CRC-16.
use32(format) == format # fmtHEX /\ "C32" \in rxOpts

crcGood(format, decoded) ==
    IF use32(format) THEN crc32Compute(decoded) = crc32Test ELSE crc16Compute(decoded) = crc16Test

\* The packet that finishPacket makes of the body collected, if any.
finished ==
    LET decoded == decode(rx.format, rx.body)
        crcLen == IF use32(rx.format) THEN 4 ELSE 2
        end == Len(decoded) - crcLen IN
    IF /\ rx.inPacket /\ ~rx.overflow /\ decoded # bad
       /\ Len(decoded) <= maxDecodedLen /\ end >= 1
       /\ crcGood(rx.format, decoded) /\ decoded[end] - 64 \in DOMAIN types
    THEN parse(types[decoded[end] - 64], SubSeq(decoded, 1, end - 1))
    ELSE {}

\* readPacket takes one byte off the transport.
ReadByte(byte) ==
    LET c == IF "HI8" \in rxOpts THEN strip(byte) ELSE byte
        marked == rx.dles > 0 \/ c = DLE IN
    \/ eaten(c) /\ UNCHANGED <<rx, got, heard>>
    \/ /\ ~eaten(c) /\ c = DLE
       /\ heard' = (rx.dles + 1 >= detectCancelCount)
       /\ rx' = [rx EXCEPT !.dles = IF heard' THEN 0 ELSE @ + 1]
       /\ UNCHANGED got
    \/ /\ ~eaten(c) /\ marked /\ c \in fmtBIN..fmtUUE
       /\ rx' = [dles |-> 0, format |-> c, inPacket |-> TRUE, overflow |-> FALSE, body |-> <<>>]
       /\ UNCHANGED <<got, heard>>
    \/ /\ ~eaten(c) /\ marked /\ c = fmtEnd
       /\ rx' = [rx EXCEPT !.inPacket = FALSE, !.overflow = FALSE, !.body = <<>>]
       /\ \/ finished = {} /\ UNCHANGED got
          \/ \E m \in finished : got' = Append(got, m)
       /\ UNCHANGED heard
    \/ /\ ~eaten(c) /\ marked /\ c # DLE /\ c \notin fmtEnd..fmtUUE
       /\ rx' = afterEscape(collect(rx, flip(c)))
       /\ UNCHANGED <<got, heard>>
    \/ /\ ~eaten(c) /\ ~marked
       /\ rx' = collect(rx, c)
       /\ UNCHANGED <<got, heard>>

\* A link that forces parity has had HI8 negotiated, or is not yet told.
Read ==
    /\ line # <<>> /\ ~heard
    /\ \E byte \in {Head(line)} \cup (IF "HI8" \in rxOpts THEN {strip(Head(line)) + 128} ELSE {}) :
        ReadByte(byte)
    /\ line' = Tail(line)
    /\ UNCHANGED <<link, sent, hit, cancelling>>

\* The bytes a link may insert, for the escapes in effect at the reader.
noise ==
    LET plain == (IF "XON" \in rxOpts THEN {charXON, charXOF} ELSE {})
                 \cup (IF "CTL" \in rxOpts THEN {0, charCR, 127} ELSE {})
    IN plain \cup (IF "HIC" \in rxOpts THEN {128 + c : c \in plain} ELSE {})

Noise ==
    /\ ~heard
    /\ \E byte \in noise : ReadByte(byte)
    /\ UNCHANGED <<link, line, sent, hit, cancelling>>

\* The line damages one byte of a frame.
Damage ==
    /\ line # <<>> /\ hit = 0 /\ ~cancelling /\ ~heard
    /\ hit' = Len(sent)
    /\ \E c \in DamageTo : line' = (IF c = Lost THEN <<>> ELSE <<c>>) \o Tail(line)
    /\ UNCHANGED <<link, sent, got, cancelling, rx, heard>>

Next ==
    \/ WriterAgrees \/ ReaderAgrees \/ Write \/ Cancel
    \/ Read \/ Noise \/ Damage

Spec == Init /\ [][Next]_vars

-----------------------------------------------------------------------------
(* Properties.                                                             *)

\* The batch understands what was sent, in order and with nothing missing,
\* whatever the link inserts and wherever in a frame the options change; a
\* damaged byte costs at most the packet it is in, never a later one and
\* never a packet that was not sent (writePacket, readPacket).
Delivered ==
    \E s \in {sent} \cup (IF hit > 0 THEN {RemoveAt(sent, hit)} ELSE {}) :
        /\ IsPrefix(got, s)
        /\ line = <<>> => got = s

\* The reader reports a cancel only if the peer sent the sequence, whatever
\* DLEs data and noise put on the line, and always if it did (writeCancel,
\* detectCancelCount).
CancelExact ==
    /\ heard => cancelling
    /\ cancelling /\ line = <<>> => heard

\* Negotiated as Negotiation promises.
OptionsAgree == SameOptions(writerCfg, readerCfg) /\ (agreed = {"writer", "reader"} => txOpts = rxOpts)
WindowsServed == WindowServed(writerCfg, readerCfg) /\ WindowServed(readerCfg, writerCfg)

=============================================================================
