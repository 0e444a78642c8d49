----------------------------- MODULE HydraBatch -----------------------------
(***************************************************************************)
(* One Hydra batch between two peers running this library: the TX, RX and  *)
(* DEV state machines of `batch' (session.go, tx.go, rx.go, dev.go), one   *)
(* pair of them per peer, joined by a link that keeps packets in order and *)
(* may corrupt them (a corrupted packet fails its CRC and is dropped by    *)
(* the reader).                                                            *)
(*                                                                         *)
(* Every field of the Go struct that steers control is a field of the      *)
(* records tx[p], rx[p], dev[p], under its Go name without the machine's   *)
(* prefix (txState is tx[p].state).  File contents are measured in units;  *)
(* a timer is armed or not, and time itself is nondeterminism.             *)
(*                                                                         *)
(* Definitions marked "(faulty variant)" are no part of the model: each is *)
(* the definition after it with a bug in it, and shows that a property     *)
(* would notice that bug.                                                  *)
(***************************************************************************)
EXTENDS Integers, Sequences

CONSTANTS
    ORG, ANS,      \* the originator and the answerer
    File,          \* every file either peer may offer
    NoFile, EOB,   \* nil, and the end-of-batch FINFO
    Offers,        \* [Peer -> Seq(File)]: what NextFile returns, in order
    Size,          \* [File -> Nat]: the announced (advisory) size
    Actual,        \* [File -> Nat]: how much the source really holds
    SafeMax,       \* SafeMaxOffset, in units
    BadOffer,      \* offers with an unusable size or no Reader
    ReadFails,     \* files whose source may return a read error
    WriteFails,    \* files whose destination may return a write error
    NoSeek,        \* files whose source cannot seek, or fails to
    ResumeAt,      \* offsets AcceptFile may return
    RefuseWith,    \* errors AcceptFile may return, out of {"Skip", "Defer"}
    Window,        \* [Peer -> Nat]: each peer's TX window once negotiated
    DevOn,         \* whether the DEV capability is negotiated
    MaxDev,        \* bound: SendDevice calls of each peer
    DevQCap,       \* capacity of the devQ channel
    MaxRetries,    \* Config.MaxRetries
    HdxBurst,      \* unanswered RPOS before the one-way fallback (4 in the code)
    MaxBlock,      \* largest DATA block, in units
    MaxInFlight,   \* bound: packets on the wire towards one peer
    MaxLoss,       \* bound: packets corrupted in the whole batch
    MayFail,       \* peers that may be cancelled, aborted or cut off
    Hasty          \* TX states whose timer may beat an answer still in flight

Peer == {ORG, ANS}
Other(p) == IF p = ORG THEN ANS ELSE ORG

TxState == {"Start", "Swait", "Init", "InitAck", "Rinit", "Finfo", "FinfoAck",
            "Xdata", "DataAck", "Xwait", "EOF", "EOFAck", "Rend", "End",
            "EndAck", "Done"}
RxState == {"Init", "Finfo", "Data", "Done"}
DevState == {"Done", "Data", "Dack"}

\* The range checks the order of the txState constants is there for.
BeforeFinfo == {"Start", "Swait", "Init", "InitAck", "Rinit"}
FromEnd == {"End", "EndAck", "Done"}
BeforeRend == TxState \ (FromEnd \cup {"Rend"})

\* What FileCompleted may report; "nil" is success.
Outcome == {"nil", "Skip", "Defer", "TooLarge", "Range", "Read", "Write",
            "SenderSkip", "Aborted"}

ackHaveFile == -1
ackDefer == -2
offsetSkip == -2

\* HdxBurst, MaxRetries and SafeMax are scaled down by the models; nothing
\* in the code depends on their exact values.
ASSUME PeerAssumption == ORG # ANS
ASSUME MarkerAssumption == NoFile \notin File /\ EOB \notin File /\ NoFile # EOB
ASSUME OfferAssumption ==
    /\ Offers \in [Peer -> Seq(File)]
    /\ \A p, q \in Peer : \A i \in 1..Len(Offers[p]), j \in 1..Len(Offers[q]) :
            Offers[p][i] = Offers[q][j] => p = q /\ i = j
ASSUME FileAssumption ==
    /\ Size \in [File -> Nat] /\ Actual \in [File -> Nat] /\ SafeMax \in Nat
    /\ BadOffer \subseteq File /\ ReadFails \subseteq File
    /\ WriteFails \subseteq File /\ NoSeek \subseteq File
    /\ \A f \in File \ BadOffer : Size[f] <= SafeMax
ASSUME HandlerAssumption == ResumeAt \subseteq Nat /\ RefuseWith \subseteq {"Skip", "Defer"}
ASSUME BoundAssumption ==
    /\ Window \in [Peer -> Nat] /\ DevOn \in BOOLEAN
    /\ MaxDev \in [Peer -> Nat] /\ DevQCap \in Nat /\ MaxRetries \in Nat \ {0}
    /\ HdxBurst \in Nat /\ MaxBlock \in Nat /\ MaxInFlight \in Nat
    /\ MaxLoss \in Nat /\ MayFail \subseteq Peer /\ Hasty \subseteq TxState \cup {"Dack"}

VARIABLES
    tx,      \* [Peer -> TX machine]
    rx,      \* [Peer -> RX machine]
    dev,     \* [Peer -> DEV machine, with the session's devQ]
    net,     \* [Peer -> Seq(packet)]: packets on their way to, or queued at, the peer
    res,     \* [Peer -> {"run", "ok", "err"}]: what Run returned
    lost,    \* packets corrupted so far
    sDone,   \* [File -> Seq(Outcome)]: SendHandler.FileCompleted calls
    rDone,   \* [File -> Seq(Outcome)]: RecvHandler.FileCompleted calls
    opened,  \* the files AcceptFile returned a writer for
    got,     \* [File -> Seq(unit)]: what that writer holds
    devGot   \* [Peer -> Seq(Nat)]: OnDeviceData calls

files == <<sDone, rDone, opened, got>>
vars == <<tx, rx, dev, net, res, lost, sDone, rDone, opened, got, devGot>>

-----------------------------------------------------------------------------
(* Packets: one record shape for all types.  f is the file a FINFO names   *)
(* or the file a DATA block was read from; the other packets do not name   *)
(* a file on the wire (RPOS carries it only for SyncIdFresh to look at).   *)

Pkt(t, f, off, n, id) == [t |-> t, f |-> f, off |-> off, n |-> n, id |-> id]
Ctl(t) == Pkt(t, NoFile, 0, 0, 0)
OffPkt(t, off) == Pkt(t, NoFile, off, 0, 0)

PktType == {"START", "INIT", "INITACK", "FINFO", "FINFOACK", "DATA", "DATAACK",
            "RPOS", "EOF", "EOFACK", "IDLE", "END", "DEVDATA", "DEVDACK"}
Packet == {k \in [t : PktType, f : File \cup {NoFile, EOB}, off : Int, n : Nat, id : Nat] :
            /\ k.t = "FINFO" => k.f # NoFile
            /\ k.t # "FINFO" => k.f # EOB
            /\ k.t = "DATA" => k.f \in File
            /\ k.t \in {"DATA", "DEVDATA"} => k.off >= 0}

\* Packets are only delivered to a peer whose Run is active.
Deliver(n, p, out) ==
    [n EXCEPT ![Other(p)] = IF res[Other(p)] = "run" THEN @ \o out ELSE <<>>]

Complete(done, f, outcome) == [done EXCEPT ![f] = Append(@, outcome)]

\* Unit i of file f, and the prefix of f of length n.
Content(f, from, n) == [i \in 1..n |-> <<f, from + i>>]

-----------------------------------------------------------------------------
(* The per-batch state.                                                    *)

newTx == [state |-> "Start", retries |-> 0, timer |-> FALSE, syncID |-> 0,
          offer |-> NoFile, pos |-> 0, skip |-> FALSE, err |-> "nil",
          eob |-> FALSE, lastFinfo |-> NoFile, lastAck |-> 0, window |-> 0,
          peerAcked |-> FALSE, hdxlink |-> FALSE, finfoAckWait |-> FALSE,
          eofAckWait |-> FALSE, next |-> 1, syncFile |-> NoFile]

newRx == [state |-> "Init", open |-> FALSE, file |-> NoFile, pos |-> 0,
          retries |-> 0, syncID |-> 0, lastSync |-> 0, timer |-> FALSE,
          refused |-> NoFile, refusedAck |-> 0]

newDev == [state |-> "Done", retries |-> 0, timer |-> FALSE, txID |-> 0,
           rxID |-> 0, pending |-> 0, queue |-> <<>>, devQ |-> <<>>, asked |-> 0]

Init ==
    /\ tx = [p \in Peer |-> newTx]
    /\ rx = [p \in Peer |-> newRx]
    /\ dev = [p \in Peer |-> newDev]
    /\ net = [p \in Peer |-> <<>>]
    /\ res = [p \in Peer |-> "run"]
    /\ lost = 0
    /\ sDone = [f \in File |-> <<>>]
    /\ rDone = [f \in File |-> <<>>]
    /\ opened = {}
    /\ got = [f \in File |-> <<>>]
    /\ devGot = [p \in Peer |-> <<>>]

-----------------------------------------------------------------------------
(* sync: the cross-machine transitions run after every packet and at the   *)
(* end of every pass of the event loop.                                    *)

Advance(t, s) == [t EXCEPT !.timer = FALSE, !.retries = 0, !.state = s]
Await(t, s) == [t EXCEPT !.timer = TRUE, !.state = s]

\* (faulty variant) The receive side is forgotten.
endGateTxOnly(r, d) == d.state = "Done"

\* What leaving htxRend waits for.
endGate(r, d) == r.state = "Done" /\ d.state = "Done"

sync(t, r, d) ==
    CASE t.state \in {"Start", "Swait"} /\ r.state # "Init" -> Advance(t, "Init")
      [] t.state = "Rinit" /\ r.state # "Init" -> Advance(t, "Finfo")
      [] t.state = "Xdata" /\ t.hdxlink /\ r.state # "Done" -> Await(t, "Xwait")
      [] t.state = "Xwait" /\ r.state = "Done" -> Advance(t, "Xdata")
      [] t.state = "Rend" /\ endGate(r, d) -> Advance(t, "End")
      [] OTHER -> t

\* The end of a step that leaves p's Run active: n is net as p leaves it
\* before its own packets `out' are written.
Continue(p, n, t, r, d, out) ==
    /\ tx' = [tx EXCEPT ![p] = sync(t, r, d)]
    /\ rx' = [rx EXCEPT ![p] = r]
    /\ dev' = [dev EXCEPT ![p] = d]
    /\ net' = Deliver(n, p, out)
    /\ UNCHANGED <<res, lost>>

\* The end of p's Run, with the deferred teardown: an open receive file and
\* a pending offer are completed with the error.  The inbox goes with it.
Finish(p, result, t, r, d, out) ==
    /\ tx' = [tx EXCEPT ![p] = [t EXCEPT !.offer = NoFile]]
    /\ rx' = [rx EXCEPT ![p] = [r EXCEPT !.open = FALSE]]
    /\ dev' = [dev EXCEPT ![p] = d]
    /\ net' = [Deliver(net, p, out) EXCEPT ![p] = <<>>]
    /\ res' = [res EXCEPT ![p] = result]
    /\ sDone' = IF t.offer = NoFile THEN sDone ELSE Complete(sDone, t.offer, "Aborted")
    /\ rDone' = IF r.open THEN Complete(rDone, r.file, "Aborted") ELSE rDone
    /\ UNCHANGED <<lost, opened, got, devGot>>

-----------------------------------------------------------------------------
(* The event loop's pass: devAction, txAction, sync.  t and d are the TX   *)
(* and DEV machines the pass starts from (fireTimers may just have changed *)
(* them) and pre what fireTimers wrote.                                    *)

promoted(d) ==
    [d EXCEPT !.queue = Tail(@), !.txID = @ + 1, !.pending = Head(d.queue), !.state = "Data"]
dropped(d) == [d EXCEPT !.pending = 0, !.state = "Done"]
inFlight(d) == [d EXCEPT !.timer = TRUE, !.state = "Dack"]

devPromote(d) ==
    IF d.state = "Done" /\ d.pending = 0 /\ d.queue # <<>> THEN promoted(d) ELSE d

\* (faulty variant) The gate closes one state early.
devEligibleEarly(t, d) ==
    devPromote(d).state = "Data" /\ t.state \notin BeforeFinfo \cup FromEnd \cup {"Rend"}

\* Whether devAction gets as far as the capability check.
devEligible(t, d) ==
    devPromote(d).state = "Data" /\ t.state \notin BeforeFinfo \cup FromEnd

devAction(t, d) ==
    CASE ~devEligible(t, d) -> devPromote(d)
      [] devEligible(t, d) /\ ~DevOn -> dropped(devPromote(d))
      [] OTHER -> inFlight(devPromote(d))

devSends(t, d) ==
    IF devEligible(t, d) /\ DevOn
    THEN <<Pkt("DEVDATA", NoFile, devPromote(d).pending, 0, devPromote(d).txID)>>
    ELSE <<>>

\* What every txAction ends with.
Sent(p, t0, d0, t, pre, out) ==
    /\ Continue(p, net, t, rx[p], devAction(t0, d0), pre \o devSends(t0, d0) \o out)
    /\ UNCHANGED <<rDone, opened, got, devGot>>

sendStart(p, t, d, pre) ==
    /\ t.state = "Start"
    /\ Sent(p, t, d, Await(t, "Swait"), pre, <<Ctl("START")>>)
    /\ UNCHANGED sDone

sendInit(p, t, d, pre) ==
    /\ t.state = "Init"
    /\ Sent(p, t, d, Await(t, "InitAck"), pre, <<Ctl("INIT")>>)
    /\ UNCHANGED sDone

\* What txAction leaves behind once the FINFO is written.
announced(t) == [t EXCEPT !.finfoAckWait = TRUE, !.timer = TRUE, !.state = "FinfoAck"]

\* A retry repeats the cached payload.
resendFinfo(p, t, d, pre) ==
    /\ t.state = "Finfo" /\ t.lastFinfo # NoFile
    /\ Sent(p, t, d, announced(t), pre, <<Pkt("FINFO", t.lastFinfo, 0, 0, 0)>>)
    /\ UNCHANGED sDone

\* Where NextFile's answers may stop the pull: at the first usable offer, or
\* one past the end when it runs dry.
pullsTo(p, t) ==
    IF t.offer # NoFile THEN {t.next - 1}
    ELSE {j \in t.next..(Len(Offers[p]) + 1) :
            /\ \A k \in t.next..(j - 1) : Offers[p][k] \in BadOffer
            /\ j <= Len(Offers[p]) => Offers[p][j] \notin BadOffer}

\* The new FINFO: of the end of the batch, or of an offer.
endOfBatch(t, j) == [t EXCEPT !.eob = TRUE, !.lastFinfo = EOB, !.next = j]
newOffer(t, o, j) ==
    [t EXCEPT !.eob = FALSE, !.offer = o, !.pos = 0, !.skip = FALSE, !.err = "nil",
              !.lastFinfo = o, !.next = j + 1]

\* The offers rejected on the way are completed on the spot ("TooLarge" also
\* stands for ErrHandlerContract).
sendFinfo(p, t, d, pre) ==
    /\ t.state = "Finfo" /\ t.lastFinfo = NoFile
    /\ \E j \in pullsTo(p, t) :
        LET u == IF j > Len(Offers[p]) THEN endOfBatch(t, j) ELSE newOffer(t, Offers[p][j], j)
        IN /\ Sent(p, t, d, announced(u), pre, <<Pkt("FINFO", u.lastFinfo, 0, 0, 0)>>)
           /\ sDone' = [f \in File |->
                IF \E k \in t.next..(j - 1) : Offers[p][k] = f
                THEN Append(sDone[f], "TooLarge") ELSE sDone[f]]

\* A file's remainder is given up: the EOF will carry offsetSkip.
skipFile(t, e) == [t EXCEPT !.err = e, !.skip = TRUE, !.state = "EOF"]

\* sendData with nothing to send: the file was skipped, its source is at its
\* end, fails, or outgrew the offset range.
sendNoData(p, t, d, pre) ==
    /\ t.state = "Xdata"
    /\ \/ /\ t.skip \/ t.pos >= Actual[t.offer]
          /\ Sent(p, t, d, [t EXCEPT !.state = "EOF"], pre, <<>>)
       \/ /\ ~t.skip /\ t.offer \in ReadFails
          /\ Sent(p, t, d, skipFile(t, "Read"), pre, <<>>)
       \/ /\ ~t.skip
          /\ \E n \in 1..MaxBlock :
                /\ t.pos + n <= Actual[t.offer]
                /\ t.pos + n > SafeMax
          /\ Sent(p, t, d, skipFile(t, "TooLarge"), pre, <<>>)
    /\ UNCHANGED sDone

\* (faulty variant) The limit is off by one.
windowFullLate(t) == t.window > 0 /\ t.pos > t.lastAck + t.window

windowFull(t) == t.window > 0 /\ t.pos >= t.lastAck + t.window

sendData(p, t, d, pre) ==
    /\ t.state = "Xdata" /\ ~t.skip
    /\ Len(net[Other(p)]) < MaxInFlight
    /\ \E n \in 1..MaxBlock :
        LET u == [t EXCEPT !.pos = @ + n] IN
        /\ u.pos <= Actual[t.offer] /\ u.pos <= SafeMax
        /\ Sent(p, t, d,
                IF windowFull(u) THEN Await(u, "DataAck") ELSE u, pre,
                <<Pkt("DATA", t.offer, t.pos, n, 0)>>)
    /\ UNCHANGED sDone

eofSent(t) == [t EXCEPT !.eofAckWait = TRUE, !.timer = TRUE, !.state = "EOFAck"]

sendEOF(p, t, d, pre) ==
    /\ t.state = "EOF"
    /\ Sent(p, t, d, eofSent(t), pre,
            <<OffPkt("EOF", IF t.skip THEN offsetSkip ELSE t.pos)>>)
    /\ UNCHANGED sDone

sendEnd(p, t, d, pre) ==
    /\ t.state = "End"
    /\ Sent(p, t, d, Await(t, "EndAck"), pre, <<Ctl("END"), Ctl("END")>>)
    /\ UNCHANGED sDone

\* The states txAction acts in.
Sending == {"Start", "Init", "Finfo", "Xdata", "EOF", "End"}

\* The wait states: only devAction and what fireTimers did.
sendNothing(p, t, d, pre) ==
    /\ t.state \notin Sending
    /\ Sent(p, t, d, t, pre, <<>>)
    /\ UNCHANGED sDone

Pass(p, t, d, pre) ==
    \/ sendStart(p, t, d, pre)
    \/ sendInit(p, t, d, pre)
    \/ resendFinfo(p, t, d, pre)
    \/ sendFinfo(p, t, d, pre)
    \/ sendNoData(p, t, d, pre)
    \/ sendData(p, t, d, pre)
    \/ sendEOF(p, t, d, pre)
    \/ sendEnd(p, t, d, pre)
    \/ sendNothing(p, t, d, pre)

\* A pass that no timer provoked; passes that change nothing are left out.
HasWork(p) ==
    /\ res[p] = "run"
    /\ tx[p].state \in Sending \/ devAction(tx[p], dev[p]) # dev[p]

Loop(p) ==
    /\ HasWork(p)
    /\ Pass(p, tx[p], dev[p], <<>>)

-----------------------------------------------------------------------------
(* fireTimers.  A timer may expire while its answer is still on the wire,  *)
(* or while a peer has yet to act, only in the states of Hasty ("Dack" for *)
(* the device timer): for the others an answer that arrives at all is      *)
(* assumed to arrive in time.                                              *)

Quiet == \A p \in Peer : net[p] = <<>> /\ ~HasWork(p)

\* Where a timeout goes back to.
Retried(s) ==
    CASE s = "Swait" -> "Start"     [] s = "InitAck" -> "Init"
      [] s = "FinfoAck" -> "Finfo"  [] s = "DataAck" -> "Xdata"
      [] s = "EOFAck" -> "EOF"      [] s = "EndAck" -> "End"
      [] OTHER -> s

\* (faulty variant) States that must retry only emit IDLE.
IdlingTooOften(t) == t.state \in {"Xwait", "EOFAck", "Rend", "EndAck"}

Idling(t) == t.state \in {"Xwait", "Rend"}
WindowIgnored(t) == t.state = "DataAck" /\ ~t.peerAcked
TxExhausted(t) == ~Idling(t) /\ ~WindowIgnored(t) /\ t.retries >= MaxRetries

dropWindow(t) == [t EXCEPT !.timer = FALSE, !.window = 0, !.state = "Xdata"]
retry(t) == [t EXCEPT !.timer = FALSE, !.retries = @ + 1, !.state = Retried(@)]

txTimeout(t) ==
    CASE Idling(t) -> t
      [] WindowIgnored(t) -> dropWindow(t)
      [] OTHER -> retry(t)

devTimeout(d) ==
    [d EXCEPT !.timer = FALSE, !.retries = @ + 1,
              !.state = IF @ = "Dack" THEN "Data" ELSE @]

\* An expired timer acts and the next pass follows before anything else.
fireTimers(p) ==
    /\ res[p] = "run"
    /\ \E fired \in SUBSET {"tx", "dev"} \ {{}} :
        LET t == IF "tx" \in fired THEN txTimeout(tx[p]) ELSE tx[p]
            d == IF "dev" \in fired THEN devTimeout(dev[p]) ELSE dev[p]
            gaveUp == \/ "tx" \in fired /\ TxExhausted(tx[p]) /\ tx[p].state # "EndAck"
                      \/ "dev" \in fired /\ dev[p].retries >= MaxRetries
            left == ~gaveUp /\ "tx" \in fired /\ TxExhausted(tx[p])
        IN /\ "tx" \in fired => tx[p].timer /\ (Quiet \/ tx[p].state \in Hasty)
           /\ "dev" \in fired => dev[p].timer /\ (Quiet \/ "Dack" \in Hasty)
           /\ Len(net[Other(p)]) < MaxInFlight
           /\ \/ gaveUp /\ Finish(p, "err", tx[p], rx[p], dev[p], <<>>)
              \/ left /\ Finish(p, "ok", [tx[p] EXCEPT !.state = "Done"], rx[p], dev[p], <<>>)
              \/ /\ ~gaveUp /\ ~left
                 /\ Pass(p, t, d, IF "tx" \in fired /\ Idling(tx[p])
                                  THEN <<Ctl("IDLE")>> ELSE <<>>)

-----------------------------------------------------------------------------
(* handlePacket: one action per packet type, each followed by sync.        *)

Hears(p, type) == res[p] = "run" /\ net[p] # <<>> /\ Head(net[p]).t = type
Taken(p) == [net EXCEPT ![p] = Tail(@)]

Handled(p, t, r, d, out) == Continue(p, Taken(p), t, r, d, out)

handleStart(p) ==
    /\ Hears(p, "START")
    /\ Handled(p, IF tx[p].state \in {"Start", "Swait"} THEN Advance(tx[p], "Init") ELSE tx[p],
               rx[p], dev[p], <<>>)
    /\ UNCHANGED <<files, devGot>>

\* negotiate succeeds: the two ends are compatible.  Its effect on this
\* module's state is the TX window.
rxInit(p) ==
    /\ Hears(p, "INIT")
    /\ LET first == rx[p].state = "Init" IN
       Handled(p, IF first THEN [tx[p] EXCEPT !.window = Window[p]] ELSE tx[p],
               IF first THEN [rx[p] EXCEPT !.state = "Finfo"] ELSE rx[p],
               dev[p], <<Ctl("INITACK")>>)
    /\ UNCHANGED <<files, devGot>>

\* (faulty variant) Past the RINIT sync point at once.
handleInitAckUngated(p) ==
    /\ Hears(p, "INITACK")
    /\ Handled(p, IF tx[p].state \in {"Init", "InitAck"} THEN Advance(tx[p], "Finfo") ELSE tx[p],
               rx[p], dev[p], <<>>)
    /\ UNCHANGED <<files, devGot>>

handleInitAck(p) ==
    /\ Hears(p, "INITACK")
    /\ Handled(p, IF tx[p].state \in {"Init", "InitAck"} THEN Advance(tx[p], "Rinit") ELSE tx[p],
               rx[p], dev[p], <<>>)
    /\ UNCHANGED <<files, devGot>>

-----------------------------------------------------------------------------
(* The RX machine.                                                         *)

\* (faulty variant) The refusal cache is never consulted.
refusedBeforeNever(r, f) == FALSE

\* A retransmit of the announcement last refused.
refusedBefore(r, f) == f = r.refused

\* The answers that leave the handler out of it: end of batch, a repeat of
\* the announcement last refused, and every state but hrxFinfo.
rxFinfo(p) ==
    LET f == Head(net[p]).f
        r == rx[p]
        ack == CASE r.state = "Finfo" /\ f = EOB -> 0
                 [] r.state = "Finfo" /\ f # EOB -> r.refusedAck
                 [] r.state = "Data" -> r.pos
                 [] r.state = "Done" /\ f # EOB -> ackDefer
                 [] OTHER -> 0
    IN /\ Hears(p, "FINFO")
       /\ r.state = "Finfo" => f = EOB \/ refusedBefore(r, f)
       /\ Handled(p, tx[p], IF r.state = "Finfo" /\ f = EOB THEN [r EXCEPT !.state = "Done"] ELSE r,
                  dev[p], <<OffPkt("FINFOACK", ack)>>)
       /\ UNCHANGED <<files, devGot>>

\* A file refused, and a file open.
refusing(r, f, ack) == [r EXCEPT !.refused = f, !.refusedAck = ack]
receiving(r, f, off) ==
    [r EXCEPT !.open = TRUE, !.file = f, !.pos = off, !.retries = 0, !.syncID = 0,
              !.lastSync = 0, !.timer = FALSE, !.state = "Data", !.refused = NoFile]

\* A new announcement: AcceptFile decides, and a refusal (its own, or of an
\* offset that cannot be) completes the file at once.  "Defer" stands for
\* every error but ErrSkip, the missing writer included.  Not modelled: a
\* FINFO that does not parse or announces a size beyond SafeMaxOffset, which is
\* refused before the handler is asked; sendFinfo announces none.
acceptFinfo(p) ==
    LET f == Head(net[p]).f
        r == rx[p]
        Refuse(outcome, ack) ==
            /\ Handled(p, tx[p], refusing(r, f, ack), dev[p], <<OffPkt("FINFOACK", ack)>>)
            /\ rDone' = Complete(rDone, f, outcome)
            /\ UNCHANGED <<sDone, opened, got, devGot>>
    IN /\ Hears(p, "FINFO")
       /\ r.state = "Finfo" /\ f # EOB /\ ~refusedBefore(r, f)
       /\ \/ \E e \in RefuseWith : Refuse(e, IF e = "Skip" THEN ackHaveFile ELSE ackDefer)
          \/ \E off \in ResumeAt :
                /\ off > SafeMax \/ (Size[f] > 0 /\ off > Size[f])
                /\ Refuse("Range", ackDefer)
          \/ \E off \in ResumeAt :
                /\ ~(off > SafeMax \/ (Size[f] > 0 /\ off > Size[f]))
                /\ Handled(p, tx[p], receiving(r, f, off), dev[p], <<OffPkt("FINFOACK", off)>>)
                /\ opened' = opened \cup {f}
                /\ got' = [got EXCEPT ![f] = Content(f, 0, off)]
                /\ UNCHANGED <<sDone, rDone, devGot>>

\* A position out of place, at or before the last such one (the sender went
\* back) or beyond it; and the RPOS that asks for the right one.
strayed(r, off) ==
    [r EXCEPT !.lastSync = off, !.timer = @ /\ off > r.lastSync,
              !.retries = IF off > r.lastSync THEN @ ELSE 0]
asking(r, tries) ==
    [r EXCEPT !.retries = tries, !.syncID = IF tries = 1 THEN @ + 1 ELSE @, !.timer = TRUE]

\* The out-of-sync machinery shared by DATA and EOF.  An armed rxTimer may
\* have expired or not.
badPosition(p, off, isEOF) ==
    LET t == tx[p]
        r == strayed(rx[p], off)
        oneWay == /\ ~isEOF /\ r.retries > HdxBurst /\ t.state \in BeforeRend
                  /\ p = ANS /\ ~t.hdxlink
        tries == IF oneWay THEN 1 ELSE r.retries + 1
        u == asking(r, tries)
    IN \/ r.timer /\ Handled(p, t, r, dev[p], <<>>) /\ UNCHANGED <<files, devGot>>
       \/ tries > MaxRetries /\ Finish(p, "err", t, r, dev[p], <<>>)
       \/ /\ tries <= MaxRetries
          /\ Handled(p, [t EXCEPT !.hdxlink = @ \/ oneWay], u, dev[p],
                     <<Pkt("RPOS", u.file, u.pos, 0, u.syncID)>>)
          /\ UNCHANGED <<files, devGot>>

\* (faulty variant) Blocks from further on are taken too.
inPlaceOrAhead(r, k) == k.off >= r.pos

inPlace(r, k) == k.off = r.pos

\* (faulty variant) The writer that failed stays open.
skippingOpen(r) ==
    [r EXCEPT !.pos = offsetSkip, !.retries = 1, !.syncID = @ + 1, !.timer = TRUE]

\* The file is given up, and a block taken.
skipping(r) ==
    [r EXCEPT !.open = FALSE, !.pos = offsetSkip, !.retries = 1, !.syncID = @ + 1,
              !.timer = TRUE]
taking(r, n) ==
    [r EXCEPT !.retries = 0, !.timer = FALSE, !.lastSync = r.pos, !.pos = @ + n]

\* The answer to a block taken, for a sender with a window.
dataAck(p, pos) == IF Window[Other(p)] > 0 THEN <<OffPkt("DATAACK", pos)>> ELSE <<>>

\* A block in place is written; a writer that fails closes the file and asks
\* the sender to skip it.  Not modelled: the same for a position beyond
\* SafeMaxOffset, where sendData, which checks it first, never gets a receiver.
rxData(p) ==
    LET k == Head(net[p])
        r == rx[p]
        u == skipping(r)
    IN /\ Hears(p, "DATA")
       /\ \/ /\ r.state # "Data"
             /\ Handled(p, tx[p], r, dev[p], <<>>)
             /\ UNCHANGED <<files, devGot>>
          \/ r.state = "Data" /\ ~inPlace(r, k) /\ badPosition(p, k.off, FALSE)
          \/ /\ r.state = "Data" /\ inPlace(r, k)
             /\ r.open /\ r.file \in WriteFails
             /\ Handled(p, tx[p], u, dev[p], <<Pkt("RPOS", u.file, u.pos, 0, u.syncID)>>)
             /\ rDone' = Complete(rDone, r.file, "Write")
             /\ UNCHANGED <<sDone, opened, got, devGot>>
          \/ /\ r.state = "Data" /\ inPlace(r, k)
             /\ Handled(p, tx[p], taking(r, k.n), dev[p],
                        dataAck(p, r.pos + k.n))
             /\ got' = IF r.open THEN [got EXCEPT ![r.file] = @ \o Content(k.f, k.off, k.n)] ELSE got
             /\ UNCHANGED <<sDone, rDone, opened, devGot>>

\* The file is over.
closing(r, off) == [r EXCEPT !.open = FALSE, !.pos = off, !.state = "Finfo"]

rxEOF(p) ==
    LET off == Head(net[p]).off
        r == rx[p]
        Close(u, outcome) ==
            /\ Handled(p, tx[p], u, dev[p], <<Ctl("EOFACK")>>)
            /\ rDone' = IF r.open THEN Complete(rDone, r.file, outcome) ELSE rDone
            /\ UNCHANGED <<sDone, opened, got, devGot>>
    IN /\ Hears(p, "EOF")
       /\ \/ r.state = "Data" /\ off < 0 /\ Close(closing(r, 0), "SenderSkip")
          \/ r.state = "Data" /\ off >= 0 /\ off # r.pos /\ badPosition(p, off, TRUE)
          \/ r.state = "Data" /\ off >= 0 /\ off = r.pos /\ Close(closing(r, off), "nil")
          \/ /\ r.state # "Data"
             /\ Handled(p, tx[p], r, dev[p], IF r.state = "Finfo" THEN <<Ctl("EOFACK")>> ELSE <<>>)
             /\ UNCHANGED <<files, devGot>>

-----------------------------------------------------------------------------
(* The TX machine.                                                         *)

\* (faulty variant) The offer is kept.
finishTxFileKept(t) ==
    [t EXCEPT !.skip = FALSE, !.err = "nil", !.lastFinfo = NoFile, !.retries = 0,
              !.timer = FALSE, !.finfoAckWait = FALSE, !.eofAckWait = FALSE,
              !.state = "Finfo"]

finishTxFile(t) ==
    [t EXCEPT !.offer = NoFile, !.skip = FALSE, !.err = "nil", !.lastFinfo = NoFile,
              !.retries = 0, !.timer = FALSE, !.finfoAckWait = FALSE,
              !.eofAckWait = FALSE, !.state = "Finfo"]

finfoAckHeeded(t) == t.finfoAckWait /\ t.state \in {"Finfo", "FinfoAck"}

acked(t) == [t EXCEPT !.finfoAckWait = FALSE, !.retries = 0, !.timer = FALSE,
                      !.lastFinfo = NoFile]
resumed(t, off) == [t EXCEPT !.pos = off, !.lastAck = off, !.state = "Xdata"]

onFinfoAck(t, off) ==
    CASE t.eob -> Await(acked(t), "Rend")
      [] ~t.eob /\ off < 0 -> finishTxFile(acked(t))
      [] ~t.eob /\ off > Size[t.offer] -> skipFile(acked(t), "Range")
      [] ~t.eob /\ off \in 1..Size[t.offer] /\ t.offer \in NoSeek ->
            skipFile(resumed(acked(t), off), "Range")
      [] OTHER -> resumed(acked(t), off)

txFinfoAck(p) ==
    LET t == tx[p]
        off == Head(net[p]).off
        heeded == finfoAckHeeded(t)
    IN /\ Hears(p, "FINFOACK")
       /\ Handled(p, IF heeded THEN onFinfoAck(t, off) ELSE t, rx[p], dev[p], <<>>)
       /\ sDone' = IF heeded /\ ~t.eob /\ off < 0
                   THEN Complete(sDone, t.offer, IF off = ackHaveFile THEN "Skip" ELSE "Defer")
                   ELSE sDone
       /\ UNCHANGED <<rDone, opened, got, devGot>>

Transferring == {"Xdata", "DataAck", "Xwait", "EOF", "EOFAck"}

ackedTo(t, off) ==
    [t EXCEPT !.peerAcked = TRUE, !.lastAck = IF off > @ THEN off ELSE @]

\* The window opens only in htxDataAck.
onDataAck(t, off) ==
    LET u == ackedTo(t, off) IN
    CASE t.state \notin Transferring \/ t.window = 0 -> t
      [] t.state = "DataAck" /\ t.window > 0 /\ t.pos < u.lastAck + t.window ->
            Advance(u, "Xdata")
      [] OTHER -> u

txDataAck(p) ==
    /\ Hears(p, "DATAACK")
    /\ Handled(p, onDataAck(tx[p], Head(net[p]).off), rx[p], dev[p], <<>>)
    /\ UNCHANGED <<files, devGot>>

\* A resync id not seen before: rewind, or give the file up.
resync(t, k) ==
    [t EXCEPT !.syncID = k.id, !.syncFile = k.f, !.retries = 1, !.timer = FALSE]
moved(t, off) == [t EXCEPT !.pos = off, !.state = IF @ = "Xwait" THEN @ ELSE "Xdata"]

\* (faulty variant) The skip sentinel is taken for a position.
onRposLiteral(t, k) == moved(resync(t, k), k.off)

onRpos(t, k) ==
    CASE k.off < 0 -> skipFile(resync(t, k), IF t.err = "nil" THEN "Skip" ELSE t.err)
      [] k.off >= 0 /\ (k.off > Size[t.offer] \/ t.offer \in NoSeek) ->
            skipFile(resync(t, k), "Range")
      [] OTHER -> moved(resync(t, k), k.off)

txRpos(p) ==
    LET t == tx[p]
        k == Head(net[p])
        dup == t.state \in Transferring /\ k.id = t.syncID
    IN /\ Hears(p, "RPOS")
       /\ \/ dup /\ t.retries >= MaxRetries /\ Finish(p, "err", t, rx[p], dev[p], <<>>)
          \/ /\ dup /\ t.retries < MaxRetries
             /\ Handled(p, [t EXCEPT !.retries = @ + 1], rx[p], dev[p], <<>>)
             /\ UNCHANGED <<files, devGot>>
          \/ /\ ~dup
             /\ Handled(p, IF t.state \in Transferring THEN onRpos(t, k) ELSE t,
                        rx[p], dev[p], <<>>)
             /\ UNCHANGED <<files, devGot>>

eofAckHeeded(t) == t.eofAckWait /\ t.state \in {"EOF", "EOFAck"}

\* (faulty variant) A skipped file is reported as sent.
eofOutcomeNil(t) == "nil"

\* What the sender tells its handler about a file whose EOF is acknowledged.
eofOutcome(t) ==
    CASE ~t.skip -> "nil" [] t.skip /\ t.err = "nil" -> "Skip" [] OTHER -> t.err

txEOFAck(p) ==
    LET t == tx[p] IN
    /\ Hears(p, "EOFACK")
    /\ Handled(p, IF eofAckHeeded(t) THEN finishTxFile(t) ELSE t, rx[p], dev[p], <<>>)
    /\ sDone' = IF eofAckHeeded(t) THEN Complete(sDone, t.offer, eofOutcome(t)) ELSE sDone
    /\ UNCHANGED <<rDone, opened, got, devGot>>

\* IDLE wakes a one-way pause; otherwise it only feeds the watchdog.
txIdle(p) ==
    /\ Hears(p, "IDLE")
    /\ Handled(p, IF tx[p].state = "Xwait"
                  THEN [Advance(tx[p], "Xdata") EXCEPT !.hdxlink = FALSE] ELSE tx[p],
               rx[p], dev[p], <<>>)
    /\ UNCHANGED <<files, devGot>>

\* The packets drain would still handle before Run returns could only be
\* duplicates: the peer has completed both directions.
txEnd(p) ==
    /\ Hears(p, "END")
    /\ \/ /\ tx[p].state \in {"End", "EndAck"}
          /\ Finish(p, "ok", [tx[p] EXCEPT !.timer = FALSE, !.state = "Done"], rx[p], dev[p],
                    <<Ctl("END"), Ctl("END"), Ctl("END")>>)
       \/ /\ tx[p].state \notin {"End", "EndAck"}
          /\ Handled(p, tx[p], rx[p], dev[p], <<>>)
          /\ UNCHANGED <<files, devGot>>

-----------------------------------------------------------------------------
(* The DEV machine.                                                        *)

requested(d) == [d EXCEPT !.asked = @ + 1, !.devQ = Append(@, d.asked + 1)]
queued(d) == [d EXCEPT !.devQ = Tail(@), !.queue = Append(@, Head(d.devQ))]

\* The application's call; past negotiation it is refused without DEV.
SendDevice(p) ==
    /\ res[p] = "run" /\ dev[p].asked < MaxDev[p]
    /\ rx[p].state # "Init" => DevOn
    /\ Len(dev[p].devQ) < DevQCap
    /\ dev' = [dev EXCEPT ![p] = requested(@)]
    /\ UNCHANGED <<tx, rx, net, res, lost, files, devGot>>

queueDev(p) ==
    /\ res[p] = "run" /\ dev[p].devQ # <<>>
    /\ dev' = [dev EXCEPT ![p] = queued(@)]
    /\ UNCHANGED <<tx, rx, net, res, lost, files, devGot>>

\* (faulty variant) No deduplication.
isNewDatagramAlways(d, k) == TRUE

isNewDatagram(d, k) == k.id # d.rxID

devRx(p) ==
    LET k == Head(net[p]) IN
    /\ Hears(p, "DEVDATA")
    /\ Handled(p, tx[p], rx[p], [dev[p] EXCEPT !.rxID = k.id],
               <<Pkt("DEVDACK", NoFile, 0, 0, k.id)>>)
    /\ devGot' = IF isNewDatagram(dev[p], k) THEN [devGot EXCEPT ![p] = Append(@, k.off)] ELSE devGot
    /\ UNCHANGED files

settled(d) ==
    [d EXCEPT !.pending = 0, !.retries = 0, !.timer = FALSE, !.state = "Done"]

devDack(p) ==
    LET d == dev[p] IN
    /\ Hears(p, "DEVDACK")
    /\ Handled(p, tx[p], rx[p],
               IF d.state = "Dack" /\ d.pending # 0 /\ Head(net[p]).id = d.txID
               THEN settled(d) ELSE d, <<>>)
    /\ UNCHANGED <<files, devGot>>

-----------------------------------------------------------------------------
(* The environment.                                                        *)

\* A packet arrives damaged: the reader's CRC check drops it.
Corrupt(p) ==
    /\ net[p] # <<>> /\ lost < MaxLoss
    /\ net' = Taken(p)
    /\ lost' = lost + 1
    /\ UNCHANGED <<tx, rx, dev, res, files, devGot>>

\* p's Run ends from outside its state machines: the transport fails, the
\* peer cancels, the watchdog expires, the context is cancelled, or Abort is
\* called.  A peer whose own Run is over may hang up; one that failed also
\* sends the cancel sequence.  A hangup in the END exchange is a success.
endPhaseHangup(p) == tx[p].state \in FromEnd /\ rx[p].state = "Done"

Fail(p) ==
    /\ res[p] = "run"
    /\ \/ /\ p \in MayFail \/ res[Other(p)] # "run"
          /\ Finish(p, IF endPhaseHangup(p) THEN "ok" ELSE "err", tx[p], rx[p], dev[p], <<>>)
       \/ /\ p \in MayFail \/ res[Other(p)] = "err"
          /\ Finish(p, "err", tx[p], rx[p], dev[p], <<>>)

\* Both Runs have returned.
Over == (\A p \in Peer : res[p] # "run") /\ UNCHANGED vars

handlePacket(p) ==
    \/ handleStart(p) \/ rxInit(p) \/ handleInitAck(p)
    \/ rxFinfo(p) \/ acceptFinfo(p) \/ rxData(p) \/ rxEOF(p)
    \/ txFinfoAck(p) \/ txDataAck(p) \/ txRpos(p) \/ txEOFAck(p)
    \/ txIdle(p) \/ txEnd(p)
    \/ devRx(p) \/ devDack(p)

Next ==
    \/ \E p \in Peer : Loop(p) \/ fireTimers(p) \/ handlePacket(p)
    \/ \E p \in Peer : SendDevice(p) \/ queueDev(p) \/ Corrupt(p) \/ Fail(p)
    \/ Over

\* The event loop keeps running, packets are handled, an armed timer fires
\* in the end, and a Run whose peer is gone ends (watchdog or hangup).
Fairness ==
    \A p \in Peer :
        /\ WF_vars(Loop(p)) /\ WF_vars(handlePacket(p)) /\ WF_vars(queueDev(p))
        /\ SF_vars(fireTimers(p))
        /\ WF_vars(Fail(p) /\ res[Other(p)] # "run")

Spec == Init /\ [][Next]_vars
FairSpec == Spec /\ Fairness

-----------------------------------------------------------------------------
(* Properties.                                                             *)

TxType == [state : TxState, retries : 0..MaxRetries, timer : BOOLEAN, syncID : Nat,
           offer : File \cup {NoFile}, pos : Nat, skip : BOOLEAN, err : Outcome,
           eob : BOOLEAN, lastFinfo : File \cup {NoFile, EOB}, lastAck : Nat,
           window : Nat, peerAcked : BOOLEAN, hdxlink : BOOLEAN,
           finfoAckWait : BOOLEAN, eofAckWait : BOOLEAN, next : Nat,
           syncFile : File \cup {NoFile}]
RxType == [state : RxState, open : BOOLEAN, file : File \cup {NoFile}, pos : Int,
           retries : 0..MaxRetries, syncID : Nat, lastSync : Int, timer : BOOLEAN,
           refused : File \cup {NoFile}, refusedAck : Int]
DevType == [state : DevState, retries : 0..MaxRetries, timer : BOOLEAN, txID : Nat, rxID : Nat,
            pending : Nat, queue : Seq(Nat), devQ : Seq(Nat), asked : Nat]

MachinesOK ==
    /\ tx \in [Peer -> TxType]
    /\ rx \in [Peer -> RxType]
    /\ dev \in [Peer -> DevType]
    /\ net \in [Peer -> Seq(Packet)]
    /\ res \in [Peer -> {"run", "ok", "err"}]
    /\ lost \in 0..MaxLoss

HistoryOK ==
    /\ sDone \in [File -> Seq(Outcome)]
    /\ rDone \in [File -> Seq(Outcome)]
    /\ opened \in SUBSET File
    /\ got \in [File -> Seq(File \X Nat)]
    /\ devGot \in [Peer -> Seq(Nat)]

\* Every field of the batch, and every call it has made, keeps its type,
\* whatever arrives and expires.
TypeOK == MachinesOK /\ HistoryOK

Offered(p) == {Offers[p][i] : i \in 1..Len(Offers[p])}
Pulled(p) == {Offers[p][i] : i \in 1..(tx[p].next - 1)}

\* SendHandler.FileCompleted fires at most once per file and, once Run has
\* returned, has fired for every file NextFile handed out: acks repeated for
\* retransmitted packets, skips, bad offers, errors and the deferred teardown
\* never add up to two calls or to none.
SentOnce ==
    /\ \A f \in File : Len(sDone[f]) <= 1
    /\ \A p \in Peer : res[p] # "run" => \A f \in Pulled(p) : Len(sDone[f]) = 1

\* RecvHandler.FileCompleted fires at most once per file and, once Run has
\* returned, has fired for every file AcceptFile opened, although FINFO and
\* EOF are retransmitted and files are closed by errors, skips and teardown.
ReceivedOnce ==
    /\ \A f \in File : Len(rDone[f]) <= 1
    /\ \A p \in Peer : res[p] # "run" =>
        \A f \in Offered(Other(p)) \cap opened : Len(rDone[f]) = 1

\* What lands in the writer of a file is that file, in order and without
\* gaps, and a file the receiver completes with nil is whole, or was resumed
\* past the end of a source that has shrunk.
Integrity ==
    \A f \in File :
        /\ got[f] = Content(f, 0, Len(got[f]))
        /\ rDone[f] = <<"nil">> =>
              \/ Len(got[f]) = Actual[f]
              \/ Len(got[f]) > Actual[f] /\ Len(got[f]) \in ResumeAt

\* What the sender's handler is told is what happened at the receiver: nil
\* only for a file the receiver completed, ErrDefer only for one its handler
\* refused, ErrSkip only for one it has or gave up, an outgrown source only for
\* one the receiver saw end short, and the sender's other errors only for one
\* that ended.  (A sender sent back by a late RPOS may fail to read a file of
\* which the receiver has everything: it is told of the error, the receiver of
\* success.)
Agreement ==
    \A p \in Peer : \A f \in Offered(p) \ BadOffer :
        CASE sDone[f] = <<"nil">> -> rDone[f] = <<"nil">>
          [] sDone[f] = <<"Defer">> -> rDone[f] \in {<<"Defer">>, <<"Range">>}
          [] sDone[f] = <<"Skip">> -> rDone[f] \in {<<"Skip">>, <<"Write">>}
          [] sDone[f] = <<"TooLarge">> -> rDone[f] \in {<<"SenderSkip">>, <<"Write">>}
          [] sDone[f] \in {<<"Read">>, <<"Range">>} ->
                rDone[f] \in {<<"SenderSkip">>, <<"Write">>, <<"nil">>}
          [] OTHER -> TRUE

\* The batch implements the handlers' contract, the abstract FileDelivery:
\* files are accepted one at a time in the order of NextFile, a writer grows
\* by the file's next bytes only and never after FileCompleted, and a sender
\* is told in order, of a success or a refusal only after its receiver was.
Delivery == INSTANCE FileDelivery WITH
    Rejected <- BadOffer, Length <- Actual,
    told <- sDone, heard <- rDone, held <- got
HandlerContract == Delivery!DeliverySpec

\* A Run that returns nil leaves nothing behind: every file either side
\* offered was pulled and settled by the protocol, none by the teardown.
CleanEnd ==
    \A p \in Peer : res[p] = "ok" =>
        \A q \in Peer : \A f \in Offered(q) :
            /\ Len(sDone[f]) = 1 /\ sDone[f] # <<"Aborted">>
            /\ rDone[f] # <<"Aborted">>

\* The RINIT gate: packets whose format depends on the negotiated options
\* are on the wire only once both ends have processed the other's INIT.
ModesFlipped ==
    \A p \in Peer :
        (\E i \in 1..Len(net[p]) :
            net[p][i].t \notin {"START", "INIT", "INITACK", "IDLE", "END"})
        => \A q \in Peer : rx[q].state # "Init"

\* A sender past its end-of-batch FINFO talks to a receiver that has seen it;
\* one in the END exchange has itself seen the peer's.
EndAgreement ==
    \A p \in Peer : tx[p].state \in FromEnd \cup {"Rend"} =>
        /\ rx[Other(p)].state = "Done"
        /\ tx[p].state \in FromEnd => rx[p].state = "Done"

\* A sender is never told that its receiver has more than it has, and under a
\* window it is never the window or more ahead of the receiver while it may
\* send, nor further than that by a block and the probes it was allowed.
WindowHeld ==
    \A p \in Peer :
        LET t == tx[p]
            has == Len(got[t.offer])
        IN t.state \in Transferring /\ t.offer # NoFile /\ ~t.skip =>
            /\ t.lastAck <= has
            /\ t.window > 0 =>
                  /\ t.pos < has + t.window + (t.retries + 1) * MaxBlock
                  /\ t.state \in {"Xdata", "Xwait"} => t.pos < has + t.window

\* The device channel delivers the peer's datagrams in order, each once: all
\* the acknowledged ones, and at most the one in flight besides.
DeviceOnce ==
    \A p \in Peer :
        LET acks == dev[p].txID - (IF dev[p].pending # 0 THEN 1 ELSE 0) IN
        DevOn => \E n \in {acks, dev[p].txID} : devGot[Other(p)] = [i \in 1..n |-> i]

\* Every Run returns, although a packet is lost, the answerer pauses its own
\* transfer for the originator's and takes it up again (the one-way fallback),
\* and the timers of Hasty beat the answers they wait for.
Termination == <>(\A p \in Peer : res[p] # "run")

\* Over a link that loses nothing both Runs return nil: the machines never
\* talk themselves into a failure, not even when the timer of a full window
\* beats the DATAACK it waits for.
Success == [](lost = 0) => <>(\A p \in Peer : res[p] = "ok")

\* "Duplicate of a resync we already acted on" (tx.go): an RPOS is dropped
\* for its id only if that id was acted on for the same file.
SyncIdFresh ==
    \A p \in Peer :
        Hears(p, "RPOS") /\ tx[p].state \in Transferring /\ Head(net[p]).id = tx[p].syncID
        => tx[p].syncFile = Head(net[p]).f

\* "the sync gate only permits [the END exchange] once the RX machine and
\* the device queue are finished too" (session.go, endPhaseHangup).
DeviceGate ==
    [][\A p \in Peer : tx[p].state = "Rend" /\ tx'[p].state = "End" => dev'[p].queue = <<>>]_vars

\* "ErrSkip = the receiver answered `already have it' ...; ErrDefer = the
\* receiver deferred the file" (hydra.go, SendHandler): a file the sender
\* completes so was put to the receiver's handler.
RefusalAnswered ==
    \A f \in File : sDone[f] \in {<<"Skip">>, <<"Defer">>} => rDone[f] # <<>>

-----------------------------------------------------------------------------
(* The inductive strengthening of SentOnce (HydraBatchProofs).             *)

\* How a running peer's cursor, offer and cached FINFO go together.
TxShape(p, t) ==
    /\ t.next \in 1..(Len(Offers[p]) + 1)
    /\ t.offer # NoFile => t.next > 1 /\ t.offer = Offers[p][t.next - 1]
    /\ t.state \in BeforeFinfo \cup FromEnd \cup {"Rend"} => t.offer = NoFile
    /\ t.state \in BeforeFinfo => t.lastFinfo = NoFile /\ ~t.finfoAckWait
    /\ t.state \in {"Finfo", "FinfoAck"} =>
        IF t.lastFinfo = NoFile
        THEN t.state = "Finfo" /\ ~t.finfoAckWait /\ t.offer = NoFile
        ELSE t.eob <=> t.offer = NoFile
    /\ t.state \in Transferring => t.offer # NoFile

Shape == \A p \in Peer : IF res[p] = "run" THEN TxShape(p, tx[p])
                         ELSE tx[p].offer = NoFile /\ tx[p].next \in 1..(Len(Offers[p]) + 1)

\* What FileCompleted has fired for, file by file in the order of NextFile.
Ledger ==
    /\ \A p \in Peer : \A i \in 1..Len(Offers[p]) :
        IF i >= tx[p].next \/ Offers[p][i] = tx[p].offer
        THEN sDone[Offers[p][i]] = <<>> ELSE Len(sDone[Offers[p][i]]) = 1
    /\ \A f \in File : (\A p \in Peer : f \notin Offered(p)) => sDone[f] = <<>>

SentInv == TypeOK /\ Shape /\ Ledger

=============================================================================
