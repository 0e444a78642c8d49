--------------------------- MODULE TransferSteps ----------------------------
(***************************************************************************)
(* What a step of HydraBatch is to a file under way, with the fields, the  *)
(* timers and the other machines left out.  For its sender a step is one   *)
(* of a dozen moves (SendStep), for its receiver one of nine               *)
(* (ReceiveStep), each with what it takes from one channel and adds to the *)
(* other; every action is shown to be one such pair (NextMoves).           *)
(* TransferProofs argues about the moves alone.                            *)
(***************************************************************************)
EXTENDS ReceiverProofs, SequenceTheorems

-----------------------------------------------------------------------------
(* Channels.                                                               *)

\* What a sender writes about its files; these and the receiver's answers are
\* the packets that matter here.
Forward == {"FINFO", "DATA", "EOF"}
Mattering == Forward \cup Answer
Void(n, T) == \A k \in Among(n) : k.t \notin T

\* m holds nothing that n does not, in the same order; the same with k at the
\* end; and without the first packet, k.
Less(m, n) ==
    /\ \A j \in Among(m) : j \in Among(n)
    /\ \A a, b : Follows(m, a, b) => Follows(n, a, b)
Adds(m, n, k) ==
    /\ \A j \in Among(m) : j.t \in Mattering => j \in Among(n) \/ j = k
    /\ \A a, b : Follows(m, a, b) /\ a.t \in Mattering /\ b.t \in Mattering =>
          Follows(n, a, b) \/ (a \in Among(n) /\ b = k)
Took(n, m, k, type) == n # <<>> /\ m = Tail(n) /\ k = Head(n) /\ k.t = type

\* Of the packets written only the last may matter: it is k.
Carries(out, k) ==
    \A i \in 1..Len(out) : out[i].t \in Mattering => i = Len(out) /\ out[i] = k

\* No packet that matters.
Nothing == Ctl("IDLE")

\* Writing out behind n.
LEMMA AddsOut ==
  ASSUME NEW n \in Seq(Packet), NEW out \in Seq(Packet), NEW k, Carries(out, k)
  PROVE  Adds(n \o out, n, k)
<1> DEFINE m == n \o out
           N == Len(n)
<1>1. /\ m \in Seq(Packet) /\ Len(m) = N + Len(out) /\ N \in Nat /\ Len(out) \in Nat
      /\ \A i \in 1..Len(m) : i <= N => i \in 1..N /\ m[i] = n[i]
      /\ \A i \in 1..Len(m) : i > N => i - N \in 1..Len(out) /\ m[i] = out[i - N]
  OBVIOUS
<1> HIDE DEF m
<1>2. \A i \in 1..Len(m) : i <= N => m[i] \in Among(n)
  BY <1>1 DEF Among
<1> HIDE DEF N
<1>3. ASSUME NEW i \in 1..Len(m), i > N, m[i].t \in Mattering
      PROVE  i = Len(m) /\ m[i] = k
  <2>1. i - N \in 1..Len(out) /\ m[i] = out[i - N]
    BY <1>1, <1>3
  <2>2. i - N = Len(out) /\ m[i] = k
    BY <1>3, <2>1 DEF Carries
  <2> QED
    BY <1>1, <2>2
<1>4. ASSUME NEW j \in Among(m), j.t \in Mattering
      PROVE  j \in Among(n) \/ j = k
  <2>1. PICK i \in 1..Len(m) : m[i] = j
    BY <1>4 DEF Among
  <2> QED
    BY <1>1, <1>2, <1>3, <1>4, <2>1
<1>5. ASSUME NEW a, NEW b, Follows(m, a, b), a.t \in Mattering, b.t \in Mattering
      PROVE  Follows(n, a, b) \/ (a \in Among(n) /\ b = k)
  <2>1. PICK i \in 1..Len(m), j \in 1..Len(m) : i < j /\ m[i] = a /\ m[j] = b
    BY <1>5 DEF Follows
  <2>2. CASE j <= N
    BY <1>1, <2>1, <2>2 DEF Follows, N
  <2>3. CASE j > N
    <3>1. i <= N
      <4>1. ~(i > N /\ i = Len(m))
        BY <1>1, <2>1
      <4> QED
        BY <1>1, <1>3, <1>5, <2>1, <4>1
    <3> QED
      BY <1>2, <1>3, <1>5, <2>1, <2>3, <3>1
  <2> QED
    BY <1>1, <2>2, <2>3
<1> QED
  BY <1>4, <1>5 DEF Adds, m

\* One packet, or none that matters, before it others that do not.
LEMMA CarriesFew ==
  /\ \A k : Carries(<<>>, k)
  /\ \A k \in Packet : Carries(<<k>>, k)
  /\ \A out \in Seq(Packet) : \A k : Void(out, Mattering) => Carries(out, k)
<1>1. \A k : Carries(<<>>, k)
  BY DEF Carries
<1>2. \A k \in Packet : Carries(<<k>>, k)
  BY DEF Carries
<1>3. \A out \in Seq(Packet) : \A k : Void(out, Mattering) => Carries(out, k)
  BY DEF Carries, Void, Among
<1> QED
  BY <1>1, <1>2, <1>3

\* The same behind packets that do not matter.
LEMMA CarriesBehind ==
  ASSUME NEW w \in Seq(Packet), Void(w, Mattering),
         NEW out \in Seq(Packet), NEW k, Carries(out, k)
  PROVE  Carries(w \o out, k)
<1> DEFINE m == w \o out
           N == Len(w)
<1>1. /\ m \in Seq(Packet) /\ Len(m) = N + Len(out) /\ N \in Nat /\ Len(out) \in Nat
      /\ \A i \in 1..Len(m) : i <= N => i \in 1..N /\ m[i] = w[i]
      /\ \A i \in 1..Len(m) : i > N => i - N \in 1..Len(out) /\ m[i] = out[i - N]
  OBVIOUS
<1> HIDE DEF m
<1>2. \A i \in 1..Len(m) : i <= N => m[i].t \notin Mattering
  BY <1>1 DEF Among, Void
<1> HIDE DEF N
<1> SUFFICES ASSUME NEW i \in 1..Len(m), m[i].t \in Mattering
             PROVE  i = Len(m) /\ m[i] = k
  BY DEF Carries, m
<1>3. i > N
  BY <1>1, <1>2
<1>4. i - N \in 1..Len(out) /\ m[i] = out[i - N]
  BY <1>1, <1>3
<1>5. i - N = Len(out) /\ m[i] = k
  BY <1>4 DEF Carries
<1> QED
  BY <1>1, <1>5

\* An emptied channel, one left alone, and one without its head.
LEMMA LessFew ==
  ASSUME NEW n \in Seq(Packet)
  PROVE  /\ Less(<<>>, n) /\ Less(n, n)
         /\ \A k : Adds(<<>>, n, k) /\ Adds(n, n, k)
         /\ n # <<>> => /\ Less(Tail(n), n) /\ Head(n) \in Among(n)
                        /\ \A j \in Among(Tail(n)) : Follows(n, Head(n), j)
<1>1. Among(<<>>) = {} /\ Len(<<>>) = 0
  BY AmongFew
<1>2. Less(<<>>, n) /\ Less(n, n) /\ \A k : Adds(<<>>, n, k) /\ Adds(n, n, k)
  BY <1>1 DEF Less, Adds, Follows
<1>3. ASSUME n # <<>>
      PROVE  /\ Less(Tail(n), n) /\ Head(n) \in Among(n)
             /\ \A j \in Among(Tail(n)) : Follows(n, Head(n), j)
  <2>1. Head(n) \in Among(n) /\ \A j \in Among(Tail(n)) : j \in Among(n) /\ Follows(n, Head(n), j)
    BY <1>3, AmongTail, TailOrder
  <2>2. \A a, b : Follows(Tail(n), a, b) => Follows(n, a, b)
    BY <1>1, <1>3, TailOrder DEF Extends
  <2> QED
    BY <2>1, <2>2 DEF Less
<1> QED
  BY <1>2, <1>3

-----------------------------------------------------------------------------
(* What the helpers of the TX machine do to a file's progress.             *)

SameData(u, t) == u.pos = t.pos /\ u.skip = t.skip /\ u.err = t.err
SameWindow(u, t) == u.lastAck = t.lastAck /\ u.window = t.window

\* The cursor moved.
LEMMA AdvanceView ==
  ASSUME NEW t \in TxType, NEW s
  PROVE  SameData(Advance(t, s), t) /\ SameWindow(Advance(t, s), t)
  BY DEF Advance, TxType, SameData, SameWindow

\* The cursor moved, with the timer armed.
LEMMA AwaitView ==
  ASSUME NEW t \in TxType, NEW s
  PROVE  SameData(Await(t, s), t) /\ SameWindow(Await(t, s), t) /\ Await(t, s).retries = t.retries
  BY DEF Await, TxType, SameData, SameWindow

\* The cursor alone.
LEMMA StateView ==
  ASSUME NEW t \in TxType, NEW s
  PROVE  LET u == [t EXCEPT !.state = s] IN
         SameData(u, t) /\ SameWindow(u, t) /\ u.retries = t.retries
  BY DEF TxType, SameData, SameWindow

\* Fields that are no part of a file's progress.
LEMMA OtherView ==
  ASSUME NEW t \in TxType
  PROVE  /\ \A b : LET u == [t EXCEPT !.hdxlink = b] IN
              SameData(u, t) /\ SameWindow(u, t) /\ u.retries = t.retries
         /\ \A n : LET u == [t EXCEPT !.window = n] IN
              SameData(u, t) /\ u.lastAck = t.lastAck
         /\ LET u == [t EXCEPT !.retries = @ + 1] IN
              SameData(u, t) /\ SameWindow(u, t) /\ u.retries = t.retries + 1
         /\ LET u == [t EXCEPT !.timer = FALSE, !.state = "Done"] IN
              SameData(u, t) /\ SameWindow(u, t) /\ u.retries = t.retries
         /\ LET u == [t EXCEPT !.offer = NoFile] IN
              /\ SameData(u, t) /\ SameWindow(u, t) /\ u.retries = t.retries
              /\ u.state = t.state /\ u.eob = t.eob /\ u.lastFinfo = t.lastFinfo
  BY DEF TxType, SameData, SameWindow

\* The FINFO and the EOF written.
LEMMA WrittenView ==
  ASSUME NEW t \in TxType
  PROVE  /\ SameData(announced(t), t) /\ SameWindow(announced(t), t)
         /\ SameData(eofSent(t), t) /\ SameWindow(eofSent(t), t)
         /\ eofSent(t).retries = t.retries
  BY DEF announced, eofSent, TxType, SameData, SameWindow

\* The next offer.
LEMMA NewOfferView ==
  ASSUME NEW t \in TxType, NEW o, NEW j
  PROVE  newOffer(t, o, j).pos = 0 /\ ~newOffer(t, o, j).skip /\ newOffer(t, o, j).err = "nil"
  BY DEF newOffer, TxType

\* A file given up.
LEMMA SkipFileView ==
  ASSUME NEW t \in TxType, NEW e
  PROVE  LET u == skipFile(t, e) IN
         u.pos = t.pos /\ u.skip /\ u.err = e /\ SameWindow(u, t) /\ u.retries = t.retries
  BY DEF skipFile, TxType, SameWindow

\* A block sent.
LEMMA PosView ==
  ASSUME NEW t \in TxType, NEW n
  PROVE  LET u == [t EXCEPT !.pos = @ + n] IN
         /\ u.pos = t.pos + n /\ u.skip = t.skip /\ u.err = t.err /\ SameWindow(u, t)
         /\ u.retries = t.retries
  BY DEF TxType, SameWindow

\* An expired timer.
LEMMA ExpiredView ==
  ASSUME NEW t \in TxType
  PROVE  /\ SameData(dropWindow(t), t) /\ dropWindow(t).lastAck = t.lastAck
         /\ dropWindow(t).window = 0
         /\ SameData(retry(t), t) /\ SameWindow(retry(t), t)
         /\ retry(t).retries = t.retries + 1
  BY DEF dropWindow, retry, TxType, SameData, SameWindow

\* A FINFO acknowledged, and the file started where the receiver says.
LEMMA AckedView ==
  ASSUME NEW t \in TxType, NEW off
  PROVE  /\ SameData(acked(t), t) /\ SameWindow(acked(t), t) /\ acked(t).lastFinfo = NoFile
         /\ acked(t).retries = 0
         /\ LET u == resumed(t, off) IN
              /\ u.pos = off /\ u.lastAck = off /\ u.skip = t.skip /\ u.err = t.err
              /\ u.window = t.window /\ u.retries = t.retries
  BY DEF acked, resumed, TxType, SameData, SameWindow

\* A DATAACK.
LEMMA AckedToView ==
  ASSUME NEW t \in TxType, NEW off
  PROVE  LET u == ackedTo(t, off) IN
         /\ SameData(u, t) /\ u.window = t.window /\ u.retries = t.retries
         /\ u.lastAck = IF off > t.lastAck THEN off ELSE t.lastAck
  BY DEF ackedTo, TxType, SameData

\* A new RPOS.
LEMMA ResyncView ==
  ASSUME NEW t \in TxType, NEW k
  PROVE  SameData(resync(t, k), t) /\ SameWindow(resync(t, k), t) /\ resync(t, k).retries = 1
  BY DEF resync, TxType, SameData, SameWindow

\* The position it asks for.
LEMMA MovedView ==
  ASSUME NEW t \in TxType, NEW off
  PROVE  LET u == moved(t, off) IN
         /\ u.pos = off /\ u.skip = t.skip /\ u.err = t.err /\ SameWindow(u, t)
         /\ u.retries = t.retries
  BY DEF moved, TxType, SameWindow

\* A file over.
LEMMA FinishedView ==
  ASSUME NEW t \in TxType
  PROVE  LET u == finishTxFile(t) IN u.eob = t.eob /\ ~u.skip /\ u.err = "nil"
  BY DEF finishTxFile, TxType

-----------------------------------------------------------------------------
(* And those of the RX machine to a file's.                                *)

SamePlace(v, r) == SameRx(v, r) /\ v.pos = r.pos /\ v.refusedAck = r.refusedAck
Shut(v, r) == v.file = r.file /\ ~v.open /\ v.refused = r.refused /\ v.refusedAck = r.refusedAck

\* A receiver that strays, asks again, skips, takes a block, closes its file, or
\* is torn down.
LEMMA RxViews ==
  ASSUME NEW r \in RxType
  PROVE  /\ \A off : SamePlace(strayed(r, off), r)
         /\ \A n : SamePlace(asking(r, n), r)
         /\ LET v == skipping(r) IN v.state = r.state /\ Shut(v, r) /\ v.pos = offsetSkip
         /\ \A n : LET v == taking(r, n) IN
              SameRx(v, r) /\ v.pos = r.pos + n /\ v.refusedAck = r.refusedAck
         /\ \A off : closing(r, off).state = "Finfo" /\ Shut(closing(r, off), r)
         /\ LET v == [r EXCEPT !.open = FALSE] IN
              v.state = r.state /\ Shut(v, r) /\ v.pos = r.pos
  BY DEF strayed, asking, skipping, taking, closing, RxType, SamePlace,
         SameRx, Shut

\* A file refused.
LEMMA RefusingView ==
  ASSUME NEW r \in RxType, NEW f, NEW ack, NEW v, v = refusing(r, f, ack)
  PROVE  /\ v.state = r.state /\ v.open = r.open /\ v.file = r.file /\ v.pos = r.pos
         /\ v.refused = f /\ v.refusedAck = ack
  BY DEF refusing, RxType

\* A file opened.
LEMMA ReceivingView ==
  ASSUME NEW r \in RxType, NEW f, NEW off, NEW v, v = receiving(r, f, off)
  PROVE  v.state = "Data" /\ v.open /\ v.file = f /\ v.pos = off /\ v.refused = NoFile
  BY DEF receiving, RxType

\* The cursor alone.
LEMMA RxStateView ==
  ASSUME NEW r \in RxType, NEW s, NEW v, v = [r EXCEPT !.state = s]
  PROVE  /\ v.state = s /\ v.open = r.open /\ v.file = r.file /\ v.refused = r.refused
         /\ v.pos = r.pos /\ v.refusedAck = r.refusedAck
  BY DEF RxType

-----------------------------------------------------------------------------
(* What a sender does in one step: t and u are its TX machine before and   *)
(* after, n the channel away from it, m and mm its inbox before and after, *)
(* k the packet it writes, if it writes one that matters, told and next    *)
(* what its handler was told.                                              *)

\* The file under way, until the next is pulled.
Current(s, t) == Offers[s][t.next - 1]

\* The cursor leaves its group only in the ways below.
Stays(u, t) ==
    \/ /\ t.state \in Transferring /\ u.window = t.window
       /\ \/ u.state = t.state /\ u.retries >= t.retries
          \/ u.state = "Xdata" /\ t.state = "Xwait"
    \/ t.state \in BeforeFinfo /\ u.state \in BeforeFinfo
    \/ t.state \in FromEnd /\ u.state \in FromEnd
    \/ t.state \notin Transferring /\ u.state = t.state
SendsNothing(u, t, k) ==
    SameFile(u, t) /\ SameData(u, t) /\ u.lastAck = t.lastAck /\ Stays(u, t) /\ k.t \notin Forward

SameCursor(u, t) == u.offer = t.offer /\ u.next = t.next /\ u.eob = t.eob

\* A timer may have dropped the window, or counted one more try.
Tried(u, t) == u.window = t.window /\ u.retries >= t.retries
Dropped(u, t) == u.window = 0 \/ Tried(u, t)

Repeats(u, t, n, m, k) ==
    /\ \/ t.state = "FinfoAck" /\ n = <<>> /\ m = <<>>
       \/ t.state = "Finfo" /\ t.lastFinfo # NoFile
    /\ SameCursor(u, t) /\ u.lastFinfo = t.lastFinfo /\ SameData(u, t) /\ u.state = "FinfoAck"
    /\ k = Pkt("FINFO", t.lastFinfo, 0, 0, 0)
AnnouncesNext(s, u, t, k, told, next) ==
    /\ t.state = "Finfo" /\ t.lastFinfo = NoFile /\ u.state = "FinfoAck"
    /\ k = Pkt("FINFO", u.lastFinfo, 0, 0, 0)
    /\ \/ u.eob /\ u.lastFinfo = EOB /\ u.next = Len(Offers[s]) + 1 /\ u.offer = NoFile
       \/ /\ ~u.eob /\ u.offer \in Offered(s) /\ u.lastFinfo = u.offer
          /\ u.offer = Current(s, u) /\ u.offer \notin BadOffer /\ ~u.skip /\ u.err = "nil"
    /\ \A f \in File : \/ next[f] = told[f]
                       \/ f \in BadOffer /\ next[f] = Append(told[f], "TooLarge")
SendsBlock(u, t, k) ==
    /\ t.state \in {"Xdata", "DataAck"} /\ u.state \in {"Xdata", "DataAck"}
    /\ SameFile(u, t) /\ ~t.skip /\ ~u.skip /\ u.err = t.err /\ u.lastAck = t.lastAck
    /\ \E n \in 1..MaxBlock :
        /\ u.pos = t.pos + n /\ u.pos <= Actual[t.offer] /\ u.pos <= SafeMax
        /\ k = Pkt("DATA", t.offer, t.pos, n, 0)
    /\ Dropped(u, t)
    /\ u.state = "Xdata" => u.window = 0 \/ u.pos < u.lastAck + u.window
    /\ u.state = "DataAck" => u.pos >= u.lastAck + u.window
    /\ t.state = "DataAck" /\ u.window > 0 => u.retries = t.retries + 1
ReachesEnd(u, t, k) ==
    /\ t.state \in {"Xdata", "DataAck"} /\ u.state = "EOF" /\ k.t \notin Forward
    /\ SameFile(u, t) /\ u.pos = t.pos /\ u.lastAck = t.lastAck /\ Dropped(u, t)
    /\ \/ u.skip = t.skip /\ u.err = t.err /\ (t.skip \/ t.pos >= Actual[t.offer])
       \/ ~t.skip /\ u.skip /\ u.err = "Read"
       \/ ~t.skip /\ u.skip /\ u.err = "TooLarge" /\ Actual[t.offer] > SafeMax
SendsEOF(u, t, k) ==
    /\ t.state \in {"EOF", "EOFAck"} /\ u.state = "EOFAck"
    /\ SameFile(u, t) /\ SameData(u, t) /\ u.lastAck = t.lastAck /\ Tried(u, t)
    /\ k = OffPkt("EOF", IF t.skip THEN offsetSkip ELSE t.pos)

\* The answers.
FileOver(u, t) ==
    /\ u.state = "Finfo" /\ u.offer = NoFile /\ u.lastFinfo = NoFile /\ u.next = t.next
    /\ ~u.skip /\ u.err = "nil"
HearsFinfoAck(u, t, m, mm, told, next) ==
    /\ t.lastFinfo # NoFile /\ t.state \in {"Finfo", "FinfoAck"}
    /\ \E j : /\ Took(m, mm, j, "FINFOACK")
              /\ \/ /\ t.eob /\ u.state = "Rend" /\ SameCursor(u, t) /\ u.lastFinfo = NoFile
                    /\ next = told
                 \/ /\ ~t.eob /\ j.off < 0 /\ FileOver(u, t)
                    /\ next = Complete(told, t.offer, IF j.off = ackHaveFile THEN "Skip" ELSE "Defer")
                 \/ /\ ~t.eob /\ j.off >= 0 /\ SameCursor(u, t) /\ u.lastFinfo = NoFile
                    /\ u.state = "EOF" /\ u.skip /\ u.err = "Range" /\ next = told
                 \/ /\ ~t.eob /\ j.off >= 0 /\ SameCursor(u, t) /\ u.lastFinfo = NoFile
                    /\ u.state = "Xdata" /\ u.pos = j.off /\ u.lastAck = j.off
                    /\ u.skip = t.skip /\ u.err = t.err /\ next = told
HearsDataAck(u, t, m, mm) ==
    /\ t.state \in Transferring /\ SameFile(u, t) /\ SameData(u, t)
    /\ u.window = t.window /\ t.window > 0
    /\ \E j : Took(m, mm, j, "DATAACK") /\ u.lastAck = IF j.off > t.lastAck THEN j.off ELSE t.lastAck
    /\ \/ u.state = t.state /\ u.retries = t.retries
          /\ (t.state = "DataAck" => u.pos >= u.lastAck + u.window)
       \/ t.state = "DataAck" /\ u.state = "Xdata" /\ u.pos < u.lastAck + u.window
HearsRpos(u, t, m, mm) ==
    /\ t.state \in Transferring /\ SameFile(u, t) /\ SameWindow(u, t)
    /\ \E j : /\ Took(m, mm, j, "RPOS")
              /\ \/ /\ j.off >= 0 /\ u.pos = j.off /\ u.skip = t.skip /\ u.err = t.err
                    /\ u.state \in {"Xdata", "Xwait"}
                 \/ /\ u.state = "EOF" /\ u.skip
                    /\ \/ j.off < 0 /\ u.err = IF t.err = "nil" THEN "Skip" ELSE t.err
                       \/ j.off >= 0 /\ u.err = "Range"
HearsEOFAck(u, t, m, mm, told, next) ==
    /\ t.state \in {"EOF", "EOFAck"} /\ FileOver(u, t)
    /\ \E j : Took(m, mm, j, "EOFACK")
    /\ next = Complete(told, t.offer, eofOutcome(t))

SendStep(s, t, u, n, m, mm, k, told, next) ==
    \/ SendsNothing(u, t, k) /\ Less(mm, m) /\ next = told
    \/ /\ mm = m
       /\ \/ /\ next = told
             /\ Repeats(u, t, n, m, k) \/ SendsBlock(u, t, k) \/ ReachesEnd(u, t, k) \/ SendsEOF(u, t, k)
          \/ AnnouncesNext(s, u, t, k, told, next)
    \/ /\ k = Nothing
       /\ \/ HearsFinfoAck(u, t, m, mm, told, next)
          \/ HearsDataAck(u, t, m, mm) /\ next = told
          \/ HearsRpos(u, t, m, mm) /\ next = told
          \/ HearsEOFAck(u, t, m, mm, told, next)

\* sync, with r the receiver beside the sender.
SyncStep(u, t, r) ==
    /\ SameFile(u, t) /\ SameData(u, t) /\ SameWindow(u, t)
    /\ \/ u.state = t.state /\ u.retries = t.retries
       \/ t.state \in {"Start", "Swait"} /\ u.state = "Init"
       \/ t.state = "Rinit" /\ u.state = "Finfo" /\ r.state # "Init"
       \/ t.state = "Xdata" /\ u.state = "Xwait"
       \/ t.state = "Xwait" /\ u.state = "Xdata"
       \/ t.state = "Rend" /\ u.state = "End" /\ r.state = "Done"

\* The end of its Run.
SendStop(u, t, m, mm, told, next) ==
    /\ u.offer = NoFile /\ u.next = t.next /\ u.eob = t.eob /\ u.lastFinfo = t.lastFinfo
    /\ SameData(u, t) /\ SameWindow(u, t)
    /\ u.state = t.state \/ (u.state \in FromEnd /\ t.state \in FromEnd)
    /\ mm = <<>>
    /\ next = IF t.offer = NoFile THEN told ELSE Complete(told, t.offer, "Aborted")

-----------------------------------------------------------------------------
(* What a receiver does in one step: r and v are its RX machine before and *)
(* after, n and nn its inbox, k the packet it writes, done and next what   *)
(* its handler was told, g and h what its writers hold, op and nop what it *)
(* has accepted.                                                           *)

Ignores(v, r, n, nn, k) ==
    /\ Less(nn, n) /\ k.t \notin Answer
    /\ \/ SamePlace(v, r)
       \/ /\ r.state = "Init" /\ v.state = "Finfo" /\ v.open = r.open /\ v.file = r.file
          /\ v.refused = r.refused /\ v.pos = r.pos /\ v.refusedAck = r.refusedAck
AnswersFinfo(v, r, j, k) ==
    \/ /\ r.state = "Finfo" /\ j.f = EOB /\ k = OffPkt("FINFOACK", 0)
       /\ v.state = "Done" /\ v.open = r.open /\ v.file = r.file /\ v.refused = r.refused
       /\ v.pos = r.pos /\ v.refusedAck = r.refusedAck
    \/ /\ SamePlace(v, r)
       /\ \E off : /\ k = OffPkt("FINFOACK", off)
                   /\ \/ r.state = "Finfo" /\ j.f = r.refused /\ j.f # EOB /\ off = r.refusedAck
                      \/ r.state = "Data" /\ off = r.pos
                      \/ r.state \in {"Init", "Done"}
Refuses(v, r, j, k, done, next) ==
    /\ r.state = "Finfo" /\ j.f \in File /\ j.f # r.refused
    /\ v.state = r.state /\ v.open = r.open /\ v.file = r.file /\ v.pos = r.pos
    /\ v.refused = j.f /\ k = OffPkt("FINFOACK", v.refusedAck)
    /\ \/ v.refusedAck = ackHaveFile /\ next = Complete(done, j.f, "Skip")
       \/ v.refusedAck = ackDefer /\ \E o \in {"Defer", "Range"} : next = Complete(done, j.f, o)
OpensFile(v, r, j, k, g, h) ==
    /\ r.state = "Finfo" /\ j.f \in File /\ j.f # r.refused
    /\ v.state = "Data" /\ v.open /\ v.file = j.f /\ v.refused = NoFile
    /\ v.pos \in ResumeAt /\ v.pos <= SafeMax /\ k = OffPkt("FINFOACK", v.pos)
    /\ h = [g EXCEPT ![j.f] = Content(j.f, 0, v.pos)]
AsksAgain(v, r, j, k) ==
    /\ r.state = "Data" /\ SamePlace(v, r)
    /\ \E id : k = Pkt("RPOS", r.file, r.pos, 0, id)
FailsToWrite(v, r, j, k, done, next) ==
    /\ r.state = "Data" /\ j.off = r.pos /\ r.open
    /\ v.state = "Data" /\ Shut(v, r) /\ v.pos = offsetSkip
    /\ \E id : k = Pkt("RPOS", r.file, offsetSkip, 0, id)
    /\ next = Complete(done, r.file, "Write")
TakesBlock(v, r, j, k, g, h) ==
    /\ r.state = "Data" /\ j.off = r.pos /\ SameRx(v, r)
    /\ v.pos = r.pos + j.n /\ v.refusedAck = r.refusedAck
    /\ k = OffPkt("DATAACK", v.pos) \/ k = Nothing
    /\ h = IF r.open THEN [g EXCEPT ![r.file] = @ \o Content(j.f, j.off, j.n)] ELSE g
ClosesFile(v, r, j, k, done, next) ==
    /\ r.state = "Data" /\ v.state = "Finfo" /\ Shut(v, r) /\ k = Ctl("EOFACK")
    /\ \E o \in {"SenderSkip", "nil"} :
        /\ IF j.off < 0 THEN o = "SenderSkip" ELSE o = "nil" /\ j.off = r.pos
        /\ next = IF r.open THEN Complete(done, r.file, o) ELSE done

ReceiveStep(r, v, n, nn, k, done, next, g, h, op, nop) ==
    \/ Ignores(v, r, n, nn, k) /\ next = done /\ h = g /\ nop = op
    \/ \E j : /\ Took(n, nn, j, "FINFO")
              /\ \/ AnswersFinfo(v, r, j, k) /\ next = done /\ h = g /\ nop = op
                 \/ Refuses(v, r, j, k, done, next) /\ h = g /\ nop = op
                 \/ OpensFile(v, r, j, k, g, h) /\ next = done /\ nop = op \cup {j.f}
    \/ \E j : /\ Took(n, nn, j, "DATA")
              /\ nop = op
              /\ \/ AsksAgain(v, r, j, k) /\ next = done /\ h = g
                 \/ FailsToWrite(v, r, j, k, done, next) /\ h = g
                 \/ TakesBlock(v, r, j, k, g, h) /\ next = done
    \/ \E j : /\ Took(n, nn, j, "EOF")
              /\ h = g /\ nop = op
              /\ \/ AsksAgain(v, r, j, k) /\ next = done
                 \/ ClosesFile(v, r, j, k, done, next)
                 \/ r.state = "Finfo" /\ SamePlace(v, r) /\ k = Ctl("EOFACK") /\ next = done

\* The end of its Run.
ReceiveStop(v, r, nn, done, next, g, h, op, nop) ==
    /\ v.state = r.state /\ Shut(v, r) /\ v.pos = r.pos
    /\ nn = <<>> /\ h = g /\ nop = op
    /\ next = IF r.open THEN Complete(done, r.file, "Aborted") ELSE done

-----------------------------------------------------------------------------
(* A step of p.                                                            *)

\* What such a step leaves alone at the other end.
OtherEnd(p) ==
    /\ tx'[Other(p)] = tx[Other(p)] /\ rx'[Other(p)] = rx[Other(p)]
    /\ res'[Other(p)] = res[Other(p)]
RunStep(p, t, k) ==
    /\ t \in TxType /\ k \in Packet /\ OtherEnd(p) /\ res' = res
    /\ res[p] # "run" => SendsNothing(t, tx[p], k) /\ Ignores(rx'[p], rx[p], net[p], net'[p], k)
    /\ SendStep(p, tx[p], t, net[Other(p)], net[p], net'[p], k, sDone, sDone')
    /\ SyncStep(tx'[p], t, rx'[p])
    /\ ReceiveStep(rx[p], rx'[p], net[p], net'[p], k, rDone, rDone', got, got', opened, opened')
    /\ Adds(net'[Other(p)], net[Other(p)], k)
StopStep(p) ==
    /\ OtherEnd(p) /\ res[p] = "run" /\ res'[p] \in {"ok", "err"}
    /\ res'[p] = "ok" => tx[p].state \in FromEnd
    /\ SendStop(tx'[p], tx[p], net[p], net'[p], sDone, sDone')
    /\ ReceiveStop(rx'[p], rx[p], net'[p], rDone, rDone', got, got', opened, opened')
    /\ Adds(net'[Other(p)], net[Other(p)], Nothing)

\* A FINFO's timer never beats the answer.  Were it to, the receiver's second
\* FINFOACK could be taken for the answer to the next FINFO, which the packet
\* does not name (StaleAck).
Patient == "FinfoAck" \notin Hasty

-----------------------------------------------------------------------------
(* The ends of a step.                                                     *)

\* sync.
LEMMA SyncSteps ==
  ASSUME NEW t \in TxType, NEW r, NEW d, NEW u, u = sync(t, r, d)
  PROVE  u \in TxType /\ SyncStep(u, t, r)
<1>1. u \in TxType /\ SameFile(u, t)
  BY SyncKeeps
<1>2. \/ u = t
      \/ t.state \in {"Start", "Swait"} /\ u = Advance(t, "Init")
      \/ t.state = "Rinit" /\ r.state # "Init" /\ u = Advance(t, "Finfo")
      \/ t.state = "Xdata" /\ u = Await(t, "Xwait")
      \/ t.state = "Xwait" /\ u = Advance(t, "Xdata")
      \/ t.state = "Rend" /\ r.state = "Done" /\ u = Advance(t, "End")
  BY DEF sync, endGate
<1>3. {"Init", "Finfo", "Xwait", "Xdata", "End"} \subseteq TxState
  BY DEF TxState
<1>4. \A s \in TxState : Advance(t, s).state = s /\ Await(t, s).state = s
  BY AdvanceKeeps, AwaitKeeps
<1>5. SameData(u, t) /\ SameWindow(u, t)
  BY <1>2, AdvanceView, AwaitView DEF SameData, SameWindow
<1> QED
  BY <1>1, <1>2, <1>3, <1>4, <1>5 DEF SyncStep

\* A step that leaves p's Run active.
LEMMA ContinueSteps ==
  ASSUME SentInv, NEW p \in Peer, res[p] = "run",
         NEW t \in TxType, NEW r, NEW d, NEW out \in Seq(Packet),
         NEW n, n[Other(p)] = net[Other(p)], n \in [Peer -> Seq(Packet)],
         Continue(p, n, t, r, d, out), NEW k \in Packet, Carries(out, k),
         SendStep(p, tx[p], t, net[Other(p)], net[p], n[p], k, sDone, sDone'),
         ReceiveStep(rx[p], r, net[p], n[p], k, rDone, rDone', got, got', opened, opened')
  PROVE  RunStep(p, t, k)
<1> DEFINE o == Other(p)
<1>1. /\ o \in Peer /\ o # p /\ tx \in [Peer -> TxType] /\ rx \in [Peer -> RxType]
      /\ net \in [Peer -> Seq(Packet)]
  BY TheOther DEF SentInv, TypeOK, MachinesOK
<1>2. /\ tx' = [tx EXCEPT ![p] = sync(t, r, d)] /\ rx' = [rx EXCEPT ![p] = r]
      /\ net' = Deliver(n, p, out) /\ res' = res
  BY DEF Continue
<1>3. tx'[p] = sync(t, r, d) /\ rx'[p] = r /\ OtherEnd(p)
  BY <1>1, <1>2 DEF OtherEnd
<1>4. net'[p] = n[p] /\ net'[o] = IF res[o] = "run" THEN net[o] \o out ELSE <<>>
  BY <1>1, <1>2 DEF Deliver
<1>5. Adds(net'[o], net[o], k)
  BY <1>1, <1>4, AddsOut, LessFew
<1>6. SyncStep(tx'[p], t, rx'[p])
  BY <1>3, SyncSteps
<1> QED
  BY <1>2, <1>3, <1>4, <1>5, <1>6 DEF RunStep

\* The end of p's Run.
LEMMA FinishSteps ==
  ASSUME SentInv, NEW p \in Peer, res[p] = "run", NEW result \in {"ok", "err"},
         result = "ok" => tx[p].state \in FromEnd,
         NEW t \in TxType, SameFile(t, tx[p]), SameData(t, tx[p]), SameWindow(t, tx[p]),
         t.state = tx[p].state \/ (t.state \in FromEnd /\ tx[p].state \in FromEnd),
         NEW r \in RxType, SamePlace(r, rx[p]), NEW d,
         NEW out \in Seq(Packet), Void(out, Mattering), Finish(p, result, t, r, d, out)
  PROVE  StopStep(p)
<1> DEFINE o == Other(p)
           u == [t EXCEPT !.offer = NoFile]
           v == [r EXCEPT !.open = FALSE]
<1>1. /\ o \in Peer /\ o # p /\ tx \in [Peer -> TxType] /\ rx \in [Peer -> RxType]
      /\ net \in [Peer -> Seq(Packet)] /\ res \in [Peer -> {"run", "ok", "err"}]
  BY TheOther DEF SentInv, TypeOK, MachinesOK
<1>2. /\ tx' = [tx EXCEPT ![p] = u] /\ rx' = [rx EXCEPT ![p] = v]
      /\ net' = [Deliver(net, p, out) EXCEPT ![p] = <<>>] /\ res' = [res EXCEPT ![p] = result]
      /\ sDone' = IF t.offer = NoFile THEN sDone ELSE Complete(sDone, t.offer, "Aborted")
      /\ rDone' = IF r.open THEN Complete(rDone, r.file, "Aborted") ELSE rDone
      /\ got' = got /\ opened' = opened
  BY DEF Finish
<1>3. tx'[p] = u /\ rx'[p] = v /\ res'[p] = result /\ OtherEnd(p)
  BY <1>1, <1>2 DEF OtherEnd
<1>4. net'[p] = <<>> /\ net'[o] = IF res[o] = "run" THEN net[o] \o out ELSE <<>>
  BY <1>1, <1>2 DEF Deliver
<1>5. Adds(net'[o], net[o], Nothing)
  BY <1>1, <1>4, AddsOut, LessFew, CarriesFew
<1>6. /\ u.offer = NoFile /\ u.next = t.next /\ SameData(u, t) /\ SameWindow(u, t)
      /\ u.state = t.state /\ u.eob = t.eob /\ u.lastFinfo = t.lastFinfo
  BY OtherView, ClearedKeeps
<1>7. v.state = r.state /\ Shut(v, r) /\ v.pos = r.pos
  BY RxViews
<1> HIDE DEF u, v
<1>8. SendStop(u, tx[p], net[p], net'[p], sDone, sDone')
  BY <1>2, <1>4, <1>6 DEF SendStop, SameFile, SameData, SameWindow
<1>9. ReceiveStop(v, rx[p], net'[p], rDone, rDone', got, got', opened, opened')
  BY <1>2, <1>4, <1>7 DEF ReceiveStop, Shut, SamePlace, SameRx
<1> QED
  BY <1>3, <1>5, <1>8, <1>9 DEF StopStep

\* A packet handled.
LEMMA HandledSteps ==
  ASSUME SentInv, NEW p \in Peer, NEW type, Hears(p, type),
         NEW t \in TxType, NEW r, NEW d, NEW out \in Seq(Packet), Handled(p, t, r, d, out),
         NEW k \in Packet, Carries(out, k),
         SendStep(p, tx[p], t, net[Other(p)], net[p], Tail(net[p]), k, sDone, sDone'),
         ReceiveStep(rx[p], r, net[p], Tail(net[p]), k, rDone, rDone', got, got', opened, opened')
  PROVE  RunStep(p, t, k)
<1>1. MachinesOK /\ net \in [Peer -> Seq(Packet)] /\ Other(p) # p /\ Other(p) \in Peer
  BY TheOther DEF SentInv, TypeOK, MachinesOK
<1>2. Taken(p) \in [Peer -> Seq(Packet)] /\ res[p] = "run"
  BY <1>1, HeardPacket DEF Hears
<1>3. Taken(p)[p] = Tail(net[p]) /\ Taken(p)[Other(p)] = net[Other(p)]
  BY <1>1 DEF Taken
<1> QED
  BY <1>2, <1>3, ContinueSteps DEF Handled

\* A machine left alone.
LEMMA LeftAlone ==
  ASSUME NEW t \in TxType, NEW r
  PROVE  SameFile(t, t) /\ SameData(t, t) /\ SameWindow(t, t) /\ Stays(t, t) /\ SamePlace(r, r)
  BY DEF SameFile, SameData, SameWindow, Stays, SamePlace, SameRx, TxType

\* The packet heard, and what is left.
LEMMA HeardSteps ==
  ASSUME SentInv, NEW p \in Peer, NEW type, Hears(p, type)
  PROVE  /\ Took(net[p], Tail(net[p]), Head(net[p]), type)
         /\ Less(Tail(net[p]), net[p])
<1>1. net[p] \in Seq(Packet) /\ net[p] # <<>> /\ Head(net[p]).t = type
  BY DEF SentInv, TypeOK, MachinesOK, Hears
<1> QED
  BY <1>1, LessFew DEF Took

\* Nothing is a packet that does not matter.
LEMMA NothingMatters ==
  Nothing \in Packet /\ Nothing.t \notin Mattering /\ Nothing.t \notin Forward
  /\ Nothing.t \notin Answer /\ <<>> \in Seq(Packet) /\ \A k : Carries(<<>>, k)
<1>1. "IDLE" \in PlainType /\ Nothing.t = "IDLE"
  BY DEF PlainType, PktType, Nothing, Ctl, Pkt
<1>2. Nothing \in Packet
  BY <1>1, ControlPacket DEF Nothing
<1> QED
  BY <1>1, <1>2, CarriesFew DEF Mattering, Forward, Answer

-----------------------------------------------------------------------------
(* A pass of the event loop.                                               *)

\* The cursor t that a pass starts from: that of x, or what the timers made
\* of it.  With Patient, a FINFO is repeated only when all is quiet: n and m
\* are the channels from and to the sender.
Rewinds(t, x, n, m) ==
    /\ SameFile(t, x) /\ SameData(t, x) /\ t.lastAck = x.lastAck
    /\ \/ t.state = x.state /\ Tried(t, x)
       \/ t.state \in BeforeFinfo /\ x.state \in BeforeFinfo
       \/ t.state = "Finfo" /\ x.state = "FinfoAck" /\ n = <<>> /\ m = <<>>
       \/ /\ t.state = "Xdata" /\ x.state = "DataAck"
          /\ t.window = 0 \/ (t.window = x.window /\ t.retries = x.retries + 1)
       \/ t.state = "EOF" /\ x.state = "EOFAck" /\ Tried(t, x)
       \/ t.state \in FromEnd /\ x.state \in FromEnd

\* A cursor that the timers leave alone.
LEMMA Unwound ==
  ASSUME NEW x \in TxType, NEW n, NEW m
  PROVE  Rewinds(x, x, n, m)
<1>1. x.retries \in Nat
  BY SomeRetries DEF TxType
<1> QED
  BY <1>1 DEF Rewinds, SameFile, SameData, Tried

\* An expired TX timer.
LEMMA TimeoutRewinds ==
  ASSUME NEW x \in TxType, ~TxExhausted(x), NEW t, t = txTimeout(x),
         NEW n, NEW m, x.state = "FinfoAck" => n = <<>> /\ m = <<>>
  PROVE  Rewinds(t, x, n, m)
<1>1. \/ t = x
      \/ t = dropWindow(x) /\ x.state = "DataAck"
      \/ t = retry(x) /\ x.retries < MaxRetries
  <2>1. x.retries \in Nat /\ MaxRetries \in Nat
    BY SomeRetries DEF TxType
  <2> QED
    BY <2>1 DEF txTimeout, TxExhausted, WindowIgnored
<1>2. CASE t = x
  BY <1>2, Unwound
<1>3. CASE t = dropWindow(x) /\ x.state = "DataAck"
  BY <1>3, DropWindowKeeps, ExpiredView DEF Rewinds
<1>4. CASE t = retry(x) /\ x.retries < MaxRetries
  <2>1. x.state \in TxState /\ x.retries \in Nat
    BY SomeRetries DEF TxType
  <2>2. /\ Retried(x.state) \in TxState
        /\ \/ Retried(x.state) = x.state
           \/ Retried(x.state) \in BeforeFinfo /\ x.state \in BeforeFinfo
           \/ Retried(x.state) = "Finfo" /\ x.state = "FinfoAck"
           \/ Retried(x.state) = "Xdata" /\ x.state = "DataAck"
           \/ Retried(x.state) = "EOF" /\ x.state = "EOFAck"
           \/ Retried(x.state) \in FromEnd /\ x.state \in FromEnd
    BY <2>1 DEF Retried, TxState, BeforeFinfo, FromEnd
  <2>3. SameFile(t, x) /\ t.state = Retried(x.state)
    BY <1>4, <2>2, RetryKeeps
  <2>4. SameData(t, x) /\ SameWindow(t, x) /\ t.retries = x.retries + 1
    BY <1>4, ExpiredView
  <2>5. Tried(t, x) /\ t.lastAck = x.lastAck /\ t.window = x.window
    BY <2>1, <2>4 DEF Tried, SameWindow
  <2> QED
    BY <2>2, <2>3, <2>4, <2>5 DEF Rewinds
<1> QED
  BY <1>1, <1>2, <1>3, <1>4

\* Retries exhausted, or a pass.
LEMMA LoopRewinds ==
  ASSUME SentInv, Patient, NEW p \in Peer, Loop(p) \/ fireTimers(p)
  PROVE  /\ res[p] = "run"
         /\ \/ Finish(p, "err", tx[p], rx[p], dev[p], <<>>)
            \/ /\ tx[p].state = "EndAck"
               /\ Finish(p, "ok", [tx[p] EXCEPT !.state = "Done"], rx[p], dev[p], <<>>)
            \/ \E t \in TxType : \E d \in DevType :
               \E pre \in {<<>>, <<Ctl("IDLE")>>} :
                  /\ Rewinds(t, tx[p], net[Other(p)], net[p]) /\ TxShape(p, t)
                  /\ Pass(p, t, d, pre)
<1> DEFINE x == tx[p]
           Rw(t) == Rewinds(t, x, net[Other(p)], net[p])
<1>1. res[p] = "run"
  BY DEF Loop, HasWork, fireTimers
<1>2. x \in TxType /\ dev[p] \in DevType /\ TxShape(p, x)
  BY <1>1, PendingOffer DEF SentInv, TypeOK
<1>3. Rw(x)
  BY <1>2, Unwound
<1>4. CASE Loop(p)
  BY <1>1, <1>2, <1>3, <1>4 DEF Loop
<1>5. CASE fireTimers(p)
  <2>1. PICK fired \in SUBSET {"tx", "dev"} \ {{}} :
          LET t == IF "tx" \in fired THEN txTimeout(x) ELSE x
              d == IF "dev" \in fired THEN devTimeout(dev[p]) ELSE dev[p]
              gaveUp == \/ "tx" \in fired /\ TxExhausted(x) /\ x.state # "EndAck"
                        \/ "dev" \in fired /\ dev[p].retries >= MaxRetries
              left == ~gaveUp /\ "tx" \in fired /\ TxExhausted(x)
          IN /\ "tx" \in fired => Quiet \/ x.state \in Hasty
             /\ \/ gaveUp /\ Finish(p, "err", x, rx[p], dev[p], <<>>)
                \/ left /\ Finish(p, "ok", [x EXCEPT !.state = "Done"], rx[p], dev[p], <<>>)
                \/ /\ ~gaveUp /\ ~left
                   /\ Pass(p, t, d, IF "tx" \in fired /\ Idling(x) THEN <<Ctl("IDLE")>> ELSE <<>>)
    BY <1>5 DEF fireTimers
  <2> DEFINE t == IF "tx" \in fired THEN txTimeout(x) ELSE x
             d == IF "dev" \in fired THEN devTimeout(dev[p]) ELSE dev[p]
             pre == IF "tx" \in fired /\ Idling(x) THEN <<Ctl("IDLE")>> ELSE <<>>
  <2>2. CASE Finish(p, "err", x, rx[p], dev[p], <<>>)
    BY <2>2, <1>1
  <2>3. CASE x.state = "EndAck" /\ Finish(p, "ok", [x EXCEPT !.state = "Done"], rx[p], dev[p], <<>>)
    BY <2>3, <1>1
  <2>4. CASE /\ ~("tx" \in fired /\ TxExhausted(x))
             /\ ~("dev" \in fired /\ dev[p].retries >= MaxRetries)
             /\ Pass(p, t, d, pre)
    <3>1. t \in TxType /\ TxShape(p, t) /\ Rw(t)
      <4>1. CASE "tx" \in fired
        <5>1. t = txTimeout(x) /\ ~TxExhausted(x)
          BY <2>4, <4>1
        <5>2. x.state = "FinfoAck" => net[Other(p)] = <<>> /\ net[p] = <<>>
          BY <2>1, <4>1, TheOther DEF Patient, Quiet
        <5> HIDE DEF t
        <5> QED
          BY <5>1, <5>2, <1>2, TimeoutKeeps, TimeoutRewinds
      <4>2. CASE "tx" \notin fired
        BY <4>2, <1>2, <1>3
      <4> QED
        BY <4>1, <4>2
    <3>2. d \in DevType
      <4>1. dev[p].retries \in Nat /\ MaxRetries \in Nat
        BY <1>2, SomeRetries DEF DevType
      <4>2. CASE "dev" \notin fired
        BY <4>2, <1>2
      <4>3. CASE "dev" \in fired
        <5>1. ~(dev[p].retries >= MaxRetries)
          BY <2>4, <4>3, Zenon
        <5>2. dev[p].retries < MaxRetries
          BY <4>1, <5>1
        <5>3. d = devTimeout(dev[p])
          BY <4>3
        <5> QED
          BY <5>2, <5>3, <1>2, DevTimeoutKeeps
      <4> QED
        BY <4>2, <4>3
    <3>3. pre \in {<<>>, <<Ctl("IDLE")>>}
      OBVIOUS
    <3>4. Pass(p, t, d, pre)
      BY <2>4
    <3> HIDE DEF t, d, pre, Rw
    <3>5. \E w \in TxType : \E e \in DevType : \E a \in {<<>>, <<Ctl("IDLE")>>} :
            Rw(w) /\ TxShape(p, w) /\ Pass(p, w, e, a)
      BY <3>1, <3>2, <3>3, <3>4
    <3> QED
      BY <1>1, <3>5 DEF Rw
  <2> QED
    BY <2>1, <2>2, <2>3, <2>4
<1> QED
  BY <1>4, <1>5

\* What a pass amounts to for the sender whose cursor was x.
Passes(p, x, t, d, pre, n, m) ==
    \E u \in TxType : \E out \in Seq(Packet) : \E k \in Packet :
        /\ Sent(p, t, d, u, pre, out) /\ Carries(out, k) /\ k.t \notin Answer
        /\ SendStep(p, x, u, n, m, m, k, sDone, sDone')

\* What a sender writes is no answer.
LEMMA NoAnswers ==
  /\ Nothing.t \notin Answer
  /\ \A f, off, n, id : /\ Pkt("FINFO", f, off, n, id).t \notin Answer
                        /\ Pkt("DATA", f, off, n, id).t \notin Answer
  /\ \A off : OffPkt("EOF", off).t \notin Answer
  BY NothingMatters DEF Pkt, OffPkt, Answer

\* START, INIT and END.
LEMMA ControlPasses ==
  ASSUME NEW p \in Peer, NEW x \in TxType, NEW t \in TxType, NEW d, NEW pre, NEW n,
         NEW m \in Seq(Packet), Rewinds(t, x, n, m),
         sendStart(p, t, d, pre) \/ sendInit(p, t, d, pre) \/ sendEnd(p, t, d, pre)
  PROVE  Passes(p, x, t, d, pre, n, m)
<1>1. PICK u, out :
        /\ Sent(p, t, d, u, pre, out) /\ sDone' = sDone
        /\ \/ t.state = "Start" /\ u = Await(t, "Swait") /\ out = <<Ctl("START")>>
           \/ t.state = "Init" /\ u = Await(t, "InitAck") /\ out = <<Ctl("INIT")>>
           \/ t.state = "End" /\ u = Await(t, "EndAck") /\ out = <<Ctl("END"), Ctl("END")>>
  BY DEF sendStart, sendInit, sendEnd
<1>2. "Swait" \in TxState /\ "InitAck" \in TxState /\ "EndAck" \in TxState
  BY DEF TxState
<1>3. /\ u \in TxType /\ SameFile(u, t)
      /\ \/ t.state = "Start" /\ u.state = "Swait"
         \/ t.state = "Init" /\ u.state = "InitAck"
         \/ t.state = "End" /\ u.state = "EndAck"
  BY <1>1, <1>2, AwaitKeeps
<1>4. SameData(u, t) /\ SameWindow(u, t)
  BY <1>1, AwaitView
<1>5. "START" \in PlainType /\ "INIT" \in PlainType /\ "END" \in PlainType
  BY DEF PktType, PlainType
<1>6. /\ Ctl("START") \in Packet /\ Ctl("INIT") \in Packet /\ Ctl("END") \in Packet
      /\ Ctl("START").t = "START" /\ Ctl("INIT").t = "INIT" /\ Ctl("END").t = "END"
  BY <1>5, ControlPacket DEF Ctl, Pkt
<1>7. \A k \in Packet : <<k>> \in Seq(Packet) /\ <<k, k>> \in Seq(Packet)
  OBVIOUS
<1>8. out \in Seq(Packet)
  BY <1>1, <1>6, <1>7, Zenon
<1>9. \E k : (out = <<k>> \/ out = <<k, k>>) /\ k.t \notin Mattering
  <2>1. "START" \notin Mattering /\ "INIT" \notin Mattering /\ "END" \notin Mattering
    BY DEF Mattering, Forward, Answer
  <2> QED
    BY <1>1, <1>6, <2>1
<1>10. Void(out, Mattering)
  BY <1>9, AmongFew DEF Void
<1>11. Stays(u, x)
  BY <1>3 DEF Rewinds, Stays, BeforeFinfo, FromEnd
<1>12. SendsNothing(u, x, Nothing)
  BY <1>3, <1>4, <1>11, NothingMatters
     DEF SendsNothing, Rewinds, SameFile, SameData, SameWindow
<1>13. Less(m, m)
  BY LessFew
<1>14. SendStep(p, x, u, n, m, m, Nothing, sDone, sDone')
  BY <1>1, <1>12, <1>13 DEF SendStep
<1> QED
  BY <1>1, <1>3, <1>8, <1>10, <1>14, CarriesFew, NothingMatters, NoAnswers DEF Passes

\* A FINFO repeated.
LEMMA ResendPasses ==
  ASSUME NEW p \in Peer, NEW x \in TxType, NEW t \in TxType, NEW d, NEW pre, NEW n,
         NEW m \in Seq(Packet), Rewinds(t, x, n, m), resendFinfo(p, t, d, pre)
  PROVE  Passes(p, x, t, d, pre, n, m)
<1> DEFINE u == announced(t)
           k == Pkt("FINFO", t.lastFinfo, 0, 0, 0)
<1>1. t.state = "Finfo" /\ t.lastFinfo # NoFile /\ Sent(p, t, d, u, pre, <<k>>) /\ sDone' = sDone
  BY DEF resendFinfo
<1>2. t.lastFinfo \in File \cup {EOB}
  BY <1>1 DEF TxType
<1>3. k \in Packet /\ <<k>> \in Seq(Packet)
  BY <1>2, FinfoPacket
<1>4. /\ u \in TxType /\ u.offer = t.offer /\ u.next = t.next /\ u.eob = t.eob
      /\ u.lastFinfo = t.lastFinfo /\ u.state = "FinfoAck"
  BY AnnouncedKeeps
<1>5. SameData(u, t)
  BY WrittenView
<1>6. SameFile(t, x) /\ SameData(t, x)
      /\ (x.state = "Finfo" \/ (x.state = "FinfoAck" /\ n = <<>> /\ m = <<>>))
  BY <1>1 DEF Rewinds, BeforeFinfo, FromEnd
<1>7. SameCursor(u, x) /\ u.lastFinfo = x.lastFinfo /\ SameData(u, x) /\ x.lastFinfo = t.lastFinfo
  BY <1>4, <1>5, <1>6 DEF SameFile, SameCursor, SameData
<1> HIDE DEF u
<1>8. Repeats(u, x, n, m, k)
  BY <1>1, <1>4, <1>6, <1>7 DEF Repeats
<1>9. SendStep(p, x, u, n, m, m, k, sDone, sDone')
  BY <1>1, <1>8 DEF SendStep
<1> QED
  BY <1>1, <1>3, <1>4, <1>9, CarriesFew, NoAnswers DEF Passes

\* The next FINFO.
LEMMA AnnouncePasses ==
  ASSUME NEW p \in Peer, NEW x \in TxType, TxShape(p, x), NEW t \in TxType, TxShape(p, t),
         NEW d, NEW pre, NEW n, NEW m \in Seq(Packet), Rewinds(t, x, n, m),
         sendFinfo(p, t, d, pre), sDone \in [File -> Seq(Outcome)]
  PROVE  Passes(p, x, t, d, pre, n, m)
<1>1. t.state = "Finfo" /\ t.lastFinfo = NoFile /\ t.offer = NoFile
  BY DEF sendFinfo, TxShape
<1>2. PICK j \in pullsTo(p, t) :
        LET u == IF j > Len(Offers[p]) THEN endOfBatch(t, j) ELSE newOffer(t, Offers[p][j], j)
        IN /\ Sent(p, t, d, announced(u), pre, <<Pkt("FINFO", u.lastFinfo, 0, 0, 0)>>)
           /\ sDone' = [f \in File |->
                IF \E i \in t.next..(j - 1) : Offers[p][i] = f
                THEN Append(sDone[f], "TooLarge") ELSE sDone[f]]
  BY DEF sendFinfo
<1> DEFINE u == IF j > Len(Offers[p]) THEN endOfBatch(t, j) ELSE newOffer(t, Offers[p][j], j)
           w == announced(u)
           k == Pkt("FINFO", u.lastFinfo, 0, 0, 0)
<1>3. j \in Nat /\ j \in t.next..(Len(Offers[p]) + 1)
  BY <1>1, PullsTo
<1>4. Len(Offers[p]) \in Nat /\ t.next \in 1..(Len(Offers[p]) + 1)
  BY OffersAreFiles DEF TxShape
<1>5. Sent(p, t, d, w, pre, <<k>>)
  BY <1>2
<1>6. \A i \in t.next..(j - 1) : Offers[p][i] \in BadOffer
  BY <1>1, <1>3, <1>4 DEF pullsTo
<1>7. \A f \in File :
        sDone'[f] = sDone[f] \/ (f \in BadOffer /\ sDone'[f] = Append(sDone[f], "TooLarge"))
  BY <1>2, <1>6
<1>8. /\ u \in TxType /\ u.lastFinfo \in File \cup {EOB}
      /\ \/ u.eob /\ u.lastFinfo = EOB /\ u.next = Len(Offers[p]) + 1 /\ u.offer = NoFile
         \/ /\ ~u.eob /\ u.offer \in Offered(p) /\ u.lastFinfo = u.offer
            /\ u.offer = Current(p, u) /\ u.offer \notin BadOffer /\ ~u.skip /\ u.err = "nil"
  <2>1. CASE j > Len(Offers[p])
    <3>1. u = endOfBatch(t, j) /\ j \notin 1..Len(Offers[p])
      BY <2>1, <1>4
    <3> HIDE DEF u
    <3> QED
      BY <3>1, PulledEnd
  <2>2. CASE ~(j > Len(Offers[p]))
    <3>1. u = newOffer(t, Offers[p][j], j) /\ j \in 1..Len(Offers[p])
      BY <2>2, <1>3, <1>4
    <3>2. Offers[p][j] \in File /\ Offers[p][j] \in Offered(p)
      BY <3>1, PlaceOf
    <3> HIDE DEF u
    <3>3. /\ u \in TxType /\ u.offer = Offers[p][j] /\ u.next = j + 1 /\ ~u.eob
          /\ u.lastFinfo = Offers[p][j]
      BY <3>1, PulledNext
    <3>4. ~u.skip /\ u.err = "nil"
      BY <3>1, NewOfferView
    <3>5. Current(p, u) = Offers[p][j]
      BY <1>3, <3>3 DEF Current
    <3>6. Offers[p][j] \notin BadOffer
      BY <1>1, <1>2, <3>1 DEF pullsTo
    <3> QED
      BY <3>2, <3>3, <3>4, <3>5, <3>6
  <2> QED
    BY <2>1, <2>2
<1> HIDE DEF u
<1>9. /\ w \in TxType /\ w.offer = u.offer /\ w.next = u.next /\ w.eob = u.eob
      /\ w.lastFinfo = u.lastFinfo /\ w.state = "FinfoAck"
  BY <1>8, AnnouncedKeeps
<1>10. SameData(w, u)
  BY <1>8, WrittenView
<1>11. k \in Packet /\ <<k>> \in Seq(Packet)
  BY <1>8, FinfoPacket
<1>12. x.state = "Finfo" /\ x.lastFinfo = NoFile
  BY <1>1 DEF Rewinds, BeforeFinfo, FromEnd, SameFile, TxShape
<1> HIDE DEF w
<1>13. k = Pkt("FINFO", w.lastFinfo, 0, 0, 0)
  BY <1>9
<1>20. k.t \notin Answer
  BY NoAnswers
<1> HIDE DEF k
<1>14. AnnouncesNext(p, w, x, k, sDone, sDone')
  BY <1>7, <1>8, <1>9, <1>10, <1>12, <1>13 DEF AnnouncesNext, SameData, Current
<1>15. SendStep(p, x, w, n, m, m, k, sDone, sDone')
  BY <1>14 DEF SendStep
<1> QED
  BY <1>5, <1>9, <1>11, <1>15, <1>20, CarriesFew DEF Passes

\* sendData with nothing to send.
LEMMA EndPasses ==
  ASSUME NEW p \in Peer, NEW x \in TxType, NEW t \in TxType, NEW d, NEW pre, NEW n,
         NEW m \in Seq(Packet), Rewinds(t, x, n, m), TxShape(p, t), sendNoData(p, t, d, pre)
  PROVE  Passes(p, x, t, d, pre, n, m)
<1>1. t.state = "Xdata" /\ sDone' = sDone
  BY DEF sendNoData
<1>2. t.offer \in File /\ SafeMax \in Nat /\ Actual[t.offer] \in Nat /\ t.pos \in Nat
      /\ MaxBlock \in Nat
  BY <1>1, FileAssumption, BoundAssumption DEF TxShape, Transferring, TxType
<1>3. PICK u : /\ Sent(p, t, d, u, pre, <<>>)
               /\ \/ u = [t EXCEPT !.state = "EOF"] /\ (t.skip \/ t.pos >= Actual[t.offer])
                  \/ u = skipFile(t, "Read") /\ ~t.skip
                  \/ u = skipFile(t, "TooLarge") /\ ~t.skip /\ Actual[t.offer] > SafeMax
  <2>1. (\E i \in 1..MaxBlock : t.pos + i <= Actual[t.offer] /\ t.pos + i > SafeMax)
        => Actual[t.offer] > SafeMax
    BY <1>2
  <2> QED
    BY <2>1 DEF sendNoData
<1>4. "EOF" \in TxState /\ "Read" \in Outcome /\ "TooLarge" \in Outcome
  BY DEF TxState, Outcome
<1>5. u \in TxType /\ SameFile(u, t) /\ u.state = "EOF"
  BY <1>3, <1>4, StateKeeps, SkipFileKeeps
<1>6. /\ u.pos = t.pos /\ SameWindow(u, t) /\ u.retries = t.retries
      /\ \/ u.skip = t.skip /\ u.err = t.err /\ (t.skip \/ t.pos >= Actual[t.offer])
         \/ ~t.skip /\ u.skip /\ u.err = "Read"
         \/ ~t.skip /\ u.skip /\ u.err = "TooLarge" /\ Actual[t.offer] > SafeMax
  <2>1. CASE u = [t EXCEPT !.state = "EOF"] /\ (t.skip \/ t.pos >= Actual[t.offer])
    <3>1. SameData(u, t) /\ SameWindow(u, t) /\ u.retries = t.retries
      BY <2>1, StateView
    <3> QED
      BY <2>1, <3>1 DEF SameData
  <2>2. CASE u = skipFile(t, "Read") /\ ~t.skip
    BY <2>2, SkipFileView
  <2>3. CASE u = skipFile(t, "TooLarge") /\ ~t.skip /\ Actual[t.offer] > SafeMax
    BY <2>3, SkipFileView
  <2> QED
    BY <1>3, <2>1, <2>2, <2>3
<1>7. /\ x.state \in {"Xdata", "DataAck"} /\ SameFile(t, x) /\ SameData(t, x)
      /\ t.lastAck = x.lastAck /\ (t.window = 0 \/ (t.window = x.window /\ t.retries >= x.retries))
  <2>1. x.retries \in Nat
    BY SomeRetries DEF TxType
  <2> QED
    BY <1>1, <2>1 DEF Rewinds, Tried, BeforeFinfo, FromEnd
<1>8. SameFile(u, x) /\ u.pos = x.pos /\ u.lastAck = x.lastAck /\ Dropped(u, x)
  BY <1>5, <1>6, <1>7 DEF SameFile, SameData, SameWindow, Dropped, Tried
<1>9. ReachesEnd(u, x, Nothing)
  BY <1>5, <1>6, <1>7, <1>8, NothingMatters DEF ReachesEnd, SameFile, SameData
<1>10. SendStep(p, x, u, n, m, m, Nothing, sDone, sDone')
  BY <1>1, <1>9 DEF SendStep
<1> QED
  BY <1>3, <1>5, <1>10, NothingMatters, NoAnswers DEF Passes

\* A block.
LEMMA DataPasses ==
  ASSUME NEW p \in Peer, NEW x \in TxType, NEW t \in TxType, NEW d, NEW pre, NEW n,
         NEW m \in Seq(Packet), Rewinds(t, x, n, m), TxShape(p, t), sendData(p, t, d, pre)
  PROVE  Passes(p, x, t, d, pre, n, m)
<1>1. PICK i \in 1..MaxBlock :
        LET u == [t EXCEPT !.pos = @ + i] IN
        /\ u.pos <= Actual[t.offer] /\ u.pos <= SafeMax
        /\ Sent(p, t, d, IF windowFull(u) THEN Await(u, "DataAck") ELSE u, pre,
                <<Pkt("DATA", t.offer, t.pos, i, 0)>>)
  BY DEF sendData
<1> DEFINE u == [t EXCEPT !.pos = @ + i]
           w == IF windowFull(u) THEN Await(u, "DataAck") ELSE u
           k == Pkt("DATA", t.offer, t.pos, i, 0)
<1>2. /\ i \in Nat /\ t.state = "Xdata" /\ ~t.skip /\ "DataAck" \in TxState
      /\ sDone' = sDone /\ MaxBlock \in Nat
  BY BoundAssumption DEF sendData, TxState
<1>3. u \in TxType /\ SameFile(u, t) /\ u.state = "Xdata"
  BY <1>2, PosKeeps
<1>4. /\ u.pos = t.pos + i /\ u.skip = t.skip /\ u.err = t.err /\ SameWindow(u, t)
      /\ u.retries = t.retries
  BY PosView
<1>5. u.pos <= Actual[t.offer] /\ u.pos <= SafeMax /\ Sent(p, t, d, w, pre, <<k>>)
  BY <1>1
<1>6. t.offer \in File /\ t.pos \in Nat
  BY <1>2 DEF TxShape, Transferring, TxType
<1>7. k \in Packet /\ <<k>> \in Seq(Packet)
  BY <1>2, <1>6, DataPacket
<1> HIDE DEF u
<1>8. u.window \in Nat /\ u.lastAck \in Nat /\ u.pos \in Nat
  BY <1>3 DEF TxType
<1>9. /\ w \in TxType /\ SameFile(w, u) /\ SameData(w, u) /\ SameWindow(w, u)
      /\ w.retries = u.retries
      /\ \/ w.state = "Xdata" /\ (u.window = 0 \/ u.pos < u.lastAck + u.window)
         \/ w.state = "DataAck" /\ u.pos >= u.lastAck + u.window
  <2>1. CASE windowFull(u)
    <3>1. w = Await(u, "DataAck") /\ u.pos >= u.lastAck + u.window
      BY <2>1 DEF windowFull
    <3> HIDE DEF w
    <3> QED
      BY <1>2, <1>3, <3>1, AwaitKeeps, AwaitView
  <2>2. CASE ~windowFull(u)
    <3>1. w = u /\ (u.window = 0 \/ u.pos < u.lastAck + u.window)
      BY <2>2, <1>8 DEF windowFull
    <3> HIDE DEF w
    <3> QED
      BY <1>3, <3>1 DEF SameFile, SameData, SameWindow
  <2> QED
    BY <2>1, <2>2
<1>10. /\ SameFile(t, x) /\ SameData(t, x) /\ t.lastAck = x.lastAck
       /\ \/ x.state = "Xdata" /\ Tried(t, x)
          \/ /\ x.state = "DataAck"
             /\ t.window = 0 \/ (t.window = x.window /\ t.retries = x.retries + 1)
  BY <1>2 DEF Rewinds, BeforeFinfo, FromEnd
<1>20. k.t \notin Answer
  BY NoAnswers
<1> HIDE DEF w, k
<1>11. /\ SameFile(w, x) /\ w.pos = x.pos + i /\ w.skip = x.skip /\ w.err = x.err
       /\ w.lastAck = x.lastAck /\ w.window = t.window /\ w.retries = t.retries
       /\ x.offer = t.offer /\ x.pos = t.pos /\ x.skip = t.skip
       /\ w.pos = u.pos /\ w.window = u.window /\ w.lastAck = u.lastAck
  BY <1>3, <1>4, <1>9, <1>10 DEF SameFile, SameData, SameWindow
<1>12. Dropped(w, x) /\ (x.state = "DataAck" /\ w.window > 0 => w.retries = x.retries + 1)
  <2>1. x.retries \in Nat /\ t.window \in Nat
    BY SomeRetries DEF TxType
  <2> QED
    BY <2>1, <1>10, <1>11 DEF Dropped, Tried
<1>13. k = Pkt("DATA", x.offer, x.pos, i, 0)
  BY <1>11 DEF k
<1>14. w.pos <= Actual[x.offer] /\ w.pos <= SafeMax
  BY <1>5, <1>11
<1>15. /\ w.state = "Xdata" => w.window = 0 \/ w.pos < w.lastAck + w.window
       /\ w.state = "DataAck" => w.pos >= w.lastAck + w.window
  BY <1>9, <1>11
<1>16. SendsBlock(w, x, k)
  BY <1>2, <1>9, <1>10, <1>11, <1>12, <1>13, <1>14, <1>15 DEF SendsBlock
<1>17. SendStep(p, x, w, n, m, m, k, sDone, sDone')
  BY <1>2, <1>16 DEF SendStep
<1> QED
  BY <1>5, <1>7, <1>9, <1>17, <1>20, CarriesFew DEF Passes

\* The EOF.
LEMMA EofPasses ==
  ASSUME NEW p \in Peer, NEW x \in TxType, NEW t \in TxType, NEW d, NEW pre, NEW n,
         NEW m \in Seq(Packet), Rewinds(t, x, n, m), sendEOF(p, t, d, pre)
  PROVE  Passes(p, x, t, d, pre, n, m)
<1> DEFINE off == IF t.skip THEN offsetSkip ELSE t.pos
           u == eofSent(t)
           k == OffPkt("EOF", off)
<1>1. t.state = "EOF" /\ Sent(p, t, d, u, pre, <<k>>) /\ sDone' = sDone
  BY DEF sendEOF
<1>2. u \in TxType /\ SameFile(u, t) /\ u.state = "EOFAck"
  BY EofSentKeeps
<1>3. SameData(u, t) /\ SameWindow(u, t) /\ u.retries = t.retries
  BY WrittenView
<1>4. off \in Int
  BY DEF offsetSkip, TxType
<1>5. "EOF" \in PlainType
  BY DEF PktType, PlainType
<1> HIDE DEF u
<1>6. /\ x.state \in {"EOF", "EOFAck"} /\ SameFile(t, x) /\ SameData(t, x)
      /\ t.lastAck = x.lastAck /\ Tried(t, x)
  BY <1>1 DEF Rewinds, BeforeFinfo, FromEnd
<1>7. off = IF x.skip THEN offsetSkip ELSE x.pos
  BY <1>6 DEF SameData
<1> HIDE DEF off
<1>8. k \in Packet /\ <<k>> \in Seq(Packet)
  BY <1>4, <1>5, ControlPacket, OffsetAnswer
<1>9. SendsEOF(u, x, k)
  BY <1>2, <1>3, <1>6, <1>7 DEF SendsEOF, SameFile, SameData, SameWindow, Tried
<1>10. SendStep(p, x, u, n, m, m, k, sDone, sDone')
  BY <1>1, <1>9 DEF SendStep
<1>11. k.t \notin Answer
  BY NoAnswers
<1> HIDE DEF k
<1> QED
  BY <1>1, <1>2, <1>8, <1>10, <1>11, CarriesFew DEF Passes

\* The wait states.
LEMMA WaitPasses ==
  ASSUME NEW p \in Peer, NEW x \in TxType, NEW t \in TxType, NEW d, NEW pre, NEW n,
         NEW m \in Seq(Packet), Rewinds(t, x, n, m), sendNothing(p, t, d, pre)
  PROVE  Passes(p, x, t, d, pre, n, m)
<1>1. t.state \notin Sending /\ Sent(p, t, d, t, pre, <<>>) /\ sDone' = sDone
  BY DEF sendNothing
<1>2. SameFile(t, x) /\ SameData(t, x) /\ t.lastAck = x.lastAck
  BY DEF Rewinds
<1>3. Stays(t, x)
  BY <1>1 DEF Rewinds, Stays, Sending, Tried
<1>4. SendsNothing(t, x, Nothing)
  BY <1>2, <1>3, NothingMatters DEF SendsNothing
<1>5. SendStep(p, x, t, n, m, m, Nothing, sDone, sDone')
  BY <1>1, <1>4, LessFew DEF SendStep
<1> QED
  BY <1>1, <1>5, NothingMatters, NoAnswers DEF Passes

\* Every pass.
LEMMA PassSends ==
  ASSUME NEW p \in Peer, NEW x \in TxType, TxShape(p, x), NEW t \in TxType, TxShape(p, t),
         NEW d, NEW pre, NEW n, NEW m \in Seq(Packet), Rewinds(t, x, n, m),
         Pass(p, t, d, pre), sDone \in [File -> Seq(Outcome)]
  PROVE  Passes(p, x, t, d, pre, n, m)
  BY ControlPasses, ResendPasses, AnnouncePasses, EndPasses, DataPasses, EofPasses, WaitPasses
     DEF Pass

\* A step that the receiver is not concerned by.
LEMMA NotReceived ==
  ASSUME NEW r, NEW n \in Seq(Packet), NEW k, k.t \notin Answer, NEW done, NEW g,
         NEW op
  PROVE  /\ ReceiveStep(r, r, n, n, k, done, done, g, g, op, op)
         /\ n # <<>> => ReceiveStep(r, r, n, Tail(n), k, done, done, g, g, op, op)
<1>1. SamePlace(r, r)
  BY DEF SamePlace, SameRx
<1>2. Less(n, n) /\ (n # <<>> => Less(Tail(n), n))
  BY LessFew
<1> QED
  BY <1>1, <1>2 DEF ReceiveStep, Ignores

\* The event loop's passes.
LEMMA LoopSteps ==
  ASSUME SentInv, Patient, NEW p \in Peer, Loop(p) \/ fireTimers(p)
  PROVE  (\E t, k : RunStep(p, t, k)) \/ StopStep(p)
<1>0. /\ tx[p] \in TxType /\ rx[p] \in RxType /\ dev[p] \in DevType
      /\ net \in [Peer -> Seq(Packet)] /\ net[p] \in Seq(Packet)
      /\ sDone \in [File -> Seq(Outcome)] /\ res[p] = "run"
  BY LoopRewinds DEF SentInv, TypeOK, MachinesOK, HistoryOK
<1>1. /\ <<>> \in Seq(Packet) /\ Void(<<>>, Mattering) /\ SameFile(tx[p], tx[p])
      /\ SameData(tx[p], tx[p]) /\ SameWindow(tx[p], tx[p]) /\ SamePlace(rx[p], rx[p])
  <2>1. \A k \in Among(<<>>) : k.t \notin Mattering
    BY AmongFew
  <2>2. /\ SameFile(tx[p], tx[p]) /\ SameData(tx[p], tx[p]) /\ SameWindow(tx[p], tx[p])
        /\ SamePlace(rx[p], rx[p])
    BY <1>0, LeftAlone
  <2> QED
    BY <2>1, <2>2 DEF Void
<1>2. CASE Finish(p, "err", tx[p], rx[p], dev[p], <<>>)
  BY <1>0, <1>1, <1>2, FinishSteps
<1>3. CASE /\ tx[p].state = "EndAck"
           /\ Finish(p, "ok", [tx[p] EXCEPT !.state = "Done"], rx[p], dev[p], <<>>)
  <2> DEFINE u == [tx[p] EXCEPT !.state = "Done"]
  <2>1. u \in TxType /\ SameFile(u, tx[p]) /\ u.state = "Done"
    BY <1>0, StateKeeps DEF TxState
  <2>2. SameData(u, tx[p]) /\ SameWindow(u, tx[p])
    BY <1>0, StateView
  <2>3. Finish(p, "ok", u, rx[p], dev[p], <<>>)
    BY <1>3
  <2>4. u.state \in FromEnd /\ tx[p].state \in FromEnd
    BY <1>3, <2>1 DEF FromEnd
  <2> HIDE DEF u
  <2> QED
    BY <1>0, <1>1, <2>1, <2>2, <2>3, <2>4, FinishSteps
<1>4. ASSUME NEW t \in TxType, NEW d \in DevType, NEW pre \in {<<>>, <<Ctl("IDLE")>>},
             Rewinds(t, tx[p], net[Other(p)], net[p]), TxShape(p, t), Pass(p, t, d, pre)
      PROVE  \E u, k : RunStep(p, u, k)
  <2>1. TxShape(p, tx[p])
    BY <1>0, PendingOffer DEF SentInv, TypeOK
  <2>2. PICK u \in TxType, out \in Seq(Packet), k \in Packet :
          /\ Sent(p, t, d, u, pre, out) /\ Carries(out, k) /\ k.t \notin Answer
          /\ SendStep(p, tx[p], u, net[Other(p)], net[p], net[p], k, sDone, sDone')
    BY <1>0, <1>4, <2>1, PassSends DEF Passes
  <2> DEFINE w == devSends(t, d)
  <2>3. w \in Seq(Packet) /\ Void(w, Mattering)
    <3>1. w \in Seq(Packet)
      BY <1>4, DevActionKeeps
    <3>2. w = <<>> \/ \E id, n : w = <<Pkt("DEVDATA", NoFile, n, 0, id)>>
      BY DEF devSends
    <3>3. \A n, id : Pkt("DEVDATA", NoFile, n, 0, id).t \notin Mattering
      BY DEF Pkt, Mattering, Forward, Answer
    <3> QED
      BY <3>1, <3>2, <3>3, AmongFew DEF Void
  <2>4. pre \in Seq(Packet) /\ Void(pre, Mattering)
    <3>1. Ctl("IDLE") \in Packet /\ Ctl("IDLE").t \notin Mattering
      BY NothingMatters DEF Nothing
    <3>2. pre = <<>> \/ pre = <<Ctl("IDLE")>>
      BY <1>4
    <3>3. <<>> \in Seq(Packet) /\ <<Ctl("IDLE")>> \in Seq(Packet)
      BY <3>1
    <3>4. pre \in Seq(Packet)
      BY <3>2, <3>3, Zenon
    <3> QED
      BY <3>1, <3>2, <3>4, AmongFew DEF Void
  <2>5. /\ Continue(p, net, u, rx[p], devAction(t, d), pre \o w \o out)
        /\ rDone' = rDone /\ got' = got /\ opened' = opened
    BY <2>2 DEF Sent
  <2> HIDE DEF w
  <2>6. pre \o w \in Seq(Packet) /\ (pre \o w) \o out \in Seq(Packet)
    BY <2>2, <2>3, <2>4
  <2>7. Void(pre \o w, Mattering)
    BY <2>3, <2>4, AmongConcat DEF Void
  <2>8. Carries((pre \o w) \o out, k)
    BY <2>2, <2>6, <2>7, CarriesBehind
  <2>9. ReceiveStep(rx[p], rx[p], net[p], net[p], k, rDone, rDone', got, got', opened, opened')
    BY <1>0, <2>2, <2>5, NotReceived
  <2>10. Continue(p, net, u, rx[p], devAction(t, d), (pre \o w) \o out)
    BY <2>5
  <2>11. RunStep(p, u, k)
    BY <1>0, <2>2, <2>6, <2>8, <2>9, <2>10, ContinueSteps
  <2> QED
    BY <2>11
<1> QED
  BY <1>2, <1>3, <1>4, LoopRewinds

-----------------------------------------------------------------------------
(* Packets that concern no file.                                           *)

\* The receiver's place is kept, or its INIT processed.
Unmoved(v, r) ==
    \/ SamePlace(v, r)
    \/ /\ r.state = "Init" /\ v.state = "Finfo" /\ v.open = r.open /\ v.file = r.file
       /\ v.refused = r.refused /\ v.pos = r.pos /\ v.refusedAck = r.refusedAck

\* A packet handled with nothing done about the files.
LEMMA QuietlyHandled ==
  ASSUME SentInv, NEW p \in Peer, NEW type, Hears(p, type),
         NEW t \in TxType, SendsNothing(t, tx[p], Nothing), NEW r, Unmoved(r, rx[p]), NEW d,
         NEW out \in Seq(Packet), Void(out, Mattering), Handled(p, t, r, d, out),
         sDone' = sDone, rDone' = rDone, got' = got, opened' = opened
  PROVE  RunStep(p, t, Nothing)
<1>1. Less(Tail(net[p]), net[p])
  BY HeardSteps
<1>2. SendStep(p, tx[p], t, net[Other(p)], net[p], Tail(net[p]), Nothing, sDone, sDone')
  BY <1>1 DEF SendStep
<1>3. ReceiveStep(rx[p], r, net[p], Tail(net[p]), Nothing, rDone, rDone', got, got', opened, opened')
  BY <1>1, NothingMatters DEF ReceiveStep, Ignores, Unmoved
<1>4. Carries(out, Nothing)
  BY CarriesFew
<1> QED
  BY <1>2, <1>3, <1>4, NothingMatters, HandledSteps

\* A sender left alone sends nothing.
LEMMA SendsNone ==
  ASSUME NEW t \in TxType
  PROVE  SendsNothing(t, t, Nothing)
  BY LeftAlone, NothingMatters DEF SendsNothing

\* A control packet does not matter.
LEMMA ControlVoid ==
  /\ <<>> \in Seq(Packet) /\ Void(<<>>, Mattering)
  /\ \A k \in Packet : k.t \notin Mattering => <<k>> \in Seq(Packet) /\ Void(<<k>>, Mattering)
  BY AmongFew DEF Void

\* START, INIT, INITACK and IDLE.
LEMMA HandshakeSteps ==
  ASSUME SentInv, HandshakeInv, NEW p \in Peer,
         handleStart(p) \/ rxInit(p) \/ handleInitAck(p) \/ txIdle(p)
  PROVE  \E t : RunStep(p, t, Nothing)
<1>0. tx[p] \in TxType /\ rx[p] \in RxType
  BY DEF SentInv, TypeOK, MachinesOK
<1>1. "Init" \in TxState /\ "Rinit" \in TxState /\ "Xdata" \in TxState
  BY DEF TxState
<1>2. SendsNothing(tx[p], tx[p], Nothing) /\ Unmoved(rx[p], rx[p])
  BY <1>0, SendsNone, LeftAlone DEF Unmoved
<1>3. \A s \in BeforeFinfo \cap TxState : tx[p].state \in BeforeFinfo =>
        Advance(tx[p], s) \in TxType /\ SendsNothing(Advance(tx[p], s), tx[p], Nothing)
  BY <1>0, AdvanceKeeps, AdvanceView, NothingMatters DEF SendsNothing, Stays, SameWindow
<1>4. CASE handleStart(p) \/ handleInitAck(p)
  <2>1. PICK t, type :
          /\ Hears(p, type) /\ Handled(p, t, rx[p], dev[p], <<>>) /\ UNCHANGED files
          /\ \/ t = tx[p]
             \/ tx[p].state \in {"Start", "Swait"} /\ t = Advance(tx[p], "Init")
             \/ tx[p].state \in {"Init", "InitAck"} /\ t = Advance(tx[p], "Rinit")
    BY <1>4 DEF handleStart, handleInitAck
  <2>2. t \in TxType /\ SendsNothing(t, tx[p], Nothing)
    BY <1>0, <1>1, <1>2, <1>3, <2>1 DEF BeforeFinfo
  <2> QED
    BY <1>2, <2>1, <2>2, ControlVoid, QuietlyHandled DEF files
<1>5. CASE rxInit(p)
  <2> DEFINE out == <<Ctl("INITACK")>>
  <2>1. PICK t, r : /\ Hears(p, "INIT") /\ Handled(p, t, r, dev[p], out) /\ UNCHANGED files
                    /\ \/ /\ rx[p].state = "Init" /\ r = [rx[p] EXCEPT !.state = "Finfo"]
                          /\ t = [tx[p] EXCEPT !.window = Window[p]]
                       \/ r = rx[p] /\ t = tx[p]
    BY <1>5 DEF rxInit
  <2>2. out \in Seq(Packet) /\ Void(out, Mattering)
    <3>1. "INITACK" \in PlainType /\ Ctl("INITACK").t = "INITACK"
      BY DEF PktType, PlainType, Ctl, Pkt
    <3>2. Ctl("INITACK") \in Packet /\ Ctl("INITACK").t \notin Mattering
      BY <3>1, ControlPacket DEF Mattering, Forward, Answer
    <3> QED
      BY <3>2, ControlVoid
  <2> HIDE DEF out
  <2>3. CASE r = rx[p] /\ t = tx[p]
    BY <1>0, <1>2, <2>1, <2>2, <2>3, QuietlyHandled DEF files
  <2>4. CASE /\ rx[p].state = "Init" /\ r = [rx[p] EXCEPT !.state = "Finfo"]
             /\ t = [tx[p] EXCEPT !.window = Window[p]]
    <3>1. Window[p] \in Nat
      BY BoundAssumption
    <3>2. t \in TxType /\ SameFile(t, tx[p]) /\ t.state = tx[p].state
      BY <1>0, <2>4, <3>1, WindowKeeps
    <3>3. SameData(t, tx[p]) /\ t.lastAck = tx[p].lastAck
      BY <1>0, <2>4, OtherView
    <3>4. tx[p].state \in BeforeFinfo
      BY <2>4 DEF HandshakeInv, Knows
    <3>5. SendsNothing(t, tx[p], Nothing)
      BY <3>2, <3>3, <3>4, NothingMatters DEF SendsNothing, Stays
    <3>6. Unmoved(r, rx[p])
      BY <1>0, <2>4, RxStateView DEF Unmoved
    <3> QED
      BY <2>1, <2>2, <3>2, <3>5, <3>6, QuietlyHandled DEF files
  <2> QED
    BY <2>1, <2>3, <2>4
<1>6. CASE txIdle(p)
  <2>1. PICK t : /\ Hears(p, "IDLE") /\ Handled(p, t, rx[p], dev[p], <<>>) /\ UNCHANGED files
                 /\ \/ t = tx[p]
                    \/ /\ tx[p].state = "Xwait"
                       /\ t = [Advance(tx[p], "Xdata") EXCEPT !.hdxlink = FALSE]
    BY <1>6 DEF txIdle
  <2>2. t \in TxType /\ SendsNothing(t, tx[p], Nothing)
    <3>1. CASE t = tx[p]
      BY <3>1, <1>0, <1>2
    <3>2. CASE /\ tx[p].state = "Xwait"
               /\ t = [Advance(tx[p], "Xdata") EXCEPT !.hdxlink = FALSE]
      <4> DEFINE u == Advance(tx[p], "Xdata")
      <4>1. u \in TxType /\ SameFile(u, tx[p]) /\ u.state = "Xdata"
        BY <1>0, <1>1, AdvanceKeeps
      <4>2. SameData(u, tx[p]) /\ SameWindow(u, tx[p])
        BY <1>0, AdvanceView
      <4>3. t = [u EXCEPT !.hdxlink = FALSE]
        BY <3>2
      <4> HIDE DEF u
      <4>4. t \in TxType /\ SameFile(t, u) /\ t.state = u.state
        BY <4>1, <4>3, HdxlinkKeeps
      <4>5. SameData(t, u) /\ SameWindow(t, u)
        BY <4>1, <4>3, OtherView
      <4>6. SameFile(t, tx[p]) /\ SameData(t, tx[p]) /\ SameWindow(t, tx[p])
        BY <4>1, <4>2, <4>4, <4>5 DEF SameFile, SameData, SameWindow
      <4> QED
        BY <3>2, <4>1, <4>4, <4>6, NothingMatters DEF SendsNothing, Stays, Transferring, SameWindow
    <3> QED
      BY <2>1, <3>1, <3>2
  <2> QED
    BY <1>2, <2>1, <2>2, ControlVoid, QuietlyHandled DEF files
<1> QED
  BY <1>4, <1>5, <1>6

\* END and the device channel's.
LEMMA EndSteps ==
  ASSUME SentInv, NEW p \in Peer, txEnd(p) \/ devRx(p) \/ devDack(p)
  PROVE  (\E t : RunStep(p, t, Nothing)) \/ StopStep(p)
<1>0. tx[p] \in TxType /\ rx[p] \in RxType
  BY DEF SentInv, TypeOK, MachinesOK
<1>1. SendsNothing(tx[p], tx[p], Nothing) /\ Unmoved(rx[p], rx[p])
  BY <1>0, SendsNone, LeftAlone DEF Unmoved
<1>2. CASE txEnd(p)
  <2> DEFINE u == [tx[p] EXCEPT !.timer = FALSE, !.state = "Done"]
             out == <<Ctl("END"), Ctl("END"), Ctl("END")>>
  <2>1. /\ Hears(p, "END") /\ res[p] = "run"
        /\ \/ tx[p].state \in {"End", "EndAck"} /\ Finish(p, "ok", u, rx[p], dev[p], out)
           \/ Handled(p, tx[p], rx[p], dev[p], <<>>) /\ UNCHANGED files
    BY <1>2 DEF txEnd, Hears
  <2>2. CASE Handled(p, tx[p], rx[p], dev[p], <<>>) /\ UNCHANGED files
    BY <1>0, <1>1, <2>1, <2>2, ControlVoid, QuietlyHandled DEF files
  <2>3. CASE tx[p].state \in {"End", "EndAck"} /\ Finish(p, "ok", u, rx[p], dev[p], out)
    <3>1. u \in TxType /\ SameFile(u, tx[p]) /\ u.state = "Done"
      <4>1. [tx[p] EXCEPT !.timer = FALSE, !.state = "Done"].state = "Done"
        BY <1>0 DEF TxType
      <4>2. SameFile(u, tx[p])
        BY <1>0 DEF TxType, SameFile
      <4> QED
        BY <1>0, <4>1, <4>2, DoneKeeps
    <3>2. out \in Seq(Packet) /\ Void(out, Mattering)
      <4>1. "END" \in PlainType /\ Ctl("END").t = "END"
        BY DEF PktType, PlainType, Ctl, Pkt
      <4>2. Ctl("END") \in Packet /\ Ctl("END").t \notin Mattering
        BY <4>1, ControlPacket DEF Mattering, Forward, Answer
      <4> QED
        BY <4>2, AmongFew DEF Void
    <3>3. SameData(u, tx[p]) /\ SameWindow(u, tx[p])
      BY <1>0, OtherView
    <3>4. SamePlace(rx[p], rx[p])
      BY <1>0, LeftAlone
    <3>5. u.state \in FromEnd /\ tx[p].state \in FromEnd
      BY <2>3, <3>1 DEF FromEnd
    <3> HIDE DEF u, out
    <3> QED
      BY <1>0, <2>1, <2>3, <3>1, <3>2, <3>3, <3>4, <3>5, FinishSteps
  <2> QED
    BY <2>1, <2>2, <2>3
<1>3. CASE devRx(p) \/ devDack(p)
  <2>1. PICK type, d, out :
          /\ Hears(p, type) /\ Handled(p, tx[p], rx[p], d, out) /\ UNCHANGED files
          /\ \/ out = <<Pkt("DEVDACK", NoFile, 0, 0, Head(net[p]).id)>>
             \/ out = <<>>
    BY <1>3 DEF devRx, devDack
  <2>2. Head(net[p]).id \in Nat
    BY <2>1, Hearing
  <2>3. \A id : Pkt("DEVDACK", NoFile, 0, 0, id).t \notin Mattering
    BY DEF Pkt, Mattering, Forward, Answer
  <2>4. out \in Seq(Packet) /\ Void(out, Mattering)
    <3>1. out \in Seq(Packet)
      BY <2>1, <2>2, DackPacket, ControlVoid
    <3>2. \A k \in Among(out) : k.t \notin Mattering
      BY <2>1, <2>3, AmongFew
    <3> QED
      BY <3>1, <3>2 DEF Void
  <2> QED
    BY <1>0, <1>1, <2>1, <2>4, QuietlyHandled DEF files
<1> QED
  BY <1>2, <1>3

\* The application's calls, a packet lost, and a Run ended from outside.
LEMMA OutsideSteps ==
  ASSUME SentInv, NEW p \in Peer, SendDevice(p) \/ queueDev(p) \/ Corrupt(p) \/ Fail(p)
  PROVE  \/ UNCHANGED <<tx, rx, net, res, sDone, rDone, opened, got>>
         \/ \E t : RunStep(p, t, Nothing)
         \/ StopStep(p)
<1>0. /\ tx[p] \in TxType /\ rx[p] \in RxType /\ net \in [Peer -> Seq(Packet)]
      /\ net[p] \in Seq(Packet) /\ Other(p) \in Peer /\ Other(p) # p /\ net[Other(p)] \in Seq(Packet)
  BY TheOther DEF SentInv, TypeOK, MachinesOK
<1>1. SendsNothing(tx[p], tx[p], Nothing) /\ SamePlace(rx[p], rx[p]) /\ SameFile(tx[p], tx[p])
      /\ SameData(tx[p], tx[p]) /\ SameWindow(tx[p], tx[p])
  BY <1>0, SendsNone, LeftAlone
<1>2. CASE SendDevice(p) \/ queueDev(p)
  BY <1>2 DEF SendDevice, queueDev, files
<1>3. CASE Corrupt(p)
  <2>1. /\ net[p] # <<>> /\ net'[p] = Tail(net[p]) /\ net'[Other(p)] = net[Other(p)]
        /\ tx' = tx /\ rx' = rx /\ res' = res /\ sDone' = sDone /\ rDone' = rDone /\ got' = got /\ opened' = opened
    BY <1>0, <1>3 DEF Corrupt, Taken, files
  <2>2. Less(net'[p], net[p]) /\ Adds(net'[Other(p)], net[Other(p)], Nothing)
    BY <1>0, <2>1, LessFew
  <2>3. SyncStep(tx[p], tx[p], rx[p])
    BY <1>1 DEF SyncStep
  <2>4. Ignores(rx[p], rx[p], net[p], net'[p], Nothing)
    BY <1>1, <2>2, NothingMatters DEF Ignores
  <2>5. SendStep(p, tx[p], tx[p], net[Other(p)], net[p], net'[p], Nothing, sDone, sDone')
    BY <1>1, <2>1, <2>2 DEF SendStep
  <2>6. ReceiveStep(rx[p], rx[p], net[p], net'[p], Nothing, rDone, rDone', got, got', opened, opened')
    BY <2>1, <2>4 DEF ReceiveStep
  <2> QED
    BY <1>0, <1>1, <2>1, <2>2, <2>3, <2>4, <2>5, <2>6, NothingMatters DEF RunStep, OtherEnd
<1>4. CASE Fail(p)
  <2>1. PICK result \in {"ok", "err"} :
          /\ res[p] = "run" /\ Finish(p, result, tx[p], rx[p], dev[p], <<>>)
          /\ result = "ok" => tx[p].state \in FromEnd
    BY <1>4 DEF Fail, endPhaseHangup
  <2> QED
    BY <1>0, <1>1, <2>1, ControlVoid, FinishSteps
<1> QED
  BY <1>2, <1>3, <1>4

-----------------------------------------------------------------------------
(* The answers, heard by the sender.                                       *)

\* An answer handled, the receiver left alone.
LEMMA AnswerHandled ==
  ASSUME SentInv, NEW p \in Peer, NEW type, Hears(p, type), NEW t \in TxType,
         Handled(p, t, rx[p], dev[p], <<>>), rDone' = rDone, got' = got, opened' = opened,
         SendStep(p, tx[p], t, net[Other(p)], net[p], Tail(net[p]), Nothing, sDone, sDone')
  PROVE  RunStep(p, t, Nothing)
<1>1. net[p] \in Seq(Packet) /\ net[p] # <<>>
  BY DEF SentInv, TypeOK, MachinesOK, Hears
<1>2. ReceiveStep(rx[p], rx[p], net[p], Tail(net[p]), Nothing, rDone, rDone', got, got', opened, opened')
  BY <1>1, NotReceived, NothingMatters
<1> QED
  BY <1>2, NothingMatters, HandledSteps

\* An answer that finds nobody waiting.
LEMMA Unheeded ==
  ASSUME SentInv, NEW p \in Peer, NEW type, Hears(p, type), sDone' = sDone,
         NEW t \in TxType, SendsNothing(t, tx[p], Nothing)
  PROVE  SendStep(p, tx[p], t, net[Other(p)], net[p], Tail(net[p]), Nothing, sDone, sDone')
  BY HeardSteps DEF SendStep

\* What a heeded FINFOACK does, case by case.
LEMMA FinfoAckForm ==
  ASSUME NEW t, ~t.eob => Size[t.offer] \in Nat, NEW off \in Int, NEW u, u = onFinfoAck(t, off)
  PROVE  LET a == acked(t)
             b == resumed(a, off)
         IN \/ t.eob /\ u = Await(a, "Rend")
            \/ ~t.eob /\ off < 0 /\ u = finishTxFile(a)
            \/ ~t.eob /\ off >= 0 /\ u = skipFile(a, "Range")
            \/ ~t.eob /\ off >= 0 /\ u = skipFile(b, "Range")
            \/ ~t.eob /\ off >= 0 /\ u = b
<1>1. \/ t.eob /\ u = Await(acked(t), "Rend")
      \/ ~t.eob /\ off < 0 /\ u = finishTxFile(acked(t))
      \/ ~t.eob /\ off > Size[t.offer] /\ u = skipFile(acked(t), "Range")
      \/ /\ ~t.eob /\ off \in 1..Size[t.offer] /\ t.offer \in NoSeek
         /\ u = skipFile(resumed(acked(t), off), "Range")
      \/ ~t.eob /\ ~(off < 0) /\ u = resumed(acked(t), off)
  BY DEF onFinfoAck
<1> QED
  BY <1>1

\* What a DATAACK does, case by case.
LEMMA DataAckForm ==
  ASSUME NEW t, NEW off, NEW u, u = onDataAck(t, off)
  PROVE  LET a == ackedTo(t, off) IN
         \/ u = t
         \/ /\ t.state = "DataAck" /\ t.window > 0 /\ t.pos < a.lastAck + t.window
            /\ u = Advance(a, "Xdata")
         \/ /\ ~(t.state \notin Transferring \/ t.window = 0)
            /\ ~(t.state = "DataAck" /\ t.window > 0 /\ t.pos < a.lastAck + t.window)
            /\ u = a
  BY DEF onDataAck

\* FINFOACK.
LEMMA FinfoAckSteps ==
  ASSUME SentInv, NEW p \in Peer, txFinfoAck(p)
  PROVE  \E t : RunStep(p, t, Nothing)
<1> DEFINE t == tx[p]
           off == Head(net[p]).off
           a == acked(t)
           b == resumed(a, off)
<1>1. Hears(p, "FINFOACK") /\ rDone' = rDone /\ got' = got /\ opened' = opened
  BY DEF txFinfoAck
<1>2. /\ t \in TxType /\ TxShape(p, t) /\ off \in Int
      /\ Took(net[p], Tail(net[p]), Head(net[p]), "FINFOACK")
  BY <1>1, Hearing, HeardSteps
<1>3. CASE ~finfoAckHeeded(t)
  <2>1. Handled(p, t, rx[p], dev[p], <<>>) /\ sDone' = sDone
    BY <1>3 DEF txFinfoAck
  <2> QED
    BY <1>1, <1>2, <2>1, SendsNone, Unheeded, AnswerHandled
<1>4. CASE finfoAckHeeded(t)
  <2> DEFINE u == onFinfoAck(t, off)
             o == IF off = ackHaveFile THEN "Skip" ELSE "Defer"
  <2>1. /\ Handled(p, u, rx[p], dev[p], <<>>)
        /\ sDone' = IF ~t.eob /\ off < 0 THEN Complete(sDone, t.offer, o) ELSE sDone
    BY <1>4 DEF txFinfoAck
  <2>2. t.state \in {"Finfo", "FinfoAck"} /\ t.lastFinfo # NoFile
    BY <1>2, <1>4 DEF finfoAckHeeded, TxShape
  <2>3. u \in TxType
    BY <1>2, <1>4, FinfoAckMoves
  <2>4. /\ a \in TxType /\ a.offer = t.offer /\ a.next = t.next /\ a.eob = t.eob
        /\ a.lastFinfo = NoFile /\ SameData(a, t)
    BY <1>2, AckedKeeps, AckedView
  <2>5. "Rend" \in TxState /\ "Range" \in Outcome
    BY DEF TxState, Outcome
  <2>6. \/ t.eob /\ u = Await(a, "Rend")
        \/ ~t.eob /\ off < 0 /\ u = finishTxFile(a)
        \/ ~t.eob /\ off >= 0 /\ u = skipFile(a, "Range")
        \/ ~t.eob /\ off >= 0 /\ u = skipFile(b, "Range")
        \/ ~t.eob /\ off >= 0 /\ u = b
    <3>1. ~t.eob => Size[t.offer] \in Nat
      BY <1>2, <1>4, FileAssumption DEF finfoAckHeeded, TxShape, TxType
    <3> QED
      BY <1>2, <3>1, FinfoAckForm
  <2> HIDE DEF a, u
  <2>7. HearsFinfoAck(u, t, net[p], Tail(net[p]), sDone, sDone')
    <3>1. CASE t.eob /\ u = Await(a, "Rend")
      <4>1. SameFile(u, a) /\ u.state = "Rend"
        BY <2>4, <2>5, <3>1, AwaitKeeps
      <4> QED
        BY <1>2, <2>1, <2>2, <2>4, <3>1, <4>1 DEF HearsFinfoAck, SameCursor, SameFile
    <3>2. CASE ~t.eob /\ off < 0 /\ u = finishTxFile(a)
      <4>1. FileOver(u, t)
        BY <2>4, <3>2, FinishTxFileKeeps, FinishedView DEF FileOver
      <4> QED
        BY <1>2, <2>1, <2>2, <3>2, <4>1 DEF HearsFinfoAck
    <3>3. CASE ~t.eob /\ off >= 0 /\ u = skipFile(a, "Range")
      <4>1. SameFile(u, a) /\ u.state = "EOF" /\ u.skip /\ u.err = "Range"
        BY <2>4, <2>5, <3>3, SkipFileKeeps, SkipFileView
      <4>2. sDone' = sDone
        BY <1>2, <2>1, <3>3
      <4> QED
        BY <1>2, <2>2, <2>4, <3>3, <4>1, <4>2 DEF HearsFinfoAck, SameCursor, SameFile
    <3>4. CASE ~t.eob /\ off >= 0 /\ (u = skipFile(b, "Range") \/ u = b)
      <4>1. off \in Nat
        BY <1>2, <3>4
      <4>2. b \in TxType /\ SameFile(b, a) /\ b.state = "Xdata"
        BY <2>4, <4>1, ResumedKeeps
      <4>3. b.pos = off /\ b.lastAck = off /\ b.skip = a.skip /\ b.err = a.err
        BY <2>4, AckedView
      <4> HIDE DEF b
      <4>4. sDone' = sDone
        BY <1>2, <2>1, <3>4
      <4>5. CASE u = b
        BY <1>2, <2>2, <2>4, <3>4, <4>2, <4>3, <4>4, <4>5
           DEF HearsFinfoAck, SameCursor, SameFile, SameData
      <4>6. CASE u = skipFile(b, "Range")
        <5>1. SameFile(u, b) /\ u.state = "EOF" /\ u.skip /\ u.err = "Range"
          BY <4>2, <4>6, <2>5, SkipFileKeeps, SkipFileView
        <5> QED
          BY <1>2, <2>2, <2>4, <3>4, <4>2, <4>4, <5>1 DEF HearsFinfoAck, SameCursor, SameFile
      <4> QED
        BY <3>4, <4>5, <4>6
    <3> QED
      BY <2>6, <3>1, <3>2, <3>3, <3>4
  <2>8. SendStep(p, t, u, net[Other(p)], net[p], Tail(net[p]), Nothing, sDone, sDone')
    BY <2>7 DEF SendStep
  <2> QED
    BY <1>1, <2>1, <2>3, <2>8, AnswerHandled
<1> QED
  BY <1>3, <1>4

\* DATAACK.
LEMMA DataAckSteps ==
  ASSUME SentInv, NEW p \in Peer, txDataAck(p)
  PROVE  \E t : RunStep(p, t, Nothing)
<1> DEFINE t == tx[p]
           off == Head(net[p]).off
           a == ackedTo(t, off)
           u == onDataAck(t, off)
<1>1. Hears(p, "DATAACK") /\ rDone' = rDone /\ got' = got /\ opened' = opened /\ sDone' = sDone
      /\ Handled(p, u, rx[p], dev[p], <<>>)
  BY DEF txDataAck, files
<1>2. /\ t \in TxType /\ TxShape(p, t) /\ off \in Int
      /\ Took(net[p], Tail(net[p]), Head(net[p]), "DATAACK")
  BY <1>1, Hearing, HeardSteps
<1>3. u \in TxType
  BY <1>2, DataAckMoves
<1>4. /\ t.window \in Nat /\ t.pos \in Nat /\ t.lastAck \in Nat
  BY <1>2 DEF TxType
<1>5. /\ a \in TxType /\ SameFile(a, t) /\ a.state = t.state
      /\ SameData(a, t) /\ a.window = t.window /\ a.retries = t.retries
      /\ a.lastAck = IF off > t.lastAck THEN off ELSE t.lastAck
  BY <1>2, AckedToKeeps, AckedToView
<1>6. a.lastAck \in Nat
  BY <1>5 DEF TxType
<1>7. \/ u = t
      \/ /\ t.state \in Transferring /\ t.window > 0
         /\ \/ /\ t.state = "DataAck" /\ t.pos < a.lastAck + t.window /\ u = Advance(a, "Xdata")
            \/ /\ u = a /\ (t.state = "DataAck" => t.pos >= a.lastAck + t.window)
  <2> HIDE DEF a
  <2>1. \/ u = t
        \/ /\ t.state = "DataAck" /\ t.window > 0 /\ t.pos < a.lastAck + t.window
           /\ u = Advance(a, "Xdata")
        \/ /\ ~(t.state \notin Transferring \/ t.window = 0)
           /\ ~(t.state = "DataAck" /\ t.window > 0 /\ t.pos < a.lastAck + t.window)
           /\ u = a
    BY DataAckForm DEF a
  <2> HIDE DEF u
  <2> QED
    BY <1>4, <1>6, <2>1 DEF Transferring
<1> HIDE DEF a, u
<1>8. CASE u = t
  BY <1>1, <1>2, <1>8, SendsNone, Unheeded, AnswerHandled
<1>9. CASE /\ t.state \in Transferring /\ t.window > 0
           /\ \/ /\ t.state = "DataAck" /\ t.pos < a.lastAck + t.window /\ u = Advance(a, "Xdata")
              \/ /\ u = a /\ (t.state = "DataAck" => t.pos >= a.lastAck + t.window)
  <2>1. "Xdata" \in TxState
    BY DEF TxState
  <2>2. /\ SameFile(u, a) /\ SameData(u, a) /\ SameWindow(u, a)
        /\ \/ u.state = t.state /\ u.retries = t.retries
              /\ (t.state = "DataAck" => t.pos >= a.lastAck + t.window)
           \/ t.state = "DataAck" /\ u.state = "Xdata" /\ t.pos < a.lastAck + t.window
    <3>1. CASE u = a /\ (t.state = "DataAck" => t.pos >= a.lastAck + t.window)
      BY <1>5, <3>1 DEF SameFile, SameData, SameWindow
    <3>2. CASE t.state = "DataAck" /\ t.pos < a.lastAck + t.window /\ u = Advance(a, "Xdata")
      BY <1>5, <2>1, <3>2, AdvanceKeeps, AdvanceView
    <3> QED
      BY <1>9, <3>1, <3>2
  <2>3. /\ SameFile(u, t) /\ SameData(u, t) /\ u.window = t.window
        /\ u.lastAck = a.lastAck /\ u.pos = t.pos
    BY <1>5, <2>2 DEF SameFile, SameData, SameWindow
  <2>4. HearsDataAck(u, t, net[p], Tail(net[p]))
    BY <1>2, <1>5, <1>9, <2>2, <2>3 DEF HearsDataAck
  <2>5. SendStep(p, t, u, net[Other(p)], net[p], Tail(net[p]), Nothing, sDone, sDone')
    BY <1>1, <2>4 DEF SendStep
  <2> QED
    BY <1>1, <1>3, <2>5, AnswerHandled
<1> QED
  BY <1>7, <1>8, <1>9

\* RPOS.
LEMMA RposSteps ==
  ASSUME SentInv, NEW p \in Peer, txRpos(p)
  PROVE  (\E t : RunStep(p, t, Nothing)) \/ StopStep(p)
<1> DEFINE t == tx[p]
           k == Head(net[p])
<1>1. Hears(p, "RPOS") /\ res[p] = "run"
  BY DEF txRpos, Hears
<1>2. /\ t \in TxType /\ rx[p] \in RxType /\ TxShape(p, t) /\ k \in Packet /\ k.t = "RPOS"
      /\ k.off \in Int /\ Took(net[p], Tail(net[p]), k, "RPOS")
  BY <1>1, Hearing, HeardSteps
<1>3. \/ Finish(p, "err", t, rx[p], dev[p], <<>>)
      \/ /\ sDone' = sDone /\ rDone' = rDone /\ got' = got /\ opened' = opened
         /\ \/ /\ t.retries < MaxRetries /\ t.state \in Transferring
               /\ Handled(p, [t EXCEPT !.retries = @ + 1], rx[p], dev[p], <<>>)
            \/ Handled(p, t, rx[p], dev[p], <<>>)
            \/ t.state \in Transferring /\ Handled(p, onRpos(t, k), rx[p], dev[p], <<>>)
  BY DEF txRpos, files
<1>4. CASE Finish(p, "err", t, rx[p], dev[p], <<>>)
  BY <1>1, <1>2, <1>4, LeftAlone, ControlVoid, FinishSteps
<1>5. CASE /\ sDone' = sDone /\ rDone' = rDone /\ got' = got /\ opened' = opened
           /\ t.retries < MaxRetries /\ t.state \in Transferring
           /\ Handled(p, [t EXCEPT !.retries = @ + 1], rx[p], dev[p], <<>>)
  <2> DEFINE u == [t EXCEPT !.retries = @ + 1]
  <2>1. u \in TxType /\ SameFile(u, t) /\ u.state = t.state
    BY <1>2, <1>5, RetriesKeeps
  <2>2. SameData(u, t) /\ SameWindow(u, t) /\ u.retries = t.retries + 1
    BY <1>2, OtherView
  <2>3. t.retries \in Nat
    BY <1>2, SomeRetries DEF TxType
  <2>4. Handled(p, u, rx[p], dev[p], <<>>)
    BY <1>5
  <2> HIDE DEF u
  <2>5. SendsNothing(u, t, Nothing)
    BY <1>5, <2>1, <2>2, <2>3, NothingMatters DEF SendsNothing, Stays, SameWindow
  <2> QED
    BY <1>1, <1>5, <2>1, <2>4, <2>5, Unheeded, AnswerHandled
<1>6. CASE /\ sDone' = sDone /\ rDone' = rDone /\ got' = got /\ opened' = opened
           /\ Handled(p, t, rx[p], dev[p], <<>>)
  BY <1>1, <1>2, <1>6, SendsNone, Unheeded, AnswerHandled
<1>7. CASE /\ sDone' = sDone /\ rDone' = rDone /\ got' = got /\ opened' = opened
           /\ t.state \in Transferring /\ Handled(p, onRpos(t, k), rx[p], dev[p], <<>>)
  <2> DEFINE a == resync(t, k)
             e == IF t.err = "nil" THEN "Skip" ELSE t.err
             u == onRpos(t, k)
  <2>1. u \in TxType
    BY <1>2, <1>7, RposMoves
  <2>2. /\ a \in TxType /\ SameFile(a, t) /\ a.state = t.state
        /\ SameData(a, t) /\ SameWindow(a, t)
    BY <1>2, ResyncKeeps, ResyncView DEF Packet
  <2>3. e \in Outcome /\ "Range" \in Outcome
    BY <1>2 DEF Outcome, TxType
  <2>4. \/ k.off < 0 /\ u = skipFile(a, e)
        \/ k.off >= 0 /\ u = skipFile(a, "Range")
        \/ k.off >= 0 /\ u = moved(a, k.off)
    BY <1>2 DEF onRpos
  <2> HIDE DEF a, e, u
  <2>5. /\ SameFile(u, a) /\ SameWindow(u, a)
        /\ \/ k.off < 0 /\ u.state = "EOF" /\ u.skip /\ u.err = e
           \/ k.off >= 0 /\ u.state = "EOF" /\ u.skip /\ u.err = "Range"
           \/ /\ k.off >= 0 /\ u.state \in {"Xdata", "Xwait"} /\ u.pos = k.off
              /\ u.skip = a.skip /\ u.err = a.err
    <3>1. CASE k.off < 0 /\ u = skipFile(a, e)
      BY <2>2, <2>3, <3>1, SkipFileKeeps, SkipFileView
    <3>2. CASE k.off >= 0 /\ u = skipFile(a, "Range")
      BY <2>2, <2>3, <3>2, SkipFileKeeps, SkipFileView
    <3>3. CASE k.off >= 0 /\ u = moved(a, k.off)
      <4>1. k.off \in Nat
        BY <1>2, <3>3
      <4>2. SameFile(u, a) /\ u.state \in {"Xdata", "Xwait"}
        BY <2>2, <3>3, <4>1, MovedKeeps
      <4>3. LET w == moved(a, k.off) IN
            w.pos = k.off /\ w.skip = a.skip /\ w.err = a.err /\ SameWindow(w, a)
        BY <2>2, MovedView
      <4> QED
        BY <3>3, <4>2, <4>3
    <3> QED
      BY <2>4, <3>1, <3>2, <3>3
  <2>6. SameFile(u, t) /\ SameWindow(u, t) /\ a.skip = t.skip /\ a.err = t.err
    BY <2>2, <2>5 DEF SameFile, SameWindow, SameData
  <2>7. HearsRpos(u, t, net[p], Tail(net[p]))
    BY <1>2, <1>7, <2>5, <2>6 DEF HearsRpos, e
  <2>8. SendStep(p, t, u, net[Other(p)], net[p], Tail(net[p]), Nothing, sDone, sDone')
    BY <1>7, <2>7 DEF SendStep
  <2>9. Handled(p, u, rx[p], dev[p], <<>>)
    BY <1>7 DEF u
  <2> QED
    BY <1>1, <1>7, <2>1, <2>8, <2>9, AnswerHandled
<1> QED
  BY <1>3, <1>4, <1>5, <1>6, <1>7

\* EOFACK.
LEMMA EofAckSteps ==
  ASSUME SentInv, NEW p \in Peer, txEOFAck(p)
  PROVE  \E t : RunStep(p, t, Nothing)
<1> DEFINE t == tx[p]
<1>1. Hears(p, "EOFACK") /\ rDone' = rDone /\ got' = got /\ opened' = opened
  BY DEF txEOFAck
<1>2. t \in TxType /\ Took(net[p], Tail(net[p]), Head(net[p]), "EOFACK")
  BY <1>1, Hearing, HeardSteps
<1>3. CASE ~eofAckHeeded(t)
  <2>1. Handled(p, t, rx[p], dev[p], <<>>) /\ sDone' = sDone
    BY <1>3 DEF txEOFAck
  <2> QED
    BY <1>1, <1>2, <2>1, SendsNone, Unheeded, AnswerHandled
<1>4. CASE eofAckHeeded(t)
  <2> DEFINE u == finishTxFile(t)
  <2>1. Handled(p, u, rx[p], dev[p], <<>>) /\ sDone' = Complete(sDone, t.offer, eofOutcome(t))
    BY <1>4 DEF txEOFAck
  <2>2. u \in TxType /\ FileOver(u, t)
    BY <1>2, FinishTxFileKeeps, FinishedView DEF FileOver
  <2>3. t.state \in {"EOF", "EOFAck"}
    BY <1>4 DEF eofAckHeeded
  <2> HIDE DEF u
  <2>4. HearsEOFAck(u, t, net[p], Tail(net[p]), sDone, sDone')
    BY <1>2, <2>1, <2>2, <2>3 DEF HearsEOFAck
  <2>5. SendStep(p, t, u, net[Other(p)], net[p], Tail(net[p]), Nothing, sDone, sDone')
    BY <2>4 DEF SendStep
  <2> QED
    BY <1>1, <2>1, <2>2, <2>5, AnswerHandled
<1> QED
  BY <1>3, <1>4

-----------------------------------------------------------------------------
(* What the receiver does about the other's packets.                       *)

\* A packet of the other's sender handled: ours only writes the answer k, or
\* nothing.
LEMMA ReceiverHandled ==
  ASSUME SentInv, NEW p \in Peer, NEW type, Hears(p, type), sDone' = sDone,
         NEW t \in TxType, SameFile(t, tx[p]), t.state = tx[p].state,
         SameData(t, tx[p]), SameWindow(t, tx[p]), t.retries = tx[p].retries,
         NEW r, NEW d, NEW k \in Packet, k.t \notin Forward,
         NEW out, out = <<k>> \/ (out = <<>> /\ k = Nothing), Handled(p, t, r, d, out),
         ReceiveStep(rx[p], r, net[p], Tail(net[p]), k, rDone, rDone', got, got', opened, opened')
  PROVE  RunStep(p, t, k)
<1>1. Less(Tail(net[p]), net[p])
  BY HeardSteps
<1>2. tx[p] \in TxType
  BY DEF SentInv, TypeOK, MachinesOK
<1>3. t.retries >= tx[p].retries
  BY <1>2, SomeRetries DEF TxType
<1>4. SendsNothing(t, tx[p], k)
  BY <1>2, <1>3 DEF SendsNothing, Stays, SameWindow, TxType
<1>5. SendStep(p, tx[p], t, net[Other(p)], net[p], Tail(net[p]), k, sDone, sDone')
  BY <1>1, <1>4 DEF SendStep
<1>6. out \in Seq(Packet) /\ Carries(out, k)
  <2>1. CASE out = <<k>>
    BY <2>1, CarriesFew
  <2>2. CASE out = <<>>
    BY <2>2, CarriesFew
  <2> QED
    BY <2>1, <2>2
<1> QED
  BY <1>5, <1>6, HandledSteps

\* The sender left alone.
LEMMA ReceiverAlone ==
  ASSUME SentInv, NEW p \in Peer, NEW type, Hears(p, type), sDone' = sDone,
         NEW r, NEW d, NEW k \in Packet, k.t \notin Forward,
         NEW out, out = <<k>> \/ (out = <<>> /\ k = Nothing), Handled(p, tx[p], r, d, out),
         ReceiveStep(rx[p], r, net[p], Tail(net[p]), k, rDone, rDone', got, got', opened, opened')
  PROVE  \E t, j : RunStep(p, t, j)
<1>1. tx[p] \in TxType
  BY DEF SentInv, TypeOK, MachinesOK
<1>2. SameFile(tx[p], tx[p]) /\ SameData(tx[p], tx[p]) /\ SameWindow(tx[p], tx[p])
  BY <1>1, LeftAlone
<1>3. RunStep(p, tx[p], k)
  BY <1>1, <1>2, ReceiverHandled
<1> QED
  BY <1>3

\* The answers are not what a sender writes.
LEMMA AnswersApart ==
  /\ \A off : OffPkt("FINFOACK", off).t \notin Forward /\ OffPkt("DATAACK", off).t \notin Forward
  /\ Ctl("EOFACK").t \notin Forward /\ \A f, off, n, id : Pkt("RPOS", f, off, n, id).t \notin Forward
  BY DEF OffPkt, Ctl, Pkt, Forward

\* The answer to a FINFO that needs no handler.
LEMMA FinfoAnswer ==
  ASSUME NEW r, NEW f, NEW ack,
         ack = CASE r.state = "Finfo" /\ f = EOB -> 0
                 [] r.state = "Finfo" /\ f # EOB -> r.refusedAck
                 [] r.state = "Data" -> r.pos
                 [] r.state = "Done" /\ f # EOB -> ackDefer
                 [] OTHER -> 0
  PROVE  /\ r.state = "Finfo" /\ f = EOB => ack = 0
         /\ r.state = "Finfo" /\ f # EOB => ack = r.refusedAck
         /\ r.state = "Data" => ack = r.pos
         /\ ack \in {0, r.refusedAck, r.pos, ackDefer}
<1>1. \/ r.state = "Finfo" /\ f = EOB /\ ack = 0
      \/ r.state = "Finfo" /\ f # EOB /\ ack = r.refusedAck
      \/ r.state = "Data" /\ ack = r.pos
      \/ r.state = "Done" /\ ack = ackDefer
      \/ r.state # "Data" /\ r.state # "Finfo" /\ ack = 0
  OBVIOUS
<1> QED
  BY <1>1

\* FINFO answered without the handler.
LEMMA RepeatSteps ==
  ASSUME SentInv, NEW p \in Peer, rxFinfo(p)
  PROVE  \E t, k : RunStep(p, t, k)
<1> DEFINE j == Head(net[p])
           f == j.f
           r == rx[p]
           ack == CASE r.state = "Finfo" /\ f = EOB -> 0
                    [] r.state = "Finfo" /\ f # EOB -> r.refusedAck
                    [] r.state = "Data" -> r.pos
                    [] r.state = "Done" /\ f # EOB -> ackDefer
                    [] OTHER -> 0
           s == IF r.state = "Finfo" /\ f = EOB THEN [r EXCEPT !.state = "Done"] ELSE r
           k == OffPkt("FINFOACK", ack)
<1>1. /\ Hears(p, "FINFO") /\ sDone' = sDone /\ rDone' = rDone /\ got' = got /\ opened' = opened
      /\ Handled(p, tx[p], s, dev[p], <<k>>)
      /\ r.state = "Finfo" => f = EOB \/ f = r.refused
  BY DEF rxFinfo, refusedBefore, files
<1>2. r \in RxType /\ Took(net[p], Tail(net[p]), j, "FINFO")
  BY <1>1, Hearing, HeardSteps
<1>3. /\ r.state = "Finfo" /\ f = EOB => ack = 0
      /\ r.state = "Finfo" /\ f # EOB => ack = r.refusedAck
      /\ r.state = "Data" => ack = r.pos
      /\ ack \in {0, r.refusedAck, r.pos, ackDefer}
  BY FinfoAnswer
<1> HIDE DEF ack
<1>4. ack \in Int
  BY <1>2, <1>3 DEF RxType, ackDefer
<1>5. AnswersFinfo(s, r, j, k)
  <2>1. CASE r.state = "Finfo" /\ f = EOB
    <3>1. s = [r EXCEPT !.state = "Done"]
      BY <2>1
    <3>2. /\ s.state = "Done" /\ s.open = r.open /\ s.file = r.file /\ s.refused = r.refused
          /\ s.pos = r.pos /\ s.refusedAck = r.refusedAck
      BY <1>2, <3>1, RxStateView
    <3> HIDE DEF s
    <3> QED
      BY <1>3, <2>1, <3>2 DEF AnswersFinfo
  <2>2. CASE ~(r.state = "Finfo" /\ f = EOB)
    <3>1. s = r /\ SamePlace(s, r)
      BY <2>2 DEF SamePlace, SameRx
    <3>2. r.state \in {"Init", "Finfo", "Data", "Done"}
      BY <1>2 DEF RxType, RxState
    <3> HIDE DEF s
    <3> QED
      BY <1>1, <1>3, <2>2, <3>1, <3>2 DEF AnswersFinfo
  <2> QED
    BY <2>1, <2>2
<1>6. k \in Packet /\ k.t \notin Forward
  BY <1>4, AnswerPackets, AnswersApart
<1> HIDE DEF s, k
<1>7. ReceiveStep(r, s, net[p], Tail(net[p]), k, rDone, rDone', got, got', opened, opened')
  BY <1>1, <1>2, <1>5 DEF ReceiveStep
<1> QED
  BY <1>1, <1>6, <1>7, ReceiverAlone

\* FINFO put to the handler.
LEMMA AcceptSteps ==
  ASSUME SentInv, NEW p \in Peer, acceptFinfo(p)
  PROVE  \E t, k : RunStep(p, t, k)
<1> DEFINE j == Head(net[p])
           f == j.f
           r == rx[p]
           Refuse(outcome, ack) ==
               /\ Handled(p, tx[p], refusing(r, f, ack), dev[p], <<OffPkt("FINFOACK", ack)>>)
               /\ rDone' = Complete(rDone, f, outcome)
<1>1. Hears(p, "FINFO") /\ sDone' = sDone /\ r.state = "Finfo" /\ f # EOB /\ f # r.refused
  BY DEF acceptFinfo, refusedBefore
<1>2. /\ r \in RxType /\ Took(net[p], Tail(net[p]), j, "FINFO") /\ j \in Packet
      /\ j.t = "FINFO"
  BY <1>1, Hearing, HeardSteps
<1>3. f \in File
  BY <1>1, <1>2 DEF Packet
<1>4. \/ /\ got' = got /\ opened' = opened
         /\ \/ \E e \in RefuseWith : Refuse(e, IF e = "Skip" THEN ackHaveFile ELSE ackDefer)
            \/ Refuse("Range", ackDefer)
      \/ \E off \in ResumeAt :
           /\ Handled(p, tx[p], receiving(r, f, off), dev[p], <<OffPkt("FINFOACK", off)>>)
           /\ ~(off > SafeMax) /\ rDone' = rDone /\ got' = [got EXCEPT ![f] = Content(f, 0, off)]
           /\ opened' = opened \cup {f}
  BY DEF acceptFinfo
<1>5. ASSUME got' = got, opened' = opened, NEW e, NEW ack, Refuse(e, ack),
             (ack = ackHaveFile /\ e = "Skip") \/ (ack = ackDefer /\ e \in {"Defer", "Range"})
      PROVE  \E t, k : RunStep(p, t, k)
  <2> DEFINE v == refusing(r, f, ack)
             k == OffPkt("FINFOACK", ack)
  <2>1. ack \in Int
    BY <1>5 DEF ackHaveFile, ackDefer
  <2>2. /\ v.state = r.state /\ v.open = r.open /\ v.file = r.file /\ v.pos = r.pos
        /\ v.refused = f /\ v.refusedAck = ack
    BY <1>2, RefusingView
  <2>3. k \in Packet /\ k.t \notin Forward
    BY <2>1, AnswerPackets, AnswersApart
  <2>4. Handled(p, tx[p], v, dev[p], <<k>>) /\ rDone' = Complete(rDone, f, e)
    BY <1>5
  <2> HIDE DEF v
  <2>5. Refuses(v, r, j, k, rDone, rDone')
    BY <1>1, <1>3, <1>5, <2>2, <2>4 DEF Refuses
  <2> HIDE DEF k
  <2>6. ReceiveStep(r, v, net[p], Tail(net[p]), k, rDone, rDone', got, got', opened, opened')
    BY <1>2, <1>5, <2>5 DEF ReceiveStep
  <2> QED
    BY <1>1, <2>3, <2>4, <2>6, ReceiverAlone
<1>6. ASSUME NEW off \in ResumeAt,
             Handled(p, tx[p], receiving(r, f, off), dev[p], <<OffPkt("FINFOACK", off)>>),
             ~(off > SafeMax), rDone' = rDone, got' = [got EXCEPT ![f] = Content(f, 0, off)],
             opened' = opened \cup {f}
      PROVE  \E t, k : RunStep(p, t, k)
  <2> DEFINE v == receiving(r, f, off)
             k == OffPkt("FINFOACK", off)
  <2>1. off \in Nat /\ off <= SafeMax /\ off \in Int
    BY <1>6, HandlerAssumption, FileAssumption
  <2>2. v.state = "Data" /\ v.open /\ v.file = f /\ v.pos = off /\ v.refused = NoFile
    BY <1>2, ReceivingView
  <2>3. k \in Packet /\ k.t \notin Forward
    BY <2>1, AnswerPackets, AnswersApart
  <2> HIDE DEF v
  <2>4. OpensFile(v, r, j, k, got, got')
    BY <1>1, <1>3, <1>6, <2>1, <2>2 DEF OpensFile
  <2>5. Handled(p, tx[p], v, dev[p], <<k>>)
    BY <1>6 DEF v
  <2> HIDE DEF k
  <2>6. ReceiveStep(r, v, net[p], Tail(net[p]), k, rDone, rDone', got, got', opened, opened')
    BY <1>2, <1>6, <2>4 DEF ReceiveStep
  <2> QED
    BY <1>1, <2>3, <2>5, <2>6, ReceiverAlone
<1> HIDE DEF Refuse
<1>7. ASSUME got' = got, opened' = opened, NEW e \in RefuseWith,
             Refuse(e, IF e = "Skip" THEN ackHaveFile ELSE ackDefer)
      PROVE  \E t, k : RunStep(p, t, k)
  <2>1. e = "Skip" \/ e = "Defer"
    BY HandlerAssumption
  <2>2. CASE e = "Skip"
    BY <1>5, <1>7, <2>2
  <2>3. CASE e # "Skip"
    <3>1. Refuse(e, ackDefer)
      BY <1>7, <2>3
    <3> QED
      BY <1>5, <1>7, <2>1, <2>3, <3>1
  <2> QED
    BY <2>2, <2>3
<1>8. ASSUME got' = got, opened' = opened, Refuse("Range", ackDefer)
      PROVE  \E t, k : RunStep(p, t, k)
  BY <1>5, <1>8
<1> QED
  BY <1>4, <1>6, <1>7, <1>8

\* DATA or EOF out of place.
LEMMA BadPositionSteps ==
  ASSUME SentInv, NEW p \in Peer, NEW type \in {"DATA", "EOF"}, Hears(p, type),
         rx[p].state = "Data", NEW off \in Int,
         NEW isEOF \in BOOLEAN, badPosition(p, off, isEOF)
  PROVE  (\E t, k : RunStep(p, t, k)) \/ StopStep(p)
<1> DEFINE t == tx[p]
           r == strayed(rx[p], off)
           oneWay == /\ ~isEOF /\ r.retries > HdxBurst /\ t.state \in BeforeRend
                     /\ p = ANS /\ ~t.hdxlink
           tries == IF oneWay THEN 1 ELSE r.retries + 1
           u == asking(r, tries)
           b == t.hdxlink \/ oneWay
           w == [t EXCEPT !.hdxlink = b]
           j == Head(net[p])
           k == Pkt("RPOS", u.file, u.pos, 0, u.syncID)
<1>1. t \in TxType /\ rx[p] \in RxType /\ res[p] = "run" /\ Took(net[p], Tail(net[p]), j, type)
      /\ Less(Tail(net[p]), net[p])
  BY Hearing, HeardSteps
<1>2. r \in RxType /\ SamePlace(r, rx[p])
  BY <1>1, StrayedKeeps, RxViews
<1>3. SameFile(t, t) /\ SameData(t, t) /\ SameWindow(t, t)
  BY <1>1, LeftAlone
<1>4. \/ Handled(p, t, r, dev[p], <<>>) /\ UNCHANGED <<files, devGot>>
      \/ Finish(p, "err", t, r, dev[p], <<>>)
      \/ /\ tries <= MaxRetries
         /\ Handled(p, w, u, dev[p], <<k>>)
         /\ UNCHANGED <<files, devGot>>
  BY DEF badPosition
<1>5. CASE Handled(p, t, r, dev[p], <<>>) /\ UNCHANGED <<files, devGot>>
  <2>1. sDone' = sDone /\ rDone' = rDone /\ got' = got /\ opened' = opened
    BY <1>5 DEF files
  <2>2. Ignores(r, rx[p], net[p], Tail(net[p]), Nothing)
    BY <1>1, <1>2, NothingMatters DEF Ignores
  <2>3. ReceiveStep(rx[p], r, net[p], Tail(net[p]), Nothing, rDone, rDone', got, got', opened, opened')
    BY <2>1, <2>2 DEF ReceiveStep
  <2> QED
    BY <1>5, <2>1, <2>3, NothingMatters, ReceiverAlone
<1>6. CASE Finish(p, "err", t, r, dev[p], <<>>)
  BY <1>1, <1>2, <1>3, <1>6, ControlVoid, FinishSteps
<1>7. CASE /\ tries <= MaxRetries
           /\ Handled(p, w, u, dev[p], <<k>>)
           /\ UNCHANGED <<files, devGot>>
  <2>1. tries \in 0..MaxRetries
    <3>1. r.retries \in Nat /\ MaxRetries \in Nat
      BY <1>2, SomeRetries DEF RxType
    <3>2. tries = 1 \/ tries = r.retries + 1
      OBVIOUS
    <3>3. tries <= MaxRetries
      BY <1>7
    <3> HIDE DEF tries, r
    <3> QED
      BY <3>1, <3>2, <3>3
  <2>2. b \in BOOLEAN
    OBVIOUS
  <2> HIDE DEF tries, r, b
  <2>3. u \in RxType /\ SamePlace(u, rx[p])
    <3>1. u \in RxType
      BY <1>2, <2>1, AskingKeeps
    <3>2. SamePlace(u, r)
      BY <1>2, RxViews
    <3> QED
      BY <3>1, <3>2, <1>2 DEF SamePlace, SameRx
  <2>4. /\ w \in TxType /\ SameFile(w, tx[p]) /\ w.state = tx[p].state
        /\ SameData(w, t) /\ SameWindow(w, t) /\ w.retries = t.retries
    <3>1. w \in TxType /\ SameFile(w, tx[p]) /\ w.state = tx[p].state
      BY <1>1, <2>2, HdxlinkKeeps
    <3>2. SameData(w, t) /\ SameWindow(w, t) /\ w.retries = t.retries
      BY <1>1, OtherView
    <3> QED
      BY <3>1, <3>2
  <2> HIDE DEF u, w
  <2>5. k \in Packet /\ k.t \notin Forward
    BY <2>3, AnswerPackets, AnswersApart
  <2>6. AsksAgain(u, rx[p], j, k)
    BY <2>3 DEF AsksAgain, SamePlace, SameRx
  <2>7. sDone' = sDone /\ rDone' = rDone /\ got' = got /\ opened' = opened /\ Handled(p, w, u, dev[p], <<k>>)
    BY <1>7 DEF files
  <2> HIDE DEF k
  <2>8. ReceiveStep(rx[p], u, net[p], Tail(net[p]), k, rDone, rDone', got, got', opened, opened')
    BY <1>1, <2>6, <2>7 DEF ReceiveStep
  <2>9. RunStep(p, w, k)
    BY <2>4, <2>5, <2>7, <2>8, ReceiverHandled
  <2> QED
    BY <2>9
<1> QED
  BY <1>4, <1>5, <1>6, <1>7

\* DATA.
LEMMA DataSteps ==
  ASSUME SentInv, NEW p \in Peer, rxData(p)
  PROVE  (\E t, k : RunStep(p, t, k)) \/ StopStep(p)
<1> DEFINE j == Head(net[p])
           r == rx[p]
           u == skipping(r)
           w == taking(r, j.n)
           out == dataAck(p, r.pos + j.n)
<1>1. Hears(p, "DATA")
  BY DEF rxData
<1>2. /\ r \in RxType /\ j.n \in Nat /\ j.off \in Int /\ Less(Tail(net[p]), net[p])
      /\ Took(net[p], Tail(net[p]), j, "DATA")
  BY <1>1, Hearing, HeardSteps
<1>3. \/ Handled(p, tx[p], r, dev[p], <<>>) /\ UNCHANGED <<files, devGot>>
      \/ r.state = "Data" /\ badPosition(p, j.off, FALSE)
      \/ /\ r.state = "Data" /\ j.off = r.pos /\ sDone' = sDone /\ opened' = opened
         /\ \/ /\ r.open
               /\ Handled(p, tx[p], u, dev[p], <<Pkt("RPOS", u.file, u.pos, 0, u.syncID)>>)
               /\ rDone' = Complete(rDone, r.file, "Write") /\ got' = got
            \/ /\ Handled(p, tx[p], w, dev[p], out) /\ rDone' = rDone
               /\ got' = IF r.open THEN [got EXCEPT ![r.file] = @ \o Content(j.f, j.off, j.n)] ELSE got
  BY DEF rxData, inPlace
<1>4. CASE Handled(p, tx[p], r, dev[p], <<>>) /\ UNCHANGED <<files, devGot>>
  <2>1. sDone' = sDone /\ rDone' = rDone /\ got' = got /\ opened' = opened
    BY <1>4 DEF files
  <2>2. Ignores(r, r, net[p], Tail(net[p]), Nothing)
    BY <1>2, NothingMatters DEF Ignores, SamePlace, SameRx
  <2>3. ReceiveStep(r, r, net[p], Tail(net[p]), Nothing, rDone, rDone', got, got', opened, opened')
    BY <2>1, <2>2 DEF ReceiveStep
  <2> QED
    BY <1>1, <1>4, <2>1, <2>3, NothingMatters, ReceiverAlone
<1>5. CASE r.state = "Data" /\ badPosition(p, j.off, FALSE)
  BY <1>1, <1>2, <1>5, BadPositionSteps
<1>6. CASE /\ r.state = "Data" /\ j.off = r.pos /\ sDone' = sDone /\ opened' = opened /\ r.open
           /\ Handled(p, tx[p], u, dev[p], <<Pkt("RPOS", u.file, u.pos, 0, u.syncID)>>)
           /\ rDone' = Complete(rDone, r.file, "Write") /\ got' = got
  <2> DEFINE k == Pkt("RPOS", u.file, u.pos, 0, u.syncID)
  <2>1. u \in RxType
    BY <1>2, SkippingKeeps
  <2>2. u.state = r.state /\ Shut(u, r) /\ u.pos = offsetSkip
    BY <1>2, RxViews
  <2> HIDE DEF u
  <2>3. k \in Packet /\ k.t \notin Forward
    BY <2>1, AnswerPackets, AnswersApart
  <2>4. k = Pkt("RPOS", r.file, offsetSkip, 0, u.syncID)
    BY <2>2 DEF Shut
  <2>5. Handled(p, tx[p], u, dev[p], <<k>>)
    BY <1>6
  <2> HIDE DEF k
  <2>6. FailsToWrite(u, r, j, k, rDone, rDone')
    BY <1>6, <2>2, <2>4 DEF FailsToWrite
  <2>7. ReceiveStep(r, u, net[p], Tail(net[p]), k, rDone, rDone', got, got', opened, opened')
    BY <1>2, <1>6, <2>6 DEF ReceiveStep
  <2> QED
    BY <1>1, <1>6, <2>3, <2>5, <2>7, ReceiverAlone
<1>7. CASE /\ r.state = "Data" /\ j.off = r.pos /\ sDone' = sDone /\ opened' = opened
           /\ Handled(p, tx[p], w, dev[p], out) /\ rDone' = rDone
           /\ got' = IF r.open THEN [got EXCEPT ![r.file] = @ \o Content(j.f, j.off, j.n)] ELSE got
  <2> DEFINE a == OffPkt("DATAACK", r.pos + j.n)
             k == IF Window[Other(p)] > 0 THEN a ELSE Nothing
  <2>1. SameRx(w, r) /\ w.pos = r.pos + j.n /\ w.refusedAck = r.refusedAck
    BY <1>2, RxViews
  <2>2. r.pos + j.n \in Int
    BY <1>2 DEF RxType
  <2>3. a \in Packet /\ a.t \notin Forward
    BY <2>2, AnswerPackets, AnswersApart
  <2>4. k = OffPkt("DATAACK", w.pos) \/ k = Nothing
    BY <2>1
  <2>5. (out = <<k>> /\ k = a) \/ (out = <<>> /\ k = Nothing)
    BY DEF dataAck
  <2> HIDE DEF w, k, out, a
  <2>6. k \in Packet /\ k.t \notin Forward
    BY <2>3, <2>5, NothingMatters
  <2>7. TakesBlock(w, r, j, k, got, got')
    BY <1>7, <2>1, <2>4 DEF TakesBlock
  <2>8. ReceiveStep(r, w, net[p], Tail(net[p]), k, rDone, rDone', got, got', opened, opened')
    BY <1>2, <1>7, <2>7 DEF ReceiveStep
  <2>9. out = <<k>> \/ (out = <<>> /\ k = Nothing)
    BY <2>5
  <2> QED
    BY <1>1, <1>7, <2>6, <2>8, <2>9, ReceiverAlone
<1> QED
  BY <1>3, <1>4, <1>5, <1>6, <1>7

\* EOF.
LEMMA EofSteps ==
  ASSUME SentInv, NEW p \in Peer, rxEOF(p)
  PROVE  (\E t, k : RunStep(p, t, k)) \/ StopStep(p)
<1> DEFINE j == Head(net[p])
           off == j.off
           r == rx[p]
           a == Ctl("EOFACK")
<1>1. Hears(p, "EOF")
  BY DEF rxEOF
<1>2. /\ r \in RxType /\ off \in Int /\ Less(Tail(net[p]), net[p])
      /\ Took(net[p], Tail(net[p]), j, "EOF")
  BY <1>1, Hearing, HeardSteps
<1>3. a \in Packet /\ a.t \notin Forward
  BY AnswerPackets, AnswersApart
<1>4. \/ r.state = "Data" /\ badPosition(p, off, TRUE)
      \/ /\ r.state # "Data" /\ UNCHANGED <<files, devGot>>
         /\ Handled(p, tx[p], r, dev[p], IF r.state = "Finfo" THEN <<a>> ELSE <<>>)
      \/ \E n, o : /\ IF off < 0 THEN o = "SenderSkip" ELSE o = "nil" /\ off = r.pos
                   /\ r.state = "Data" /\ Handled(p, tx[p], closing(r, n), dev[p], <<a>>)
                   /\ rDone' = IF r.open THEN Complete(rDone, r.file, o) ELSE rDone
                   /\ got' = got /\ sDone' = sDone /\ opened' = opened
  <2>1. \/ r.state = "Data" /\ badPosition(p, off, TRUE)
        \/ /\ r.state # "Data" /\ UNCHANGED <<files, devGot>>
           /\ Handled(p, tx[p], r, dev[p], IF r.state = "Finfo" THEN <<a>> ELSE <<>>)
        \/ /\ r.state = "Data" /\ off < 0
           /\ Handled(p, tx[p], closing(r, 0), dev[p], <<a>>)
           /\ rDone' = IF r.open THEN Complete(rDone, r.file, "SenderSkip") ELSE rDone
           /\ got' = got /\ sDone' = sDone /\ opened' = opened
        \/ /\ r.state = "Data" /\ off >= 0 /\ off = r.pos
           /\ Handled(p, tx[p], closing(r, off), dev[p], <<a>>)
           /\ rDone' = IF r.open THEN Complete(rDone, r.file, "nil") ELSE rDone
           /\ got' = got /\ sDone' = sDone /\ opened' = opened
    BY DEF rxEOF
  <2>2. off >= 0 => ~(off < 0)
    BY <1>2
  <2> HIDE DEF off, a, r
  <2> QED
    BY <2>1, <2>2
<1> HIDE DEF a
<1>5. CASE r.state = "Data" /\ badPosition(p, off, TRUE)
  BY <1>1, <1>2, <1>5, BadPositionSteps
<1>6. CASE /\ r.state # "Data" /\ UNCHANGED <<files, devGot>>
           /\ Handled(p, tx[p], r, dev[p], IF r.state = "Finfo" THEN <<a>> ELSE <<>>)
  <2>1. sDone' = sDone /\ rDone' = rDone /\ got' = got /\ opened' = opened /\ SamePlace(r, r)
    BY <1>6 DEF files, SamePlace, SameRx
  <2>2. CASE r.state = "Finfo"
    <3>1. ReceiveStep(r, r, net[p], Tail(net[p]), a, rDone, rDone', got, got', opened, opened')
      BY <1>2, <2>1, <2>2 DEF ReceiveStep, a
    <3>2. Handled(p, tx[p], r, dev[p], <<a>>)
      BY <1>6, <2>2
    <3> QED
      BY <1>1, <1>3, <2>1, <3>1, <3>2, ReceiverAlone
  <2>3. CASE r.state # "Finfo"
    <3>1. Ignores(r, r, net[p], Tail(net[p]), Nothing)
      BY <1>2, <2>1, NothingMatters DEF Ignores
    <3>2. ReceiveStep(r, r, net[p], Tail(net[p]), Nothing, rDone, rDone', got, got', opened, opened')
      BY <2>1, <3>1 DEF ReceiveStep
    <3>3. Handled(p, tx[p], r, dev[p], <<>>)
      BY <1>6, <2>3
    <3> QED
      BY <1>1, <2>1, <3>2, <3>3, NothingMatters, ReceiverAlone
  <2> QED
    BY <2>2, <2>3
<1>7. ASSUME NEW n, NEW o, IF off < 0 THEN o = "SenderSkip" ELSE o = "nil" /\ off = r.pos,
             r.state = "Data", Handled(p, tx[p], closing(r, n), dev[p], <<a>>),
             rDone' = IF r.open THEN Complete(rDone, r.file, o) ELSE rDone,
             got' = got, sDone' = sDone, opened' = opened
      PROVE  (\E t, k : RunStep(p, t, k)) \/ StopStep(p)
  <2> DEFINE w == closing(r, n)
  <2>1. w.state = "Finfo" /\ Shut(w, r)
    BY <1>2, RxViews
  <2>2. Handled(p, tx[p], w, dev[p], <<a>>)
    BY <1>7
  <2> HIDE DEF w
  <2>3. o \in {"SenderSkip", "nil"}
    BY <1>7
  <2>4. ClosesFile(w, r, j, a, rDone, rDone')
    BY <1>7, <2>1, <2>3 DEF ClosesFile, a
  <2>5. ReceiveStep(r, w, net[p], Tail(net[p]), a, rDone, rDone', got, got', opened, opened')
    BY <1>2, <1>7, <2>4 DEF ReceiveStep
  <2> QED
    BY <1>1, <1>3, <1>7, <2>2, <2>5, ReceiverAlone
<1> QED
  BY <1>4, <1>5, <1>6, <1>7

-----------------------------------------------------------------------------
(* Every step is one of these, or leaves them all alone.                   *)

\* The steps of a Run and its ends are all there are.
LEMMA NextMoves ==
  ASSUME Patient, SentInv, HandshakeInv, [Next]_vars
  PROVE  \/ UNCHANGED <<tx, rx, net, res, sDone, rDone, opened, got>>
         \/ \E p \in Peer : (\E t, k : RunStep(p, t, k)) \/ StopStep(p)
<1>1. ASSUME NEW p \in Peer, Loop(p) \/ fireTimers(p)
      PROVE  (\E t, k : RunStep(p, t, k)) \/ StopStep(p)
  BY <1>1, LoopSteps
<1>2. ASSUME NEW p \in Peer, handlePacket(p)
      PROVE  (\E t, k : RunStep(p, t, k)) \/ StopStep(p)
  <2>1. CASE handleStart(p) \/ rxInit(p) \/ handleInitAck(p) \/ txIdle(p)
    BY <2>1, HandshakeSteps
  <2>2. CASE rxFinfo(p) \/ acceptFinfo(p)
    BY <2>2, RepeatSteps, AcceptSteps
  <2>3. CASE rxData(p) \/ rxEOF(p)
    BY <2>3, DataSteps, EofSteps
  <2>4. CASE txFinfoAck(p) \/ txDataAck(p) \/ txRpos(p) \/ txEOFAck(p)
    BY <2>4, FinfoAckSteps, DataAckSteps, RposSteps, EofAckSteps
  <2>5. CASE txEnd(p) \/ devRx(p) \/ devDack(p)
    BY <2>5, EndSteps
  <2> QED
    BY <1>2, <2>1, <2>2, <2>3, <2>4, <2>5 DEF handlePacket
<1>3. ASSUME NEW p \in Peer, SendDevice(p) \/ queueDev(p) \/ Corrupt(p) \/ Fail(p)
      PROVE  \/ UNCHANGED <<tx, rx, net, res, sDone, rDone, opened, got>>
             \/ (\E t, k : RunStep(p, t, k)) \/ StopStep(p)
  BY <1>3, OutsideSteps
<1>4. CASE UNCHANGED vars
  BY <1>4 DEF vars
<1> QED
  BY <1>1, <1>2, <1>3, <1>4 DEF Next, Over

=============================================================================
