-------------------------- MODULE HydraBatchProofs --------------------------
(***************************************************************************)
(* Proofs about HydraBatch, for every set of files, every choice of        *)
(* offers, sizes and windows and every bound: type correctness, that the   *)
(* sender's FileCompleted fires exactly once per file, and that the RINIT  *)
(* gate holds, whatever is lost and whichever timer fires early.           *)
(***************************************************************************)
EXTENDS HydraBatch, TLAPS

-----------------------------------------------------------------------------
(* Records.  A record with the right fields, each in its set, has the type *)
(* of its machine; the provers reason about a record built by several      *)
(* EXCEPTs field by field.                                                 *)

TxDomain == {"state", "retries", "timer", "syncID", "offer", "pos", "skip", "err",
             "eob", "lastFinfo", "lastAck", "window", "peerAcked", "hdxlink",
             "finfoAckWait", "eofAckWait", "next", "syncFile"}
TxRecord(u) == DOMAIN u = TxDomain /\ u = [x \in DOMAIN u |-> u[x]]
TxTyped(u) ==
    /\ u.state \in TxState /\ u.retries \in 0..MaxRetries /\ u.timer \in BOOLEAN
    /\ u.syncID \in Nat /\ u.offer \in File \cup {NoFile} /\ u.pos \in Nat
    /\ u.skip \in BOOLEAN /\ u.err \in Outcome /\ u.eob \in BOOLEAN
    /\ u.lastFinfo \in File \cup {NoFile, EOB} /\ u.lastAck \in Nat /\ u.window \in Nat
    /\ u.peerAcked \in BOOLEAN /\ u.hdxlink \in BOOLEAN /\ u.finfoAckWait \in BOOLEAN
    /\ u.eofAckWait \in BOOLEAN /\ u.next \in Nat /\ u.syncFile \in File \cup {NoFile}

RxDomain == {"state", "open", "file", "pos", "retries", "syncID", "lastSync", "timer",
             "refused", "refusedAck"}
RxRecord(u) == DOMAIN u = RxDomain /\ u = [x \in DOMAIN u |-> u[x]]
RxTyped(u) ==
    /\ u.state \in RxState /\ u.open \in BOOLEAN /\ u.file \in File \cup {NoFile}
    /\ u.pos \in Int /\ u.retries \in 0..MaxRetries /\ u.syncID \in Nat
    /\ u.lastSync \in Int /\ u.timer \in BOOLEAN /\ u.refused \in File \cup {NoFile}
    /\ u.refusedAck \in Int

DevDomain == {"state", "retries", "timer", "txID", "rxID", "pending", "queue", "devQ",
              "asked"}
DevRecord(u) == DOMAIN u = DevDomain /\ u = [x \in DOMAIN u |-> u[x]]
DevTyped(u) ==
    /\ u.state \in DevState /\ u.retries \in 0..MaxRetries /\ u.timer \in BOOLEAN
    /\ u.txID \in Nat /\ u.rxID \in Nat /\ u.pending \in Nat /\ u.queue \in Seq(Nat)
    /\ u.devQ \in Seq(Nat) /\ u.asked \in Nat

\* A TX record is of its type exactly when each field is.
LEMMA TxFields == \A u : u \in TxType <=> TxRecord(u) /\ TxTyped(u)
  BY SMT DEF TxType, TxRecord, TxTyped, TxDomain

\* The same for the RX machine.
LEMMA RxFields == \A u : u \in RxType <=> RxRecord(u) /\ RxTyped(u)
  BY DEF RxType, RxRecord, RxTyped, RxDomain

\* The same for the DEV machine.
LEMMA DevFields == \A u : u \in DevType <=> DevRecord(u) /\ DevTyped(u)
  BY DEF DevType, DevRecord, DevTyped, DevDomain

-----------------------------------------------------------------------------
(* The TX machine's helpers: what they type and what they leave alone.     *)

SameFile(u, t) ==
    /\ u.offer = t.offer /\ u.next = t.next /\ u.eob = t.eob
    /\ u.lastFinfo = t.lastFinfo /\ u.finfoAckWait = t.finfoAckWait

\* At least one retry is allowed.
LEMMA SomeRetries == MaxRetries \in Nat /\ MaxRetries >= 1
  BY BoundAssumption

\* Moving the cursor touches no file.
LEMMA AdvanceKeeps ==
  ASSUME NEW t \in TxType, NEW s \in TxState, NEW u, u = Advance(t, s)
  PROVE  u \in TxType /\ SameFile(u, t) /\ u.state = s
<1>1. TxRecord(u)
  BY DEF TxType, TxRecord, Advance, TxDomain
<1>2. TxTyped(u)
  BY SomeRetries DEF TxType, TxTyped, Advance
<1>3. SameFile(u, t) /\ u.state = s
  BY DEF TxType, Advance, SameFile
<1> QED
  BY <1>1, <1>2, <1>3, TxFields

\* Nor does waiting for an answer.
LEMMA AwaitKeeps ==
  ASSUME NEW t \in TxType, NEW s \in TxState, NEW u, u = Await(t, s)
  PROVE  u \in TxType /\ SameFile(u, t) /\ u.state = s
<1>1. TxRecord(u)
  BY DEF TxType, TxRecord, Await, TxDomain
<1>2. TxTyped(u)
  BY DEF TxType, TxTyped, Await
<1>3. SameFile(u, t) /\ u.state = s
  BY DEF TxType, Await, SameFile
<1> QED
  BY <1>1, <1>2, <1>3, TxFields

\* sync moves the cursor only, and only along these edges.
LEMMA SyncKeeps ==
  ASSUME NEW t \in TxType, NEW r, NEW d, NEW u, u = sync(t, r, d)
  PROVE  /\ u \in TxType /\ SameFile(u, t)
         /\ \/ u.state = t.state
            \/ t.state \in {"Start", "Swait"} /\ u.state = "Init"
            \/ t.state = "Rinit" /\ u.state = "Finfo"
            \/ t.state = "Xdata" /\ u.state = "Xwait"
            \/ t.state = "Xwait" /\ u.state = "Xdata"
            \/ t.state = "Rend" /\ u.state = "End"
<1>1. \/ u = t
      \/ t.state \in {"Start", "Swait"} /\ u = Advance(t, "Init")
      \/ t.state = "Rinit" /\ u = Advance(t, "Finfo")
      \/ t.state = "Xdata" /\ u = Await(t, "Xwait")
      \/ t.state = "Xwait" /\ u = Advance(t, "Xdata")
      \/ t.state = "Rend" /\ u = Advance(t, "End")
  BY DEF sync
<1> QED
  BY <1>1, AdvanceKeeps, AwaitKeeps DEF TxState, SameFile

\* sync keeps a cursor well-formed.
LEMMA SyncShape ==
  ASSUME NEW p \in Peer, NEW t \in TxType, TxShape(p, t), NEW r, NEW d
  PROVE  TxShape(p, sync(t, r, d))
  BY SyncKeeps DEF SameFile, TxShape, BeforeFinfo, FromEnd, Transferring

\* The FINFO just written awaits its answer.
LEMMA AnnouncedKeeps ==
  ASSUME NEW t \in TxType, NEW u, u = announced(t)
  PROVE  /\ u \in TxType /\ u.offer = t.offer /\ u.next = t.next
         /\ u.eob = t.eob /\ u.lastFinfo = t.lastFinfo /\ u.state = "FinfoAck"
<1>1. TxRecord(u)
  BY DEF TxType, TxRecord, announced, TxDomain
<1>2. TxTyped(u)
  BY SomeRetries DEF TxType, TxTyped, announced, TxState
<1>3. /\ u.offer = t.offer /\ u.next = t.next /\ u.eob = t.eob
      /\ u.lastFinfo = t.lastFinfo /\ u.state = "FinfoAck"
  BY DEF TxType, announced, SameFile
<1> QED
  BY <1>1, <1>2, <1>3, TxFields

\* Running out of offers.
LEMMA EndOfBatchKeeps ==
  \A t \in TxType, j \in Nat :
    /\ endOfBatch(t, j) \in TxType /\ endOfBatch(t, j).offer = t.offer
    /\ endOfBatch(t, j).next = j /\ endOfBatch(t, j).eob
    /\ endOfBatch(t, j).lastFinfo = EOB /\ endOfBatch(t, j).state = t.state
<1> TAKE t \in TxType, j \in Nat
<1> DEFINE u == endOfBatch(t, j)
<1>1. TxRecord(u)
  BY DEF TxType, TxRecord, endOfBatch, TxDomain
<1>2. TxTyped(u)
  BY SomeRetries DEF TxType, TxTyped, endOfBatch
<1>3. u.offer = t.offer /\ u.next = j /\ u.eob /\ u.lastFinfo = EOB /\ u.state = t.state
  BY DEF TxType, endOfBatch, SameFile
<1> QED
  BY <1>1, <1>2, <1>3, TxFields

\* Taking an offer.
LEMMA NewOfferKeeps ==
  \A t \in TxType, o \in File, j \in Nat :
    /\ newOffer(t, o, j) \in TxType /\ newOffer(t, o, j).offer = o
    /\ newOffer(t, o, j).next = j + 1 /\ ~newOffer(t, o, j).eob
    /\ newOffer(t, o, j).lastFinfo = o /\ newOffer(t, o, j).state = t.state
<1> TAKE t \in TxType, o \in File, j \in Nat
<1> DEFINE u == newOffer(t, o, j)
<1>1. TxRecord(u)
  BY DEF TxType, TxRecord, newOffer, TxDomain
<1>2. TxTyped(u)
  BY SomeRetries DEF TxType, TxTyped, newOffer, Outcome
<1>3. u.offer = o /\ u.next = j + 1 /\ ~u.eob /\ u.lastFinfo = o /\ u.state = t.state
  BY DEF TxType, newOffer, SameFile
<1> QED
  BY <1>1, <1>2, <1>3, TxFields

\* Giving up a file's remainder.
LEMMA SkipFileKeeps ==
  ASSUME NEW t \in TxType, NEW e \in Outcome, NEW u, u = skipFile(t, e)
  PROVE  u \in TxType /\ SameFile(u, t) /\ u.state = "EOF"
<1>1. TxRecord(u)
  BY DEF TxType, TxRecord, skipFile, TxDomain
<1>2. TxTyped(u)
  BY SomeRetries DEF TxType, TxTyped, skipFile, TxState
<1>3. SameFile(u, t) /\ u.state = "EOF"
  BY DEF TxType, skipFile, SameFile
<1> QED
  BY <1>1, <1>2, <1>3, TxFields

\* The EOF just written awaits its answer.
LEMMA EofSentKeeps ==
  ASSUME NEW t \in TxType, NEW u, u = eofSent(t)
  PROVE  u \in TxType /\ SameFile(u, t) /\ u.state = "EOFAck"
<1>1. TxRecord(u)
  BY DEF TxType, TxRecord, eofSent, TxDomain
<1>2. TxTyped(u)
  BY SomeRetries DEF TxType, TxTyped, eofSent, TxState
<1>3. SameFile(u, t) /\ u.state = "EOFAck"
  BY DEF TxType, eofSent, SameFile
<1> QED
  BY <1>1, <1>2, <1>3, TxFields

\* Dropping the window.
LEMMA DropWindowKeeps ==
  ASSUME NEW t \in TxType, NEW u, u = dropWindow(t)
  PROVE  u \in TxType /\ SameFile(u, t) /\ u.state = "Xdata"
<1>1. TxRecord(u)
  BY DEF TxType, TxRecord, dropWindow, TxDomain
<1>2. TxTyped(u)
  BY SomeRetries DEF TxType, TxTyped, dropWindow, TxState
<1>3. SameFile(u, t) /\ u.state = "Xdata"
  BY DEF TxType, dropWindow, SameFile
<1> QED
  BY <1>1, <1>2, <1>3, TxFields

\* A retry goes back to the sending state.
LEMMA RetryKeeps ==
  ASSUME NEW t \in TxType, t.retries < MaxRetries, Retried(t.state) \in TxState,
         NEW u, u = retry(t)
  PROVE  u \in TxType /\ SameFile(u, t) /\ u.state = Retried(t.state)
<1>1. TxRecord(u)
  BY DEF TxType, TxRecord, retry, TxDomain
<1>2. TxTyped(u)
  BY SomeRetries DEF TxType, TxTyped, retry
<1>3. SameFile(u, t) /\ u.state = Retried(t.state)
  BY DEF TxType, retry, SameFile
<1> QED
  BY <1>1, <1>2, <1>3, TxFields

\* An acknowledged FINFO.
LEMMA AckedKeeps ==
  ASSUME NEW t \in TxType, NEW u, u = acked(t)
  PROVE  /\ u \in TxType /\ u.offer = t.offer /\ u.next = t.next
         /\ u.eob = t.eob /\ ~u.finfoAckWait /\ u.state = t.state
<1>1. TxRecord(u)
  BY DEF TxType, TxRecord, acked, TxDomain
<1>2. TxTyped(u)
  BY SomeRetries DEF TxType, TxTyped, acked
<1>3. /\ u.offer = t.offer /\ u.next = t.next /\ u.eob = t.eob
      /\ ~u.finfoAckWait /\ u.state = t.state
  BY DEF TxType, acked, SameFile
<1> QED
  BY <1>1, <1>2, <1>3, TxFields

\* An accepted file.
LEMMA ResumedKeeps ==
  ASSUME NEW t \in TxType, NEW off \in Nat, NEW u, u = resumed(t, off)
  PROVE  u \in TxType /\ SameFile(u, t) /\ u.state = "Xdata"
<1>1. TxRecord(u)
  BY DEF TxType, TxRecord, resumed, TxDomain
<1>2. TxTyped(u)
  BY SomeRetries DEF TxType, TxTyped, resumed, TxState
<1>3. SameFile(u, t) /\ u.state = "Xdata"
  BY DEF TxType, resumed, SameFile
<1> QED
  BY <1>1, <1>2, <1>3, TxFields

\* A file done with.
LEMMA FinishTxFileKeeps ==
  ASSUME NEW t \in TxType, NEW u, u = finishTxFile(t)
  PROVE  /\ u \in TxType /\ u.offer = NoFile /\ u.next = t.next
         /\ u.lastFinfo = NoFile /\ ~u.finfoAckWait /\ u.state = "Finfo"
<1>1. TxRecord(u)
  BY DEF TxType, TxRecord, finishTxFile, TxDomain
<1>2. TxTyped(u)
  BY SomeRetries DEF TxType, TxTyped, finishTxFile, TxState, Outcome
<1>3. /\ u.offer = NoFile /\ u.next = t.next /\ u.lastFinfo = NoFile
      /\ ~u.finfoAckWait /\ u.state = "Finfo"
  BY DEF TxType, finishTxFile, SameFile
<1> QED
  BY <1>1, <1>2, <1>3, TxFields

\* A DATAACK moves the window's base.
LEMMA AckedToKeeps ==
  ASSUME NEW t \in TxType, NEW off \in Int, NEW u, u = ackedTo(t, off)
  PROVE  u \in TxType /\ SameFile(u, t) /\ u.state = t.state
<1>1. TxRecord(u)
  BY DEF TxType, TxRecord, ackedTo, TxDomain
<1>2. TxTyped(u)
  BY SomeRetries DEF TxType, TxTyped, ackedTo
<1>3. SameFile(u, t) /\ u.state = t.state
  BY DEF TxType, ackedTo, SameFile
<1> QED
  BY <1>1, <1>2, <1>3, TxFields

\* A new resync id.
LEMMA ResyncKeeps ==
  ASSUME NEW t \in TxType, NEW k \in Packet, k.f \in File \cup {NoFile},
         NEW u, u = resync(t, k)
  PROVE  u \in TxType /\ SameFile(u, t) /\ u.state = t.state
<1>1. TxRecord(u)
  BY DEF TxType, TxRecord, resync, TxDomain
<1>2. TxTyped(u)
  BY SomeRetries DEF TxType, TxTyped, resync, Packet
<1>3. SameFile(u, t) /\ u.state = t.state
  BY DEF TxType, resync, SameFile
<1> QED
  BY <1>1, <1>2, <1>3, TxFields

\* A reposition.
LEMMA MovedKeeps ==
  ASSUME NEW t \in TxType, NEW off \in Nat, NEW u, u = moved(t, off)
  PROVE  /\ u \in TxType /\ SameFile(u, t) /\ u.state = (IF t.state = "Xwait" THEN "Xwait" ELSE "Xdata")
<1>1. TxRecord(u)
  BY DEF TxType, TxRecord, moved, TxDomain
<1>2. TxTyped(u)
  BY SomeRetries DEF TxType, TxTyped, moved, TxState
<1>3. SameFile(u, t) /\ u.state = (IF t.state = "Xwait" THEN "Xwait" ELSE "Xdata")
  BY DEF TxType, moved, SameFile
<1> QED
  BY <1>1, <1>2, <1>3, TxFields

\* A cursor move with nothing else.
LEMMA StateKeeps ==
  ASSUME NEW t \in TxType, NEW s \in TxState, NEW u, u = [t EXCEPT !.state = s]
  PROVE  u \in TxType /\ SameFile(u, t) /\ u.state = s
<1>1. TxRecord(u)
  BY DEF TxType, TxRecord, TxDomain
<1>2. TxTyped(u)
  BY SomeRetries DEF TxType, TxTyped
<1>3. SameFile(u, t) /\ u.state = s
  BY DEF TxType, SameFile
<1> QED
  BY <1>1, <1>2, <1>3, TxFields

\* A block read.
LEMMA PosKeeps ==
  ASSUME NEW t \in TxType, NEW n \in Nat, NEW u, u = [t EXCEPT !.pos = @ + n]
  PROVE  u \in TxType /\ SameFile(u, t) /\ u.state = t.state
<1>1. TxRecord(u)
  BY DEF TxType, TxRecord, TxDomain
<1>2. TxTyped(u)
  BY SomeRetries DEF TxType, TxTyped
<1>3. SameFile(u, t) /\ u.state = t.state
  BY DEF TxType, SameFile
<1> QED
  BY <1>1, <1>2, <1>3, TxFields

\* A window negotiated.
LEMMA WindowKeeps ==
  ASSUME NEW t \in TxType, NEW w \in Nat, NEW u, u = [t EXCEPT !.window = w]
  PROVE  u \in TxType /\ SameFile(u, t) /\ u.state = t.state
<1>1. TxRecord(u)
  BY DEF TxType, TxRecord, TxDomain
<1>2. TxTyped(u)
  BY SomeRetries DEF TxType, TxTyped
<1>3. SameFile(u, t) /\ u.state = t.state
  BY DEF TxType, SameFile
<1> QED
  BY <1>1, <1>2, <1>3, TxFields

\* The one-way fallback.
LEMMA HdxlinkKeeps ==
  ASSUME NEW t \in TxType, NEW b \in BOOLEAN, NEW u, u = [t EXCEPT !.hdxlink = b]
  PROVE  u \in TxType /\ SameFile(u, t) /\ u.state = t.state
<1>1. TxRecord(u)
  BY DEF TxType, TxRecord, TxDomain
<1>2. TxTyped(u)
  BY SomeRetries DEF TxType, TxTyped
<1>3. SameFile(u, t) /\ u.state = t.state
  BY DEF TxType, SameFile
<1> QED
  BY <1>1, <1>2, <1>3, TxFields

\* A retry counted.
LEMMA RetriesKeeps ==
  ASSUME NEW t \in TxType, t.retries < MaxRetries,
         NEW u, u = [t EXCEPT !.retries = @ + 1]
  PROVE  u \in TxType /\ SameFile(u, t) /\ u.state = t.state
<1>1. TxRecord(u)
  BY DEF TxType, TxRecord, TxDomain
<1>2. TxTyped(u)
  BY SomeRetries DEF TxType, TxTyped
<1>3. SameFile(u, t) /\ u.state = t.state
  BY DEF TxType, SameFile
<1> QED
  BY <1>1, <1>2, <1>3, TxFields

\* The offer the teardown completes.
LEMMA ClearedKeeps ==
  ASSUME NEW t \in TxType, NEW u, u = [t EXCEPT !.offer = NoFile]
  PROVE  u \in TxType /\ u.offer = NoFile /\ u.next = t.next
<1>1. TxRecord(u)
  BY DEF TxType, TxRecord, TxDomain
<1>2. TxTyped(u)
  BY SomeRetries DEF TxType, TxTyped
<1>3. u.offer = NoFile /\ u.next = t.next
  BY DEF TxType, SameFile
<1> QED
  BY <1>1, <1>2, <1>3, TxFields

\* The batch over.
LEMMA DoneKeeps ==
  ASSUME NEW t \in TxType, NEW u, u = [t EXCEPT !.timer = FALSE, !.state = "Done"]
  PROVE  u \in TxType /\ SameFile(u, t) /\ u.state = "Done"
<1>1. TxRecord(u)
  BY DEF TxType, TxRecord, TxDomain
<1>2. TxTyped(u)
  BY SomeRetries DEF TxType, TxTyped, TxState
<1>3. SameFile(u, t) /\ u.state = "Done"
  BY DEF TxType, SameFile
<1> QED
  BY <1>1, <1>2, <1>3, TxFields

-----------------------------------------------------------------------------
(* The RX machine's updates.                                               *)

\* A refusal remembered.
LEMMA RefusingKeeps ==
  ASSUME NEW r \in RxType, NEW f \in File, NEW ack \in Int,
         NEW u, u = refusing(r, f, ack)
  PROVE  u \in RxType
<1>1. RxRecord(u)
  BY DEF RxType, RxRecord, refusing, RxDomain
<1>2. RxTyped(u)
  BY SomeRetries DEF RxType, RxTyped, refusing
<1> QED
  BY <1>1, <1>2, RxFields

\* A file opened.
LEMMA ReceivingKeeps ==
  ASSUME NEW r \in RxType, NEW f \in File, NEW off \in Nat,
         NEW u, u = receiving(r, f, off)
  PROVE  u \in RxType
<1>1. RxRecord(u)
  BY DEF RxType, RxRecord, receiving, RxDomain
<1>2. RxTyped(u)
  BY SomeRetries DEF RxType, RxTyped, receiving, RxState
<1> QED
  BY <1>1, <1>2, RxFields

\* A position out of place.
LEMMA StrayedKeeps ==
  ASSUME NEW r \in RxType, NEW off \in Int, NEW u, u = strayed(r, off)
  PROVE  u \in RxType
<1>1. RxRecord(u)
  BY DEF RxType, RxRecord, strayed, RxDomain
<1>2. RxTyped(u)
  BY SomeRetries DEF RxType, RxTyped, strayed
<1> QED
  BY <1>1, <1>2, RxFields

\* A reposition asked for.
LEMMA AskingKeeps ==
  ASSUME NEW r \in RxType, NEW n \in 0..MaxRetries, NEW u, u = asking(r, n)
  PROVE  u \in RxType
<1>1. RxRecord(u)
  BY DEF RxType, RxRecord, asking, RxDomain
<1>2. RxTyped(u)
  BY SomeRetries DEF RxType, RxTyped, asking
<1> QED
  BY <1>1, <1>2, RxFields

\* A file given up.
LEMMA SkippingKeeps ==
  ASSUME NEW r \in RxType, NEW u, u = skipping(r)
  PROVE  u \in RxType
<1>1. RxRecord(u)
  BY DEF RxType, RxRecord, skipping, RxDomain
<1>2. RxTyped(u)
  BY SomeRetries DEF RxType, RxTyped, skipping, offsetSkip
<1> QED
  BY <1>1, <1>2, RxFields

\* A block taken.
LEMMA TakingKeeps ==
  ASSUME NEW r \in RxType, NEW n \in Nat, NEW u, u = taking(r, n)
  PROVE  u \in RxType
<1>1. RxRecord(u)
  BY DEF RxType, RxRecord, taking, RxDomain
<1>2. RxTyped(u)
  BY SomeRetries DEF RxType, RxTyped, taking
<1> QED
  BY <1>1, <1>2, RxFields

\* A file over.
LEMMA ClosingKeeps ==
  ASSUME NEW r \in RxType, NEW off \in Int, NEW u, u = closing(r, off)
  PROVE  u \in RxType
<1>1. RxRecord(u)
  BY DEF RxType, RxRecord, closing, RxDomain
<1>2. RxTyped(u)
  BY SomeRetries DEF RxType, RxTyped, closing, RxState
<1> QED
  BY <1>1, <1>2, RxFields

\* A cursor move with nothing else.
LEMMA RxStateKeeps ==
  ASSUME NEW r \in RxType, NEW s \in RxState, NEW u, u = [r EXCEPT !.state = s]
  PROVE  u \in RxType
<1>1. RxRecord(u)
  BY DEF RxType, RxRecord, RxDomain
<1>2. RxTyped(u)
  BY SomeRetries DEF RxType, RxTyped
<1> QED
  BY <1>1, <1>2, RxFields

\* The file the teardown closes.
LEMMA RxShutKeeps ==
  ASSUME NEW r \in RxType, NEW u, u = [r EXCEPT !.open = FALSE]
  PROVE  u \in RxType
<1>1. RxRecord(u)
  BY DEF RxType, RxRecord, RxDomain
<1>2. RxTyped(u)
  BY SomeRetries DEF RxType, RxTyped
<1> QED
  BY <1>1, <1>2, RxFields

-----------------------------------------------------------------------------
(* The DEV machine's updates.                                              *)

\* A datagram leaves the queue.
LEMMA PromotedKeeps ==
  ASSUME NEW d \in DevType, d.queue # <<>>, NEW u, u = promoted(d)
  PROVE  u \in DevType
<1>1. DevRecord(u)
  BY DEF DevType, DevRecord, promoted, DevDomain
<1>2. DevTyped(u)
  BY SomeRetries DEF DevType, DevTyped, promoted, DevState
<1> QED
  BY <1>1, <1>2, DevFields

\* A datagram dropped.
LEMMA DroppedKeeps ==
  ASSUME NEW d \in DevType, NEW u, u = dropped(d)
  PROVE  u \in DevType
<1>1. DevRecord(u)
  BY DEF DevType, DevRecord, dropped, DevDomain
<1>2. DevTyped(u)
  BY SomeRetries DEF DevType, DevTyped, dropped, DevState
<1> QED
  BY <1>1, <1>2, DevFields

\* A datagram sent.
LEMMA InFlightKeeps ==
  ASSUME NEW d \in DevType, NEW u, u = inFlight(d)
  PROVE  u \in DevType
<1>1. DevRecord(u)
  BY DEF DevType, DevRecord, inFlight, DevDomain
<1>2. DevTyped(u)
  BY SomeRetries DEF DevType, DevTyped, inFlight, DevState
<1> QED
  BY <1>1, <1>2, DevFields

\* A datagram to be sent again.
LEMMA DevTimeoutKeeps ==
  ASSUME NEW d \in DevType, d.retries < MaxRetries, NEW u, u = devTimeout(d)
  PROVE  u \in DevType
<1>1. DevRecord(u)
  BY DEF DevType, DevRecord, devTimeout, DevDomain
<1>2. DevTyped(u)
  BY SomeRetries DEF DevType, DevTyped, devTimeout, DevState
<1> QED
  BY <1>1, <1>2, DevFields

\* A datagram requested.
LEMMA RequestedKeeps ==
  ASSUME NEW d \in DevType, NEW u, u = requested(d)
  PROVE  u \in DevType
<1>1. DevRecord(u)
  BY DEF DevType, DevRecord, requested, DevDomain
<1>2. DevTyped(u)
  BY SomeRetries DEF DevType, DevTyped, requested
<1> QED
  BY <1>1, <1>2, DevFields

\* A datagram queued.
LEMMA QueuedKeeps ==
  ASSUME NEW d \in DevType, d.devQ # <<>>, NEW u, u = queued(d)
  PROVE  u \in DevType
<1>1. DevRecord(u)
  BY DEF DevType, DevRecord, queued, DevDomain
<1>2. DevTyped(u)
  BY SomeRetries DEF DevType, DevTyped, queued
<1> QED
  BY <1>1, <1>2, DevFields

\* A datagram acknowledged.
LEMMA SettledKeeps ==
  ASSUME NEW d \in DevType, NEW u, u = settled(d)
  PROVE  u \in DevType
<1>1. DevRecord(u)
  BY DEF DevType, DevRecord, settled, DevDomain
<1>2. DevTyped(u)
  BY SomeRetries DEF DevType, DevTyped, settled, DevState
<1> QED
  BY <1>1, <1>2, DevFields

\* A datagram received.
LEMMA RxIdKeeps ==
  ASSUME NEW d \in DevType, NEW n \in Nat, NEW u, u = [d EXCEPT !.rxID = n]
  PROVE  u \in DevType
<1>1. DevRecord(u)
  BY DEF DevType, DevRecord, DevDomain
<1>2. DevTyped(u)
  BY SomeRetries DEF DevType, DevTyped
<1> QED
  BY <1>1, <1>2, DevFields

-----------------------------------------------------------------------------
(* Packets and channels.                                                   *)

\* The packets without a file or a payload.
PlainType == PktType \ {"FINFO", "DATA", "DEVDATA"}

\* Packets that announce no file and carry no payload.
LEMMA PlainPacket ==
  ASSUME NEW type \in PlainType, NEW f \in File \cup {NoFile},
         NEW off \in Int, NEW n \in Nat, NEW id \in Nat
  PROVE  Pkt(type, f, off, n, id) \in Packet
  BY MarkerAssumption DEF Pkt, Packet, PlainType

\* Packets without any field, and those with an offset alone.
LEMMA ControlPacket ==
  ASSUME NEW type \in PlainType
  PROVE  Ctl(type) \in Packet /\ \A off \in Int : OffPkt(type, off) \in Packet
  BY PlainPacket DEF Ctl, OffPkt

\* Announcements.
LEMMA FinfoPacket ==
  ASSUME NEW f \in File \cup {EOB}
  PROVE  Pkt("FINFO", f, 0, 0, 0) \in Packet
  BY MarkerAssumption DEF Pkt, Packet, PktType

\* Blocks.
LEMMA DataPacket ==
  ASSUME NEW f \in File, NEW off \in Nat, NEW n \in Nat
  PROVE  Pkt("DATA", f, off, n, 0) \in Packet
  BY MarkerAssumption DEF Pkt, Packet, PktType

\* Datagrams.
LEMMA DatagramPacket ==
  ASSUME NEW n \in Nat, NEW id \in Nat
  PROVE  Pkt("DEVDATA", NoFile, n, 0, id) \in Packet
  BY MarkerAssumption DEF Pkt, Packet, PktType

\* What a peer hears is a packet, and what is left in its channel are packets.
LEMMA HeardPacket ==
  ASSUME MachinesOK, NEW p \in Peer, NEW type, Hears(p, type)
  PROVE  /\ Head(net[p]) \in Packet /\ Head(net[p]).t = type
         /\ Taken(p) \in [Peer -> Seq(Packet)]
<1>1. net \in [Peer -> Seq(Packet)] /\ net[p] \in Seq(Packet) /\ net[p] # <<>>
  BY DEF MachinesOK, Hears
<1>2. Head(net[p]) \in Packet /\ Tail(net[p]) \in Seq(Packet)
  BY <1>1
<1> QED
  BY <1>1, <1>2 DEF Taken, Hears

\* Writing packets keeps channels of packets.
LEMMA DeliverKeeps ==
  ASSUME NEW n \in [Peer -> Seq(Packet)], NEW p \in Peer, NEW out \in Seq(Packet)
  PROVE  Deliver(n, p, out) \in [Peer -> Seq(Packet)]
<1>1. \A q \in Peer : n[q] \o out \in Seq(Packet) /\ <<>> \in Seq(Packet)
  OBVIOUS
<1> QED
  BY <1>1 DEF Deliver

-----------------------------------------------------------------------------
(* The ends of a step.                                                     *)

\* A step that leaves p's Run active keeps the machines typed and in shape.
LEMMA ContinueKeeps ==
  ASSUME MachinesOK, Shape, NEW p \in Peer, res[p] = "run",
         NEW t \in TxType, TxShape(p, t), NEW r \in RxType, NEW d \in DevType,
         NEW n \in [Peer -> Seq(Packet)], NEW out \in Seq(Packet),
         Continue(p, n, t, r, d, out)
  PROVE  /\ MachinesOK' /\ Shape'
         /\ tx' \in [Peer -> TxType] /\ res' = res
         /\ tx'[p].offer = t.offer /\ tx'[p].next = t.next
         /\ \A q \in Peer \ {p} : tx'[q] = tx[q]
<1> DEFINE u == sync(t, r, d)
<1>1. u \in TxType /\ TxShape(p, u) /\ u.offer = t.offer /\ u.next = t.next
  BY SyncKeeps, SyncShape DEF SameFile
<1>2. tx' = [tx EXCEPT ![p] = u] /\ tx \in [Peer -> TxType]
  BY DEF Continue, MachinesOK
<1>3. tx' \in [Peer -> TxType] /\ tx'[p] = u /\ \A q \in Peer \ {p} : tx'[q] = tx[q]
  BY <1>1, <1>2
<1>4. rx' \in [Peer -> RxType] /\ dev' \in [Peer -> DevType]
  BY DEF Continue, MachinesOK
<1>5. net' \in [Peer -> Seq(Packet)]
  BY DeliverKeeps DEF Continue
<1>6. res' = res /\ lost' = lost
  BY DEF Continue
<1>7. MachinesOK'
  BY <1>3, <1>4, <1>5, <1>6 DEF MachinesOK
<1>8. Shape'
  <2> SUFFICES ASSUME NEW q \in Peer
               PROVE  IF res'[q] = "run" THEN TxShape(q, tx'[q])
                      ELSE tx'[q].offer = NoFile /\ tx'[q].next \in 1..(Len(Offers[q]) + 1)
    BY DEF Shape, TxShape
  <2>1. CASE q = p
    BY <2>1, <1>1, <1>3, <1>6
  <2>2. CASE q # p
    BY <2>2, <1>3, <1>6 DEF Shape
  <2> QED
    BY <2>1, <2>2
<1> QED
  BY <1>1, <1>3, <1>6, <1>7, <1>8

\* Offers are distinct: a file has one place in one peer's offers.
LEMMA OnePlace ==
  ASSUME NEW p \in Peer, NEW q \in Peer, NEW i \in 1..Len(Offers[p]),
         NEW j \in 1..Len(Offers[q]), Offers[p][i] = Offers[q][j]
  PROVE  p = q /\ i = j
  BY OfferAssumption

\* What a peer offers are files.
LEMMA OffersAreFiles ==
  ASSUME NEW p \in Peer
  PROVE  /\ Offers[p] \in Seq(File) /\ Len(Offers[p]) \in Nat
         /\ \A i \in 1..Len(Offers[p]) : Offers[p][i] \in File /\ Offers[p][i] # NoFile
<1>1. Offers[p] \in Seq(File)
  BY OfferAssumption
<1>2. Len(Offers[p]) \in Nat /\ \A i \in 1..Len(Offers[p]) : Offers[p][i] \in File
  BY <1>1
<1> QED
  BY <1>1, <1>2, MarkerAssumption

\* A step that neither pulls nor completes a file keeps the ledger.
LEMMA LedgerUnchanged ==
  ASSUME Ledger, NEW p \in Peer, sDone' = sDone,
         tx'[p].offer = tx[p].offer, tx'[p].next = tx[p].next,
         \A q \in Peer \ {p} : tx'[q] = tx[q]
  PROVE  Ledger'
<1>1. \A q \in Peer : tx'[q].offer = tx[q].offer /\ tx'[q].next = tx[q].next
  OBVIOUS
<1> QED
  BY <1>1 DEF Ledger, Offered

\* One FileCompleted for the pending offer keeps the ledger.
LEMMA LedgerCompleted ==
  ASSUME Ledger, NEW p \in Peer, sDone \in [File -> Seq(Outcome)],
         NEW f \in File, NEW o \in Outcome, f = tx[p].offer,
         tx[p].next \in 2..(Len(Offers[p]) + 1), f = Offers[p][tx[p].next - 1],
         sDone' = Complete(sDone, f, o),
         tx'[p].offer = NoFile, tx'[p].next = tx[p].next,
         \A q \in Peer \ {p} : tx'[q] = tx[q]
  PROVE  Ledger' /\ sDone' \in [File -> Seq(Outcome)]
<1> DEFINE m == tx[p].next - 1
<1>1. m \in 1..Len(Offers[p]) /\ f = Offers[p][m]
  BY OffersAreFiles
<1>2. sDone[f] = <<>>
  <2>1. \A i \in 1..Len(Offers[p]) :
          Offers[p][i] = tx[p].offer => sDone[Offers[p][i]] = <<>>
    BY DEF Ledger
  <2> HIDE DEF m
  <2> QED
    BY <1>1, <2>1
<1>3. sDone' \in [File -> Seq(Outcome)] /\ sDone'[f] = Append(sDone[f], o)
      /\ \A g \in File \ {f} : sDone'[g] = sDone[g]
  BY DEF Complete
<1>4. Len(sDone'[f]) = 1
  BY <1>2, <1>3
<1>5. ASSUME NEW q \in Peer, NEW i \in 1..Len(Offers[q])
      PROVE  IF i >= tx'[q].next \/ Offers[q][i] = tx'[q].offer
             THEN sDone'[Offers[q][i]] = <<>> ELSE Len(sDone'[Offers[q][i]]) = 1
  <2>1. CASE Offers[q][i] = f
    <3>1. q = p /\ i = m
      BY <2>1, <1>1, <1>5, OnePlace
    <3> QED
      BY <3>1, <2>1, <1>4, <1>5, OffersAreFiles
  <2>2. CASE Offers[q][i] # f
    <3>1. Offers[q][i] \in File /\ Offers[q][i] # NoFile
      BY <1>5, OffersAreFiles
    <3>2. sDone'[Offers[q][i]] = sDone[Offers[q][i]]
      BY <2>2, <3>1, <1>3
    <3>3. IF i >= tx[q].next \/ Offers[q][i] = tx[q].offer
          THEN sDone[Offers[q][i]] = <<>> ELSE Len(sDone[Offers[q][i]]) = 1
      BY <1>5 DEF Ledger
    <3>4. (i >= tx'[q].next \/ Offers[q][i] = tx'[q].offer)
          <=> (i >= tx[q].next \/ Offers[q][i] = tx[q].offer)
      BY <2>2, <3>1
    <3> QED
      BY <3>2, <3>3, <3>4
  <2> QED
    BY <2>1, <2>2
<1>6. ASSUME NEW g \in File, \A q \in Peer : g \notin Offered(q)
      PROVE  sDone'[g] = <<>>
  <2>1. f \in Offered(p)
    BY <1>1 DEF Offered
  <2>2. g # f
    BY <2>1, <1>6
  <2> QED
    BY <2>2, <1>3, <1>6 DEF Ledger
<1>7. \A q \in Peer : Offered(q)' = Offered(q)
  BY DEF Offered
<1> QED
  BY <1>3, <1>5, <1>6, <1>7 DEF Ledger

\* FileCompleted is recorded with its outcome.
LEMMA CompleteTyped ==
  ASSUME NEW done \in [File -> Seq(Outcome)], NEW f, NEW o \in Outcome
  PROVE  Complete(done, f, o) \in [File -> Seq(Outcome)]
<1>1. \A g \in File : Append(done[g], o) \in Seq(Outcome)
  OBVIOUS
<1> QED
  BY <1>1 DEF Complete

\* A running peer's pending offer is the last file it pulled.
LEMMA PendingOffer ==
  ASSUME MachinesOK, Shape, NEW p \in Peer, res[p] = "run"
  PROVE  /\ tx[p] \in TxType /\ rx[p] \in RxType /\ dev[p] \in DevType
         /\ TxShape(p, tx[p])
         /\ tx[p].next \in 1..(Len(Offers[p]) + 1)
         /\ tx[p].offer # NoFile =>
              /\ tx[p].offer \in File
              /\ tx[p].next \in 2..(Len(Offers[p]) + 1)
              /\ tx[p].offer = Offers[p][tx[p].next - 1]
<1>1. tx[p] \in TxType /\ rx[p] \in RxType /\ dev[p] \in DevType /\ TxShape(p, tx[p])
  BY DEF MachinesOK, Shape
<1>2. tx[p].offer \in File \cup {NoFile}
  BY <1>1 DEF TxType
<1>3. Len(Offers[p]) \in Nat
  BY OffersAreFiles
<1> QED
  BY <1>1, <1>2, <1>3 DEF TxShape

\* The end of a Run, with its teardown, keeps the invariant.
LEMMA FinishKeeps ==
  ASSUME SentInv, NEW p \in Peer, res[p] = "run", NEW result \in {"ok", "err"},
         NEW t \in TxType, t.offer = tx[p].offer, t.next = tx[p].next,
         NEW r \in RxType, NEW d \in DevType, NEW out \in Seq(Packet),
         Finish(p, result, t, r, d, out)
  PROVE  SentInv'
<1>0. MachinesOK /\ HistoryOK /\ Shape /\ Ledger
  BY DEF SentInv, TypeOK
<1> DEFINE u == [t EXCEPT !.offer = NoFile]
<1>1. u \in TxType /\ u.offer = NoFile /\ u.next = t.next
  BY ClearedKeeps
<1>2. tx' = [tx EXCEPT ![p] = u] /\ tx \in [Peer -> TxType]
  BY <1>0 DEF Finish, MachinesOK
<1>3. tx' \in [Peer -> TxType] /\ tx'[p] = u /\ \A q \in Peer \ {p} : tx'[q] = tx[q]
  BY <1>1, <1>2
<1>4. rx' \in [Peer -> RxType] /\ dev' \in [Peer -> DevType]
  BY <1>0, RxShutKeeps DEF Finish, MachinesOK
<1>5. net' \in [Peer -> Seq(Packet)]
  <2>1. Deliver(net, p, out) \in [Peer -> Seq(Packet)]
    BY <1>0, DeliverKeeps DEF MachinesOK
  <2>2. <<>> \in Seq(Packet)
    OBVIOUS
  <2> QED
    BY <2>1, <2>2 DEF Finish
<1>6. res' \in [Peer -> {"run", "ok", "err"}] /\ res'[p] # "run"
      /\ \A q \in Peer \ {p} : res'[q] = res[q]
  BY <1>0 DEF Finish, MachinesOK
<1>7. lost' = lost /\ opened' = opened /\ got' = got /\ devGot' = devGot
  BY DEF Finish
<1>8. MachinesOK'
  BY <1>0, <1>3, <1>4, <1>5, <1>6, <1>7 DEF MachinesOK
<1>9. Ledger' /\ sDone' \in [File -> Seq(Outcome)]
  <2>1. CASE t.offer = NoFile
    <3>1. sDone' = sDone
      BY <2>1 DEF Finish
    <3> QED
      BY <2>1, <3>1, <1>0, <1>1, <1>3, LedgerUnchanged DEF HistoryOK
  <2>2. CASE t.offer # NoFile
    <3>1. sDone' = Complete(sDone, t.offer, "Aborted") /\ "Aborted" \in Outcome
      BY <2>2 DEF Finish, Outcome
    <3> QED
      BY <2>2, <3>1, <1>0, <1>1, <1>3, PendingOffer, LedgerCompleted DEF HistoryOK
  <2> QED
    BY <2>1, <2>2
<1>10. rDone' \in [File -> Seq(Outcome)]
  BY <1>0, CompleteTyped DEF Finish, HistoryOK, Outcome
<1>11. HistoryOK'
  BY <1>0, <1>7, <1>9, <1>10 DEF HistoryOK
<1>12. Shape'
  <2> SUFFICES ASSUME NEW q \in Peer
               PROVE  IF res'[q] = "run" THEN TxShape(q, tx'[q])
                      ELSE tx'[q].offer = NoFile /\ tx'[q].next \in 1..(Len(Offers[q]) + 1)
    BY DEF Shape, TxShape
  <2>1. CASE q = p
    BY <2>1, <1>0, <1>1, <1>3, <1>6, PendingOffer
  <2>2. CASE q # p
    BY <2>2, <1>0, <1>3, <1>6 DEF Shape
  <2> QED
    BY <2>1, <2>2
<1> QED
  BY <1>8, <1>9, <1>11, <1>12 DEF SentInv, TypeOK

\* A step that leaves p's Run active and neither pulls nor completes a file.
LEMMA QuietStep ==
  ASSUME SentInv, NEW p \in Peer, res[p] = "run",
         NEW t \in TxType, TxShape(p, t), t.offer = tx[p].offer, t.next = tx[p].next,
         NEW r \in RxType, NEW d \in DevType,
         NEW n \in [Peer -> Seq(Packet)], NEW out \in Seq(Packet),
         Continue(p, n, t, r, d, out), sDone' = sDone, HistoryOK'
  PROVE  SentInv'
<1>1. MachinesOK /\ Shape /\ Ledger
  BY DEF SentInv, TypeOK
<1>2. /\ MachinesOK' /\ Shape' /\ tx'[p].offer = t.offer /\ tx'[p].next = t.next
      /\ \A q \in Peer \ {p} : tx'[q] = tx[q]
  BY <1>1, ContinueKeeps
<1>3. Ledger'
  BY <1>1, <1>2, LedgerUnchanged
<1> QED
  BY <1>2, <1>3 DEF SentInv, TypeOK

\* One that completes the pending offer.
LEMMA CompletingStep ==
  ASSUME SentInv, NEW p \in Peer, res[p] = "run", tx[p].offer # NoFile,
         NEW t \in TxType, TxShape(p, t), t.offer = NoFile, t.next = tx[p].next,
         NEW r \in RxType, NEW d \in DevType,
         NEW n \in [Peer -> Seq(Packet)], NEW out \in Seq(Packet),
         Continue(p, n, t, r, d, out), NEW o \in Outcome,
         sDone' = Complete(sDone, tx[p].offer, o),
         UNCHANGED <<rDone, opened, got, devGot>>
  PROVE  SentInv'
<1>1. MachinesOK /\ HistoryOK /\ Shape /\ Ledger
  BY DEF SentInv, TypeOK
<1>2. /\ MachinesOK' /\ Shape' /\ tx'[p].offer = t.offer /\ tx'[p].next = t.next
      /\ \A q \in Peer \ {p} : tx'[q] = tx[q]
  BY <1>1, ContinueKeeps
<1>3. Ledger' /\ sDone' \in [File -> Seq(Outcome)]
  BY <1>1, <1>2, PendingOffer, LedgerCompleted DEF HistoryOK
<1>4. HistoryOK'
  BY <1>1, <1>3 DEF HistoryOK
<1> QED
  BY <1>2, <1>3, <1>4 DEF SentInv, TypeOK

-----------------------------------------------------------------------------
(* The passes of the event loop.                                           *)

\* devAction keeps the DEV machine's type, and writes packets.
LEMMA DevActionKeeps ==
  ASSUME NEW t, NEW d \in DevType
  PROVE  devAction(t, d) \in DevType /\ devSends(t, d) \in Seq(Packet)
<1> DEFINE v == devPromote(d)
<1>1. v \in DevType
  BY PromotedKeeps DEF devPromote
<1>2. \/ devAction(t, d) = v
      \/ devAction(t, d) = dropped(v)
      \/ devAction(t, d) = inFlight(v)
  BY DEF devAction
<1>3. devAction(t, d) \in DevType
  BY <1>1, <1>2, DroppedKeeps, InFlightKeeps
<1>4. v.pending \in Nat /\ v.txID \in Nat
  BY <1>1 DEF DevType
<1> DEFINE k == Pkt("DEVDATA", NoFile, v.pending, 0, v.txID)
<1>5. devSends(t, d) = <<k>> \/ devSends(t, d) = <<>>
  BY DEF devSends
<1>6. k \in Packet
  <2> HIDE DEF v
  <2> QED
    BY <1>4, DatagramPacket
<1> HIDE DEF k
<1>7. <<k>> \in Seq(Packet) /\ <<>> \in Seq(Packet)
  BY <1>6
<1> QED
  BY <1>3, <1>5, <1>7

\* A pass that neither pulls nor completes a file.
LEMMA QuietPass ==
  ASSUME SentInv, NEW p \in Peer, res[p] = "run",
         NEW t, NEW d \in DevType,
         NEW u \in TxType, TxShape(p, u), u.offer = tx[p].offer, u.next = tx[p].next,
         NEW pre \in Seq(Packet), NEW out \in Seq(Packet),
         Sent(p, t, d, u, pre, out), sDone' = sDone
  PROVE  SentInv'
<1>1. MachinesOK /\ HistoryOK
  BY DEF SentInv, TypeOK
<1>2. rx[p] \in RxType /\ net \in [Peer -> Seq(Packet)]
  BY <1>1 DEF MachinesOK
<1>3. devAction(t, d) \in DevType /\ devSends(t, d) \in Seq(Packet)
  BY DevActionKeeps
<1>4. pre \o devSends(t, d) \o out \in Seq(Packet)
  BY <1>3
<1>5. Continue(p, net, u, rx[p], devAction(t, d), pre \o devSends(t, d) \o out)
  BY DEF Sent
<1>6. HistoryOK'
  BY <1>1 DEF HistoryOK, Sent
<1> QED
  BY <1>2, <1>3, <1>4, <1>5, <1>6, QuietStep

\* A first call is one call.
LEMMA OneCall ==
  ASSUME NEW o
  PROVE  Len(Append(<<>>, o)) = 1
  OBVIOUS

\* Where a pull stops.
LEMMA PullsTo ==
  ASSUME NEW p \in Peer, NEW t \in TxType, TxShape(p, t), NEW j \in pullsTo(p, t)
  PROVE  /\ j \in Nat
         /\ \/ t.offer # NoFile /\ j = t.next - 1 /\ j \in 1..Len(Offers[p])
               /\ Offers[p][j] = t.offer
            \/ t.offer = NoFile /\ j \in t.next..(Len(Offers[p]) + 1)
<1>1. Len(Offers[p]) \in Nat /\ t.next \in 1..(Len(Offers[p]) + 1)
  BY OffersAreFiles DEF TxShape
<1>2. CASE t.offer # NoFile
  BY <1>1, <1>2 DEF pullsTo, TxShape
<1>3. CASE t.offer = NoFile
  BY <1>1, <1>3 DEF pullsTo
<1> QED
  BY <1>2, <1>3

\* Pulling offers up to j keeps the ledger: those passed over are completed.
LEMMA LedgerPulled ==
  ASSUME Ledger, NEW p \in Peer, sDone \in [File -> Seq(Outcome)],
         tx[p].offer = NoFile, tx[p].next \in 1..(Len(Offers[p]) + 1),
         NEW j \in tx[p].next..(Len(Offers[p]) + 1),
         sDone' = [f \in File |-> IF \E k \in tx[p].next..(j - 1) : Offers[p][k] = f
                                  THEN Append(sDone[f], "TooLarge") ELSE sDone[f]],
         \/ j \in 1..Len(Offers[p]) /\ tx'[p].offer = Offers[p][j] /\ tx'[p].next = j + 1
         \/ j = Len(Offers[p]) + 1 /\ tx'[p].offer = NoFile /\ tx'[p].next = j,
         \A q \in Peer \ {p} : tx'[q] = tx[q]
  PROVE  Ledger' /\ sDone' \in [File -> Seq(Outcome)]
<1>1. Len(Offers[p]) \in Nat
  BY OffersAreFiles
<1>2. \A f \in File : Append(sDone[f], "TooLarge") \in Seq(Outcome)
  BY DEF Outcome
<1>3. sDone' \in [File -> Seq(Outcome)] /\ tx'[p].next \in Int
  BY <1>1, <1>2
<1>4. ASSUME NEW q \in Peer, NEW i \in 1..Len(Offers[q])
      PROVE  IF i >= tx'[q].next \/ Offers[q][i] = tx'[q].offer
             THEN sDone'[Offers[q][i]] = <<>> ELSE Len(sDone'[Offers[q][i]]) = 1
  <2> DEFINE f == Offers[q][i]
  <2>1. f \in File /\ f # NoFile /\ Len(Offers[q]) \in Nat
    BY OffersAreFiles
  <2>2. IF i >= tx[q].next \/ f = tx[q].offer THEN sDone[f] = <<>> ELSE Len(sDone[f]) = 1
    BY DEF Ledger
  <2>3. \A k \in tx[p].next..(j - 1) : k \in 1..Len(Offers[p])
    BY <1>1
  <2>4. \A k \in 1..Len(Offers[p]) : Offers[p][k] = f => q = p /\ i = k
    BY OnePlace
  <2>5. CASE q # p
    <3>1. sDone'[f] = sDone[f]
      BY <2>1, <2>3, <2>4, <2>5
    <3>2. tx'[q] = tx[q]
      BY <2>5
    <3> QED
      BY <3>1, <3>2, <2>2
  <2>6. CASE q = p /\ i < tx[p].next
    <3>1. sDone'[f] = sDone[f]
      BY <1>1, <2>1, <2>3, <2>4, <2>6
    <3>2. Len(sDone[f]) = 1
      BY <2>1, <2>2, <2>6
    <3>3. i < tx'[p].next /\ f # tx'[p].offer
      BY <1>1, <2>1, <2>4, <2>6
    <3> QED
      <4>1. Len(sDone'[f]) = 1
        BY <3>1, <3>2, Zenon
      <4> QED
        BY <4>1, <3>3, <2>1, <2>6, <1>3
  <2>7. CASE q = p /\ i \in tx[p].next..(j - 1)
    <3>1. sDone'[f] = Append(sDone[f], "TooLarge") /\ sDone[f] = <<>>
      BY <2>1, <2>2, <2>7
    <3>2. Len(sDone'[f]) = 1
      <4>1. sDone'[f] = Append(<<>>, "TooLarge")
        BY <3>1, Zenon
      <4>2. Len(Append(<<>>, "TooLarge")) = 1
        BY OneCall, Zenon
      <4> QED
        BY <4>1, <4>2, Zenon
    <3>3. i < tx'[p].next /\ f # tx'[p].offer
      BY <1>1, <2>1, <2>4, <2>7
    <3> QED
      BY <3>2, <3>3, <2>7, <1>3
  <2>8. CASE q = p /\ i >= j
    <3>1. sDone'[f] = sDone[f] /\ sDone[f] = <<>>
      BY <1>1, <2>1, <2>2, <2>3, <2>4, <2>8
    <3>2. i >= tx'[p].next \/ f = tx'[p].offer
      BY <1>1, <2>8
    <3> QED
      BY <3>1, <3>2, <2>8
  <2> QED
    BY <1>1, <2>5, <2>6, <2>7, <2>8
<1>5. ASSUME NEW g \in File, \A q \in Peer : g \notin Offered(q)
      PROVE  sDone'[g] = <<>>
  <2>1. \A k \in 1..Len(Offers[p]) : Offers[p][k] # g
    BY <1>5 DEF Offered
  <2>2. sDone'[g] = sDone[g]
    BY <2>1, <1>1
  <2> QED
    BY <2>2, <1>5 DEF Ledger
<1>6. \A q \in Peer : Offered(q)' = Offered(q)
  BY DEF Offered
<1> QED
  BY <1>3, <1>4, <1>5, <1>6 DEF Ledger

\* Pulling past the last offer announces the end of the batch.
LEMMA PulledEnd ==
  ASSUME NEW p \in Peer, NEW t \in TxType, TxShape(p, t), NEW j \in pullsTo(p, t),
         j \notin 1..Len(Offers[p]), NEW u, u = endOfBatch(t, j)
  PROVE  /\ u \in TxType /\ j = Len(Offers[p]) + 1 /\ t.offer = NoFile
         /\ u.offer = NoFile /\ u.next = j /\ u.eob /\ u.lastFinfo = EOB
<1>1. j \in Nat /\ j = Len(Offers[p]) + 1 /\ t.offer = NoFile
  <2>1. t.next \in 1..(Len(Offers[p]) + 1)
    BY DEF TxShape
  <2> QED
    BY <2>1, PullsTo, OffersAreFiles
<1>2. u \in TxType /\ u.offer = t.offer /\ u.next = j /\ u.eob /\ u.lastFinfo = EOB
  BY <1>1, EndOfBatchKeeps
<1> QED
  BY <1>1, <1>2

\* Pulling an offer announces it.
LEMMA PulledNext ==
  ASSUME NEW p \in Peer, NEW t \in TxType, NEW j \in 1..Len(Offers[p]),
         NEW u, u = newOffer(t, Offers[p][j], j)
  PROVE  /\ u \in TxType /\ u.offer = Offers[p][j] /\ u.next = j + 1 /\ ~u.eob
         /\ u.lastFinfo = Offers[p][j]
<1>1. Offers[p][j] \in File /\ j \in Nat
  BY OffersAreFiles
<1> QED
  BY <1>1, NewOfferKeeps

\* A new FINFO.
LEMMA SendFinfoKeeps ==
  ASSUME SentInv, NEW p \in Peer, res[p] = "run",
         NEW t \in TxType, TxShape(p, t), t.offer = tx[p].offer, t.next = tx[p].next,
         NEW d \in DevType, NEW pre \in Seq(Packet), sendFinfo(p, t, d, pre)
  PROVE  SentInv'
<1>1. MachinesOK /\ HistoryOK /\ Shape /\ Ledger
  BY DEF SentInv, TypeOK
<1>2. PICK j \in pullsTo(p, t) :
        LET u == IF j > Len(Offers[p]) THEN endOfBatch(t, j) ELSE newOffer(t, Offers[p][j], j)
        IN /\ Sent(p, t, d, announced(u), pre, <<Pkt("FINFO", u.lastFinfo, 0, 0, 0)>>)
           /\ sDone' = [f \in File |->
                IF \E k \in t.next..(j - 1) : Offers[p][k] = f
                THEN Append(sDone[f], "TooLarge") ELSE sDone[f]]
  BY DEF sendFinfo
<1> DEFINE u == IF j > Len(Offers[p]) THEN endOfBatch(t, j) ELSE newOffer(t, Offers[p][j], j)
           w == announced(u)
<1>3. j \in Nat
      /\ \/ t.offer # NoFile /\ j = t.next - 1 /\ j \in 1..Len(Offers[p])
            /\ Offers[p][j] = t.offer
         \/ t.offer = NoFile /\ j \in t.next..(Len(Offers[p]) + 1)
  BY PullsTo
<1>4. Len(Offers[p]) \in Nat /\ t.next \in 1..(Len(Offers[p]) + 1)
  BY OffersAreFiles DEF TxShape
<1>5. /\ u \in TxType
      /\ \/ j \in 1..Len(Offers[p]) /\ u.offer = Offers[p][j] /\ u.next = j + 1 /\ ~u.eob
            /\ u.lastFinfo = Offers[p][j]
         \/ j = Len(Offers[p]) + 1 /\ t.offer = NoFile /\ u.offer = NoFile /\ u.next = j /\ u.eob
            /\ u.lastFinfo = EOB
  <2>1. CASE j \notin 1..Len(Offers[p])
    <3>1. u = endOfBatch(t, j)
      BY <2>1, <1>3, <1>4
    <3> HIDE DEF u
    <3> QED
      BY <2>1, <3>1, PulledEnd
  <2>2. CASE j \in 1..Len(Offers[p])
    <3>1. u = newOffer(t, Offers[p][j], j)
      BY <2>2, <1>4
    <3> HIDE DEF u
    <3> QED
      BY <2>2, <3>1, PulledNext
  <2> QED
    BY <2>1, <2>2
<1>6. Sent(p, t, d, w, pre, <<Pkt("FINFO", u.lastFinfo, 0, 0, 0)>>)
  BY <1>2
<1>7. sDone' = [f \in File |->
                IF \E k \in t.next..(j - 1) : Offers[p][k] = f
                THEN Append(sDone[f], "TooLarge") ELSE sDone[f]]
  BY <1>2
<1> HIDE DEF u
<1>8. /\ w \in TxType /\ w.offer = u.offer /\ w.next = u.next /\ w.eob = u.eob
      /\ w.lastFinfo = u.lastFinfo /\ w.state = "FinfoAck"
  BY <1>5, AnnouncedKeeps
<1> HIDE DEF w
<1>9. TxShape(p, w)
  <2>1. \A i \in 1..Len(Offers[p]) : Offers[p][i] \in File /\ Offers[p][i] # NoFile
    BY OffersAreFiles
  <2> QED
    BY <2>1, <1>4, <1>5, <1>8, MarkerAssumption DEF TxShape, BeforeFinfo, FromEnd, Transferring
<1>10. Pkt("FINFO", u.lastFinfo, 0, 0, 0) \in Packet
  BY <1>5, FinfoPacket, OffersAreFiles
<1> DEFINE out == pre \o devSends(t, d) \o <<Pkt("FINFO", u.lastFinfo, 0, 0, 0)>>
<1>11. Continue(p, net, w, rx[p], devAction(t, d), out)
       /\ UNCHANGED <<rDone, opened, got, devGot>>
  BY <1>6 DEF Sent
<1>12. out \in Seq(Packet)
  BY <1>10, DevActionKeeps
<1>13. devAction(t, d) \in DevType /\ rx[p] \in RxType /\ net \in [Peer -> Seq(Packet)]
  BY <1>1, DevActionKeeps DEF MachinesOK
<1> HIDE DEF out
<1>14. /\ MachinesOK' /\ Shape' /\ tx'[p].offer = w.offer /\ tx'[p].next = w.next
       /\ \A q \in Peer \ {p} : tx'[q] = tx[q]
  BY <1>1, <1>8, <1>9, <1>11, <1>12, <1>13, ContinueKeeps
<1>15. Ledger' /\ sDone' \in [File -> Seq(Outcome)]
  <2>1. CASE t.offer # NoFile
    <3>1. j \in Nat /\ t.next = j + 1 /\ u.offer = t.offer /\ u.next = t.next
      BY <2>1, <1>3, <1>4, <1>5
    <3>2. \A k \in t.next..(j - 1) : FALSE
      BY <3>1
    <3>3. sDone' = [f \in File |-> sDone[f]]
      BY <3>2, <1>7
    <3>4. sDone' = sDone
      BY <3>3, <1>1 DEF HistoryOK
    <3> QED
      BY <3>1, <3>4, <1>1, <1>8, <1>14, LedgerUnchanged DEF HistoryOK
  <2>2. CASE t.offer = NoFile
    <3>1. tx[p].offer = NoFile /\ tx[p].next = t.next
      BY <2>2
    <3>2. sDone' = [f \in File |->
                    IF \E k \in tx[p].next..(j - 1) : Offers[p][k] = f
                    THEN Append(sDone[f], "TooLarge") ELSE sDone[f]]
      BY <3>1, <1>7
    <3>3. j \in tx[p].next..(Len(Offers[p]) + 1)
      BY <2>2, <3>1, <1>3
    <3>4. \/ j \in 1..Len(Offers[p]) /\ tx'[p].offer = Offers[p][j] /\ tx'[p].next = j + 1
          \/ j = Len(Offers[p]) + 1 /\ tx'[p].offer = NoFile /\ tx'[p].next = j
      BY <1>5, <1>8, <1>14
    <3> QED
      BY <3>1, <3>2, <3>3, <3>4, <1>1, <1>4, <1>14, LedgerPulled DEF HistoryOK
  <2> QED
    BY <2>1, <2>2
<1>16. HistoryOK'
  BY <1>1, <1>11, <1>15 DEF HistoryOK
<1> QED
  BY <1>14, <1>15, <1>16 DEF SentInv, TypeOK

\* A cursor that moves within one of these groups of states keeps its shape.
LEMMA SameShape ==
  ASSUME NEW p \in Peer, NEW t \in TxType, TxShape(p, t), NEW u, SameFile(u, t),
         \/ u.state = t.state
         \/ u.state \in BeforeFinfo /\ t.state \in BeforeFinfo
         \/ u.state \in Transferring /\ t.state \in Transferring
         \/ u.state \in FromEnd \cup {"Rend"} /\ t.state \in FromEnd \cup {"Rend"}
         \/ u.state = "Finfo" /\ t.state = "FinfoAck"
  PROVE  TxShape(p, u)
  BY DEF TxShape, SameFile, BeforeFinfo, FromEnd, Transferring

\* Announcing once more what was announced before.
LEMMA ResendKeeps ==
  ASSUME SentInv, NEW p \in Peer, res[p] = "run",
         NEW t \in TxType, TxShape(p, t), t.offer = tx[p].offer, t.next = tx[p].next,
         NEW d \in DevType, NEW pre \in Seq(Packet), resendFinfo(p, t, d, pre)
  PROVE  SentInv'
<1> DEFINE u == announced(t)
<1>1. /\ u \in TxType /\ u.offer = t.offer /\ u.next = t.next /\ u.eob = t.eob
      /\ u.lastFinfo = t.lastFinfo /\ u.state = "FinfoAck"
  BY AnnouncedKeeps
<1>2. /\ t.state = "Finfo" /\ t.lastFinfo # NoFile /\ sDone' = sDone
      /\ Sent(p, t, d, u, pre, <<Pkt("FINFO", t.lastFinfo, 0, 0, 0)>>)
  BY DEF resendFinfo
<1> HIDE DEF u
<1>3. TxShape(p, u)
  BY <1>1, <1>2 DEF TxShape, BeforeFinfo, FromEnd, Transferring
<1>4. t.lastFinfo \in File \cup {EOB}
  BY <1>2 DEF TxType
<1>5. <<Pkt("FINFO", t.lastFinfo, 0, 0, 0)>> \in Seq(Packet)
  <2>1. Pkt("FINFO", t.lastFinfo, 0, 0, 0) \in Packet
    BY <1>4, FinfoPacket
  <2> QED
    BY <2>1
<1> QED
  BY <1>1, <1>2, <1>3, <1>5, QuietPass

\* A file whose remainder is given up, or whose end is reached.
LEMMA SendNoDataKeeps ==
  ASSUME SentInv, NEW p \in Peer, res[p] = "run",
         NEW t \in TxType, TxShape(p, t), t.offer = tx[p].offer, t.next = tx[p].next,
         NEW d \in DevType, NEW pre \in Seq(Packet), sendNoData(p, t, d, pre)
  PROVE  SentInv'
<1>1. PICK u : /\ Sent(p, t, d, u, pre, <<>>)
               /\ \/ u = [t EXCEPT !.state = "EOF"]
                  \/ u = skipFile(t, "Read")
                  \/ u = skipFile(t, "TooLarge")
  BY DEF sendNoData
<1>2. t.state = "Xdata" /\ sDone' = sDone
  BY DEF sendNoData
<1>3. u \in TxType /\ SameFile(u, t) /\ u.state = "EOF"
  <2>1. "EOF" \in TxState /\ "Read" \in Outcome /\ "TooLarge" \in Outcome
    BY DEF TxState, Outcome
  <2> QED
    BY <1>1, <2>1, StateKeeps, SkipFileKeeps
<1>4. TxShape(p, u)
  BY <1>2, <1>3, SameShape DEF Transferring
<1>5. u.offer = tx[p].offer /\ u.next = tx[p].next
  BY <1>3 DEF SameFile
<1>6. <<>> \in Seq(Packet)
  OBVIOUS
<1> QED
  BY <1>1, <1>2, <1>3, <1>4, <1>5, <1>6, QuietPass

\* A block.
LEMMA SendDataKeeps ==
  ASSUME SentInv, NEW p \in Peer, res[p] = "run",
         NEW t \in TxType, TxShape(p, t), t.offer = tx[p].offer, t.next = tx[p].next,
         NEW d \in DevType, NEW pre \in Seq(Packet), sendData(p, t, d, pre)
  PROVE  SentInv'
<1>1. PICK n \in 1..MaxBlock :
        LET u == [t EXCEPT !.pos = @ + n] IN
        Sent(p, t, d, IF windowFull(u) THEN Await(u, "DataAck") ELSE u, pre,
             <<Pkt("DATA", t.offer, t.pos, n, 0)>>)
  BY DEF sendData
<1>2. t.state = "Xdata" /\ sDone' = sDone
  BY DEF sendData
<1> DEFINE u == [t EXCEPT !.pos = @ + n]
           w == IF windowFull(u) THEN Await(u, "DataAck") ELSE u
<1>3. n \in Nat
  BY BoundAssumption
<1>4. u \in TxType /\ SameFile(u, t) /\ u.state = "Xdata"
  BY <1>2, <1>3, PosKeeps
<1>5. Sent(p, t, d, w, pre, <<Pkt("DATA", t.offer, t.pos, n, 0)>>)
  BY <1>1
<1> HIDE DEF u
<1>6. w = Await(u, "DataAck") \/ w = u
  OBVIOUS
<1> HIDE DEF w
<1>7. w \in TxType /\ SameFile(w, t) /\ w.state \in {"Xdata", "DataAck"}
  <2>1. CASE w = u
    BY <2>1, <1>4
  <2>2. CASE w = Await(u, "DataAck")
    <3>1. "DataAck" \in TxState
      BY DEF TxState
    <3>2. w \in TxType /\ SameFile(w, u) /\ w.state = "DataAck"
      BY <2>2, <3>1, <1>4, AwaitKeeps
    <3> QED
      BY <3>2, <1>4 DEF SameFile
  <2> QED
    BY <1>6, <2>1, <2>2
<1>8. TxShape(p, w)
  BY <1>2, <1>7, SameShape DEF Transferring
<1>9. w.offer = tx[p].offer /\ w.next = tx[p].next
  BY <1>7 DEF SameFile
<1>10. <<Pkt("DATA", t.offer, t.pos, n, 0)>> \in Seq(Packet)
  <2>1. t.offer \in File
    BY <1>2 DEF TxShape, Transferring, TxType
  <2>2. t.pos \in Nat
    BY DEF TxType
  <2>3. Pkt("DATA", t.offer, t.pos, n, 0) \in Packet
    BY <2>1, <2>2, <1>3, DataPacket
  <2> QED
    BY <2>3
<1> QED
  BY <1>2, <1>5, <1>7, <1>8, <1>9, <1>10, QuietPass

\* START, INIT, EOF and END.
LEMMA SendControlKeeps ==
  ASSUME SentInv, NEW p \in Peer, res[p] = "run",
         NEW t \in TxType, TxShape(p, t), t.offer = tx[p].offer, t.next = tx[p].next,
         NEW d \in DevType, NEW pre \in Seq(Packet),
         \/ sendStart(p, t, d, pre) \/ sendInit(p, t, d, pre)
         \/ sendEOF(p, t, d, pre) \/ sendEnd(p, t, d, pre)
  PROVE  SentInv'
<1>1. sDone' = sDone
  BY DEF sendStart, sendInit, sendEOF, sendEnd
<1>2. PICK u, out :
        /\ Sent(p, t, d, u, pre, out)
        /\ \/ t.state = "Start" /\ u = Await(t, "Swait") /\ out = <<Ctl("START")>>
           \/ t.state = "Init" /\ u = Await(t, "InitAck") /\ out = <<Ctl("INIT")>>
           \/ /\ t.state = "EOF" /\ u = eofSent(t)
              /\ out = <<OffPkt("EOF", IF t.skip THEN offsetSkip ELSE t.pos)>>
           \/ t.state = "End" /\ u = Await(t, "EndAck") /\ out = <<Ctl("END"), Ctl("END")>>
  BY DEF sendStart, sendInit, sendEOF, sendEnd
<1>3. /\ u \in TxType /\ SameFile(u, t)
      /\ \/ t.state = "Start" /\ u.state = "Swait"
         \/ t.state = "Init" /\ u.state = "InitAck"
         \/ t.state = "EOF" /\ u.state = "EOFAck"
         \/ t.state = "End" /\ u.state = "EndAck"
  <2>1. "Swait" \in TxState /\ "InitAck" \in TxState /\ "EndAck" \in TxState
    BY DEF TxState
  <2> QED
    BY <1>2, <2>1, AwaitKeeps, EofSentKeeps
<1>4. TxShape(p, u)
  BY <1>3, SameShape DEF BeforeFinfo, Transferring, FromEnd
<1>5. u.offer = tx[p].offer /\ u.next = tx[p].next
  BY <1>3 DEF SameFile
<1>6. out \in Seq(Packet)
  <2>1. /\ "START" \in PlainType /\ "INIT" \in PlainType
        /\ "EOF" \in PlainType /\ "END" \in PlainType
    BY DEF PktType, PlainType
  <2>2. offsetSkip \in Int /\ t.pos \in Int
    BY DEF offsetSkip, TxType
  <2> DEFINE off == IF t.skip THEN offsetSkip ELSE t.pos
  <2>3. off \in Int
    BY <2>2
  <2> HIDE DEF off
  <2>4. /\ Ctl("START") \in Packet /\ Ctl("INIT") \in Packet /\ Ctl("END") \in Packet
        /\ OffPkt("EOF", off) \in Packet
    BY <2>1, <2>3, ControlPacket
  <2>5. \/ out = <<Ctl("START")>> \/ out = <<Ctl("INIT")>> \/ out = <<OffPkt("EOF", off)>>
        \/ out = <<Ctl("END"), Ctl("END")>>
    BY <1>2 DEF off
  <2>6. \A k \in Packet : <<k>> \in Seq(Packet) /\ <<k, k>> \in Seq(Packet)
    OBVIOUS
  <2> QED
    BY <2>4, <2>5, <2>6, Zenon
<1> QED
  BY <1>1, <1>2, <1>3, <1>4, <1>5, <1>6, QuietPass

\* Every pass of the event loop.
LEMMA PassKeeps ==
  ASSUME SentInv, NEW p \in Peer, res[p] = "run",
         NEW t \in TxType, TxShape(p, t), t.offer = tx[p].offer, t.next = tx[p].next,
         NEW d \in DevType, NEW pre \in Seq(Packet), Pass(p, t, d, pre)
  PROVE  SentInv'
<1>1. CASE sendNothing(p, t, d, pre)
  <2>1. Sent(p, t, d, t, pre, <<>>) /\ sDone' = sDone /\ <<>> \in Seq(Packet)
    BY <1>1 DEF sendNothing
  <2> QED
    BY <2>1, QuietPass
<1> QED
  BY <1>1, SendControlKeeps, ResendKeeps, SendFinfoKeeps, SendNoDataKeeps, SendDataKeeps
  DEF Pass

\* An expired TX timer goes back to the state that sends again.
LEMMA TimeoutKeeps ==
  ASSUME NEW p \in Peer, NEW t \in TxType, TxShape(p, t), ~TxExhausted(t),
         NEW u, u = txTimeout(t)
  PROVE  u \in TxType /\ TxShape(p, u) /\ u.offer = t.offer /\ u.next = t.next
<1>1. \/ u = t
      \/ u = dropWindow(t) /\ t.state = "DataAck"
      \/ u = retry(t) /\ t.retries < MaxRetries
  <2>1. t.retries \in Nat /\ MaxRetries \in Nat
    BY SomeRetries DEF TxType
  <2> QED
    BY <2>1 DEF txTimeout, TxExhausted, WindowIgnored
<1>2. CASE u = t
  BY <1>2
<1>3. CASE u = dropWindow(t) /\ t.state = "DataAck"
  <2>1. u \in TxType /\ SameFile(u, t) /\ u.state = "Xdata"
    BY <1>3, DropWindowKeeps
  <2>2. TxShape(p, u)
    BY <1>3, <2>1, SameShape DEF Transferring
  <2> QED
    BY <2>1, <2>2 DEF SameFile
<1>4. CASE u = retry(t) /\ t.retries < MaxRetries
  <2>1. t.state \in TxState
    BY DEF TxType
  <2>2. /\ Retried(t.state) \in TxState
        /\ \/ Retried(t.state) = t.state
           \/ Retried(t.state) \in BeforeFinfo /\ t.state \in BeforeFinfo
           \/ Retried(t.state) \in Transferring /\ t.state \in Transferring
           \/ Retried(t.state) \in FromEnd /\ t.state \in FromEnd
           \/ Retried(t.state) = "Finfo" /\ t.state = "FinfoAck"
    BY <2>1 DEF Retried, TxState, BeforeFinfo, Transferring, FromEnd
  <2>3. u \in TxType /\ SameFile(u, t) /\ u.state = Retried(t.state)
    BY <1>4, <2>2, RetryKeeps
  <2>4. TxShape(p, u)
    BY <2>2, <2>3, SameShape
  <2> QED
    BY <2>3, <2>4 DEF SameFile
<1> QED
  BY <1>1, <1>2, <1>3, <1>4

\* A pass, whether a timer provoked it or not.
LEMMA LoopKeeps ==
  ASSUME SentInv, NEW p \in Peer, Loop(p) \/ fireTimers(p)
  PROVE  SentInv'
<1>1. MachinesOK /\ Shape
  BY DEF SentInv, TypeOK
<1>2. res[p] = "run"
  BY DEF Loop, HasWork, fireTimers
<1>3. /\ tx[p] \in TxType /\ rx[p] \in RxType /\ dev[p] \in DevType /\ TxShape(p, tx[p])
  BY <1>1, <1>2, PendingOffer
<1>4. <<>> \in Seq(Packet)
  OBVIOUS
<1>5. CASE Loop(p)
  BY <1>2, <1>3, <1>4, <1>5, PassKeeps DEF Loop
<1>6. CASE fireTimers(p)
  <2>1. PICK fired \in SUBSET {"tx", "dev"} \ {{}} :
          LET t == IF "tx" \in fired THEN txTimeout(tx[p]) ELSE tx[p]
              d == IF "dev" \in fired THEN devTimeout(dev[p]) ELSE dev[p]
              gaveUp == \/ "tx" \in fired /\ TxExhausted(tx[p]) /\ tx[p].state # "EndAck"
                        \/ "dev" \in fired /\ dev[p].retries >= MaxRetries
              left == ~gaveUp /\ "tx" \in fired /\ TxExhausted(tx[p])
          IN \/ gaveUp /\ Finish(p, "err", tx[p], rx[p], dev[p], <<>>)
             \/ left /\ Finish(p, "ok", [tx[p] EXCEPT !.state = "Done"], rx[p], dev[p], <<>>)
             \/ /\ ~gaveUp /\ ~left
                /\ Pass(p, t, d, IF "tx" \in fired /\ Idling(tx[p])
                                 THEN <<Ctl("IDLE")>> ELSE <<>>)
    BY <1>6 DEF fireTimers
  <2> DEFINE t == IF "tx" \in fired THEN txTimeout(tx[p]) ELSE tx[p]
             d == IF "dev" \in fired THEN devTimeout(dev[p]) ELSE dev[p]
             pre == IF "tx" \in fired /\ Idling(tx[p]) THEN <<Ctl("IDLE")>> ELSE <<>>
  <2>2. CASE Finish(p, "err", tx[p], rx[p], dev[p], <<>>)
    BY <2>2, <1>2, <1>3, <1>4, FinishKeeps
  <2>3. CASE Finish(p, "ok", [tx[p] EXCEPT !.state = "Done"], rx[p], dev[p], <<>>)
    <3> DEFINE u == [tx[p] EXCEPT !.state = "Done"]
    <3>1. u \in TxType /\ SameFile(u, tx[p])
      BY <1>3, StateKeeps DEF TxState
    <3>2. Finish(p, "ok", u, rx[p], dev[p], <<>>)
      BY <2>3
    <3> HIDE DEF u
    <3> QED
      BY <3>1, <3>2, <1>2, <1>3, <1>4, FinishKeeps DEF SameFile
  <2>4. CASE /\ ~("tx" \in fired /\ TxExhausted(tx[p]))
             /\ ~("dev" \in fired /\ dev[p].retries >= MaxRetries)
             /\ Pass(p, t, d, pre)
    <3>1. t \in TxType /\ TxShape(p, t) /\ t.offer = tx[p].offer /\ t.next = tx[p].next
      BY <2>4, <1>3, TimeoutKeeps
    <3>2. d \in DevType
      <4>1. dev[p].retries \in Nat /\ MaxRetries \in Nat
        BY <1>3, SomeRetries DEF DevType
      <4>2. CASE "dev" \notin fired
        BY <4>2, <1>3
      <4>3. CASE "dev" \in fired
        <5>1. ~(dev[p].retries >= MaxRetries)
          BY <2>4, <4>3, Zenon
        <5>2. dev[p].retries < MaxRetries
          BY <4>1, <5>1
        <5>3. d = devTimeout(dev[p])
          BY <4>3
        <5> QED
          BY <5>2, <5>3, <1>3, DevTimeoutKeeps
      <4> QED
        BY <4>2, <4>3
    <3>3. pre \in Seq(Packet)
      <4>1. "IDLE" \in PlainType
        BY DEF PktType, PlainType
      <4>2. Ctl("IDLE") \in Packet
        BY <4>1, ControlPacket
      <4> QED
        BY <4>2
    <3>4. Pass(p, t, d, pre)
      BY <2>4
    <3> HIDE DEF t, d, pre
    <3> QED
      BY <3>1, <3>2, <3>3, <3>4, <1>2, PassKeeps
  <2> QED
    BY <2>1, <2>2, <2>3, <2>4
<1> QED
  BY <1>5, <1>6

-----------------------------------------------------------------------------
(* The packets.                                                            *)

\* A packet handled without pulling or completing a file.
LEMMA HandledKeeps ==
  ASSUME SentInv, NEW p \in Peer, NEW type, Hears(p, type),
         NEW t \in TxType, TxShape(p, t), t.offer = tx[p].offer, t.next = tx[p].next,
         NEW r \in RxType, NEW d \in DevType, NEW out \in Seq(Packet),
         Handled(p, t, r, d, out), sDone' = sDone, HistoryOK'
  PROVE  SentInv'
<1>1. res[p] = "run" /\ Taken(p) \in [Peer -> Seq(Packet)]
  BY HeardPacket DEF SentInv, TypeOK, Hears
<1> QED
  BY <1>1, QuietStep DEF Handled

\* The same, with no call to a handler at all.
LEMMA SilentlyHandled ==
  ASSUME SentInv, NEW p \in Peer, NEW type, Hears(p, type),
         NEW t \in TxType, TxShape(p, t), t.offer = tx[p].offer, t.next = tx[p].next,
         NEW r \in RxType, NEW d \in DevType, NEW out \in Seq(Packet),
         Handled(p, t, r, d, out), UNCHANGED <<files, devGot>>
  PROVE  SentInv'
<1>1. sDone' = sDone /\ HistoryOK'
  BY DEF SentInv, TypeOK, HistoryOK, files
<1> QED
  BY <1>1, HandledKeeps

\* A peer that hears a packet, and the packet.
LEMMA Hearing ==
  ASSUME SentInv, NEW p \in Peer, NEW type, Hears(p, type)
  PROVE  /\ res[p] = "run"
         /\ tx[p] \in TxType /\ rx[p] \in RxType /\ dev[p] \in DevType
         /\ TxShape(p, tx[p])
         /\ Head(net[p]) \in Packet /\ Head(net[p]).t = type
         /\ Head(net[p]).off \in Int /\ Head(net[p]).n \in Nat /\ Head(net[p]).id \in Nat
         /\ Head(net[p]).f \in File \cup {NoFile, EOB}
<1>1. MachinesOK /\ Shape /\ res[p] = "run"
  BY DEF SentInv, TypeOK, Hears
<1>2. Head(net[p]) \in Packet /\ Head(net[p]).t = type
  BY <1>1, HeardPacket
<1> QED
  BY <1>1, <1>2, PendingOffer DEF Packet

\* START, INIT, INITACK and IDLE.
LEMMA HandshakeKeeps ==
  ASSUME SentInv, NEW p \in Peer,
         handleStart(p) \/ rxInit(p) \/ handleInitAck(p) \/ txIdle(p)
  PROVE  SentInv'
<1>1. PICK type, t, r, out :
        /\ Hears(p, type) /\ Handled(p, t, r, dev[p], out) /\ UNCHANGED <<files, devGot>>
        /\ \/ t = tx[p]
           \/ tx[p].state \in {"Start", "Swait"} /\ t = Advance(tx[p], "Init")
           \/ t = [tx[p] EXCEPT !.window = Window[p]]
           \/ tx[p].state \in {"Init", "InitAck"} /\ t = Advance(tx[p], "Rinit")
           \/ /\ tx[p].state = "Xwait"
              /\ t = [Advance(tx[p], "Xdata") EXCEPT !.hdxlink = FALSE]
        /\ r = rx[p] \/ r = [rx[p] EXCEPT !.state = "Finfo"]
        /\ out = <<>> \/ out = <<Ctl("INITACK")>>
  BY DEF handleStart, rxInit, handleInitAck, txIdle
<1>2. tx[p] \in TxType /\ rx[p] \in RxType /\ dev[p] \in DevType /\ TxShape(p, tx[p])
  BY <1>1, Hearing
<1>3. t \in TxType /\ TxShape(p, t) /\ t.offer = tx[p].offer /\ t.next = tx[p].next
  <2>1. "Init" \in TxState /\ "Rinit" \in TxState /\ "Xdata" \in TxState /\ Window[p] \in Nat
    BY BoundAssumption DEF TxState
  <2>2. CASE t = tx[p]
    BY <2>2, <1>2
  <2>3. CASE tx[p].state \in {"Start", "Swait"} /\ t = Advance(tx[p], "Init")
    <3>1. t \in TxType /\ SameFile(t, tx[p]) /\ t.state = "Init"
      BY <1>2, <2>1, <2>3, AdvanceKeeps
    <3> QED
      BY <1>2, <2>3, <3>1, SameShape DEF BeforeFinfo, SameFile
  <2>4. CASE t = [tx[p] EXCEPT !.window = Window[p]]
    <3>1. t \in TxType /\ SameFile(t, tx[p]) /\ t.state = tx[p].state
      BY <1>2, <2>1, <2>4, WindowKeeps
    <3> QED
      BY <1>2, <3>1, SameShape DEF SameFile
  <2>5. CASE tx[p].state \in {"Init", "InitAck"} /\ t = Advance(tx[p], "Rinit")
    <3>1. t \in TxType /\ SameFile(t, tx[p]) /\ t.state = "Rinit"
      BY <1>2, <2>1, <2>5, AdvanceKeeps
    <3> QED
      BY <1>2, <2>5, <3>1, SameShape DEF BeforeFinfo, SameFile
  <2>6. CASE /\ tx[p].state = "Xwait"
             /\ t = [Advance(tx[p], "Xdata") EXCEPT !.hdxlink = FALSE]
    <3> DEFINE u == Advance(tx[p], "Xdata")
    <3>1. u \in TxType /\ SameFile(u, tx[p]) /\ u.state = "Xdata"
      BY <1>2, <2>1, AdvanceKeeps
    <3>2. t = [u EXCEPT !.hdxlink = FALSE]
      BY <2>6
    <3> HIDE DEF u
    <3>3. t \in TxType /\ SameFile(t, u) /\ t.state = "Xdata"
      BY <3>1, <3>2, HdxlinkKeeps
    <3>4. SameFile(t, tx[p])
      BY <3>1, <3>3 DEF SameFile
    <3> QED
      BY <1>2, <2>6, <3>3, <3>4, SameShape DEF Transferring, SameFile
  <2> QED
    BY <1>1, <2>2, <2>3, <2>4, <2>5, <2>6
<1>4. r \in RxType
  <2>1. "Finfo" \in RxState
    BY DEF RxState
  <2> QED
    BY <1>1, <1>2, <2>1, RxStateKeeps
<1>5. out \in Seq(Packet)
  <2>1. "INITACK" \in PlainType
    BY DEF PktType, PlainType
  <2>2. Ctl("INITACK") \in Packet
    BY <2>1, ControlPacket
  <2>3. \A k \in Packet : <<k>> \in Seq(Packet) /\ <<>> \in Seq(Packet)
    OBVIOUS
  <2> QED
    BY <1>1, <2>2, <2>3, Zenon
<1> QED
  BY <1>1, <1>2, <1>3, <1>4, <1>5, SilentlyHandled

\* An answer with an offset is a packet.
LEMMA OffsetAnswer ==
  ASSUME NEW type \in {"FINFOACK", "DATAACK", "EOF"}, NEW off \in Int
  PROVE  <<OffPkt(type, off)>> \in Seq(Packet)
<1>1. type \in PlainType
  BY DEF PktType, PlainType
<1>2. OffPkt(type, off) \in Packet
  BY <1>1, ControlPacket
<1> QED
  BY <1>2

\* FINFO answered without the handler.
LEMMA RxFinfoKeeps ==
  ASSUME SentInv, NEW p \in Peer, rxFinfo(p)
  PROVE  SentInv'
<1>1. Hears(p, "FINFO")
  BY DEF rxFinfo
<1>2. /\ tx[p] \in TxType /\ rx[p] \in RxType /\ dev[p] \in DevType /\ TxShape(p, tx[p])
  BY <1>1, Hearing
<1> DEFINE f == Head(net[p]).f
           r == rx[p]
           ack == CASE r.state = "Finfo" /\ f = EOB -> 0
                    [] r.state = "Finfo" /\ f # EOB -> r.refusedAck
                    [] r.state = "Data" -> r.pos
                    [] r.state = "Done" /\ f # EOB -> ackDefer
                    [] OTHER -> 0
           s == IF r.state = "Finfo" /\ f = EOB THEN [r EXCEPT !.state = "Done"] ELSE r
<1>3. Handled(p, tx[p], s, dev[p], <<OffPkt("FINFOACK", ack)>>) /\ UNCHANGED <<files, devGot>>
  BY DEF rxFinfo
<1>4. s \in RxType
  <2>1. "Done" \in RxState
    BY DEF RxState
  <2> QED
    BY <1>2, <2>1, RxStateKeeps
<1>5. ack \in Int
  <2>1. 0 \in Int /\ ackDefer \in Int /\ r.refusedAck \in Int /\ r.pos \in Int
    BY <1>2 DEF RxType, ackDefer
  <2>2. ack = 0 \/ ack = r.refusedAck \/ ack = r.pos \/ ack = ackDefer
    OBVIOUS
  <2> HIDE DEF ack
  <2> QED
    BY <2>1, <2>2
<1> HIDE DEF ack, s
<1>6. <<OffPkt("FINFOACK", ack)>> \in Seq(Packet)
  BY <1>5, OffsetAnswer
<1> QED
  BY <1>1, <1>2, <1>3, <1>4, <1>6, SilentlyHandled

\* A prefix of a file, or a block of it, is a sequence of its units.
LEMMA ContentTyped ==
  ASSUME NEW f \in File, NEW from \in Nat, NEW n \in Nat
  PROVE  Content(f, from, n) \in Seq(File \X Nat)
<1>1. \A i \in 1..n : <<f, from + i>> \in File \X Nat
  OBVIOUS
<1> QED
  BY <1>1 DEF Content

\* A new announcement.
LEMMA AcceptKeeps ==
  ASSUME SentInv, NEW p \in Peer, acceptFinfo(p)
  PROVE  SentInv'
<1> DEFINE f == Head(net[p]).f
           r == rx[p]
           Refuse(outcome, ack) ==
             /\ Handled(p, tx[p], refusing(r, f, ack), dev[p], <<OffPkt("FINFOACK", ack)>>)
             /\ rDone' = Complete(rDone, f, outcome)
             /\ UNCHANGED <<sDone, opened, got, devGot>>
<1>1. Hears(p, "FINFO") /\ f # EOB
  BY DEF acceptFinfo
<1>2. /\ tx[p] \in TxType /\ r \in RxType /\ dev[p] \in DevType /\ TxShape(p, tx[p])
      /\ Head(net[p]) \in Packet /\ Head(net[p]).t = "FINFO"
  BY <1>1, Hearing
<1>3. f \in File
  BY <1>1, <1>2 DEF Packet
<1>4. HistoryOK
  BY DEF SentInv, TypeOK
<1>5. ASSUME NEW outcome \in Outcome, NEW ack \in Int, Refuse(outcome, ack)
      PROVE  SentInv'
  <2>1. refusing(r, f, ack) \in RxType
    BY <1>2, <1>3, RefusingKeeps
  <2>2. <<OffPkt("FINFOACK", ack)>> \in Seq(Packet)
    BY OffsetAnswer
  <2>3. HistoryOK'
    BY <1>4, <1>5, CompleteTyped DEF HistoryOK
  <2> QED
    BY <1>1, <1>2, <1>5, <2>1, <2>2, <2>3, HandledKeeps
<1>6. ASSUME NEW off \in ResumeAt,
             Handled(p, tx[p], receiving(r, f, off), dev[p], <<OffPkt("FINFOACK", off)>>),
             opened' = opened \cup {f}, got' = [got EXCEPT ![f] = Content(f, 0, off)],
             UNCHANGED <<sDone, rDone, devGot>>
      PROVE  SentInv'
  <2>1. off \in Nat /\ off \in Int
    BY HandlerAssumption
  <2>2. receiving(r, f, off) \in RxType
    BY <1>2, <1>3, <2>1, ReceivingKeeps
  <2>3. <<OffPkt("FINFOACK", off)>> \in Seq(Packet)
    BY <2>1, OffsetAnswer
  <2>4. got' \in [File -> Seq(File \X Nat)]
    <3>1. Content(f, 0, off) \in Seq(File \X Nat)
      BY <1>3, <2>1, ContentTyped
    <3> QED
      BY <1>4, <1>6, <3>1 DEF HistoryOK
  <2>5. HistoryOK'
    BY <1>3, <1>4, <1>6, <2>4 DEF HistoryOK
  <2> QED
    BY <1>1, <1>2, <1>6, <2>2, <2>3, <2>5, HandledKeeps
<1>7. \/ \E e \in RefuseWith : Refuse(e, IF e = "Skip" THEN ackHaveFile ELSE ackDefer)
      \/ Refuse("Range", ackDefer)
      \/ \E off \in ResumeAt :
           /\ Handled(p, tx[p], receiving(r, f, off), dev[p], <<OffPkt("FINFOACK", off)>>)
           /\ opened' = opened \cup {f}
           /\ got' = [got EXCEPT ![f] = Content(f, 0, off)]
           /\ UNCHANGED <<sDone, rDone, devGot>>
  BY DEF acceptFinfo
<1>8. ackHaveFile \in Int /\ ackDefer \in Int /\ "Range" \in Outcome
      /\ \A e \in RefuseWith : e \in Outcome
  BY HandlerAssumption DEF ackHaveFile, ackDefer, Outcome
<1> HIDE DEF Refuse
<1>9. ASSUME NEW e \in RefuseWith, Refuse(e, IF e = "Skip" THEN ackHaveFile ELSE ackDefer)
      PROVE  SentInv'
  <2> DEFINE ack == IF e = "Skip" THEN ackHaveFile ELSE ackDefer
  <2>1. ack \in Int /\ e \in Outcome /\ Refuse(e, ack)
    BY <1>8, <1>9
  <2> HIDE DEF ack
  <2> QED
    BY <2>1, <1>5
<1> QED
  BY <1>5, <1>6, <1>7, <1>8, <1>9

\* An RPOS is a packet.
LEMMA RposPacket ==
  ASSUME NEW u \in RxType
  PROVE  <<Pkt("RPOS", u.file, u.pos, 0, u.syncID)>> \in Seq(Packet)
<1>1. "RPOS" \in PlainType
  BY DEF PktType, PlainType
<1>2. u.file \in File \cup {NoFile} /\ u.pos \in Int /\ u.syncID \in Nat
  BY DEF RxType
<1>3. Pkt("RPOS", u.file, u.pos, 0, u.syncID) \in Packet
  BY <1>1, <1>2, PlainPacket
<1> QED
  BY <1>3

\* DATA or EOF out of place.
LEMMA BadPositionKeeps ==
  ASSUME SentInv, NEW p \in Peer, NEW type, Hears(p, type), NEW off \in Int,
         NEW isEOF \in BOOLEAN, badPosition(p, off, isEOF)
  PROVE  SentInv'
<1> DEFINE t == tx[p]
           r == strayed(rx[p], off)
           oneWay == /\ ~isEOF /\ r.retries > HdxBurst /\ t.state \in BeforeRend
                     /\ p = ANS /\ ~t.hdxlink
           tries == IF oneWay THEN 1 ELSE r.retries + 1
           u == asking(r, tries)
           b == t.hdxlink \/ oneWay
           v == [t EXCEPT !.hdxlink = b]
<1>1. /\ res[p] = "run" /\ tx[p] \in TxType /\ rx[p] \in RxType /\ dev[p] \in DevType
      /\ TxShape(p, tx[p])
  BY Hearing
<1>2. r \in RxType
  BY <1>1, StrayedKeeps
<1>3. <<>> \in Seq(Packet)
  OBVIOUS
<1>4. \/ Handled(p, t, r, dev[p], <<>>) /\ UNCHANGED <<files, devGot>>
      \/ Finish(p, "err", t, r, dev[p], <<>>)
      \/ /\ tries <= MaxRetries
         /\ Handled(p, v, u, dev[p], <<Pkt("RPOS", u.file, u.pos, 0, u.syncID)>>)
         /\ UNCHANGED <<files, devGot>>
  BY DEF badPosition
<1>5. CASE Handled(p, t, r, dev[p], <<>>) /\ UNCHANGED <<files, devGot>>
  BY <1>1, <1>2, <1>3, <1>5, SilentlyHandled
<1>6. CASE Finish(p, "err", t, r, dev[p], <<>>)
  BY <1>1, <1>2, <1>3, <1>6, FinishKeeps
<1>7. CASE /\ tries <= MaxRetries
           /\ Handled(p, v, u, dev[p], <<Pkt("RPOS", u.file, u.pos, 0, u.syncID)>>)
           /\ UNCHANGED <<files, devGot>>
  <2>1. tries \in 0..MaxRetries
    <3>1. r.retries \in Nat /\ MaxRetries \in Nat
      BY <1>2, SomeRetries DEF RxType
    <3>2. tries = 1 \/ tries = r.retries + 1
      OBVIOUS
    <3>3. tries <= MaxRetries
      BY <1>7
    <3> HIDE DEF tries, r
    <3> QED
      BY <3>1, <3>2, <3>3
  <2>2. b \in BOOLEAN
    OBVIOUS
  <2> HIDE DEF tries, r, b
  <2>3. u \in RxType
    BY <1>2, <2>1, AskingKeeps
  <2>4. v \in TxType /\ SameFile(v, t) /\ v.state = t.state
    BY <1>1, <2>2, HdxlinkKeeps
  <2> HIDE DEF u, v
  <2>5. TxShape(p, v) /\ v.offer = t.offer /\ v.next = t.next
    BY <1>1, <2>4, SameShape DEF SameFile
  <2>6. <<Pkt("RPOS", u.file, u.pos, 0, u.syncID)>> \in Seq(Packet)
    BY <2>3, RposPacket
  <2> QED
    BY <1>1, <1>7, <2>3, <2>4, <2>5, <2>6, SilentlyHandled
<1> QED
  BY <1>4, <1>5, <1>6, <1>7

\* DATA.
LEMMA RxDataKeeps ==
  ASSUME SentInv, NEW p \in Peer, rxData(p)
  PROVE  SentInv'
<1> DEFINE k == Head(net[p])
           r == rx[p]
           u == skipping(r)
           w == taking(r, k.n)
           out == dataAck(p, r.pos + k.n)
<1>1. Hears(p, "DATA")
  BY DEF rxData
<1>2. /\ tx[p] \in TxType /\ r \in RxType /\ dev[p] \in DevType /\ TxShape(p, tx[p])
      /\ k \in Packet /\ k.t = "DATA" /\ k.n \in Nat /\ k.off \in Int
  BY <1>1, Hearing
<1>3. <<>> \in Seq(Packet) /\ HistoryOK
  BY DEF SentInv, TypeOK
<1>4. \/ Handled(p, tx[p], r, dev[p], <<>>) /\ UNCHANGED <<files, devGot>>
      \/ badPosition(p, k.off, FALSE)
      \/ /\ r.open /\ r.file \in WriteFails
         /\ Handled(p, tx[p], u, dev[p], <<Pkt("RPOS", u.file, u.pos, 0, u.syncID)>>)
         /\ rDone' = Complete(rDone, r.file, "Write")
         /\ UNCHANGED <<sDone, opened, got, devGot>>
      \/ /\ inPlace(r, k)
         /\ Handled(p, tx[p], w, dev[p], out)
         /\ got' = IF r.open THEN [got EXCEPT ![r.file] = @ \o Content(k.f, k.off, k.n)] ELSE got
         /\ UNCHANGED <<sDone, rDone, opened, devGot>>
  BY DEF rxData
<1>5. CASE Handled(p, tx[p], r, dev[p], <<>>) /\ UNCHANGED <<files, devGot>>
  BY <1>1, <1>2, <1>3, <1>5, SilentlyHandled
<1>6. CASE badPosition(p, k.off, FALSE)
  BY <1>1, <1>2, <1>6, BadPositionKeeps
<1>7. CASE /\ Handled(p, tx[p], u, dev[p], <<Pkt("RPOS", u.file, u.pos, 0, u.syncID)>>)
           /\ rDone' = Complete(rDone, r.file, "Write")
           /\ UNCHANGED <<sDone, opened, got, devGot>>
  <2>1. u \in RxType
    BY <1>2, SkippingKeeps
  <2> HIDE DEF u
  <2>2. <<Pkt("RPOS", u.file, u.pos, 0, u.syncID)>> \in Seq(Packet)
    BY <2>1, RposPacket
  <2>3. HistoryOK'
    BY <1>3, <1>7, CompleteTyped DEF HistoryOK, Outcome
  <2> QED
    BY <1>1, <1>2, <1>7, <2>1, <2>2, <2>3, HandledKeeps
<1>8. CASE /\ Handled(p, tx[p], w, dev[p], out)
           /\ got' = IF r.open THEN [got EXCEPT ![r.file] = @ \o Content(k.f, k.off, k.n)] ELSE got
           /\ UNCHANGED <<sDone, rDone, opened, devGot>>
  <2>1. w \in RxType
    BY <1>2, TakingKeeps
  <2>2. out \in Seq(Packet)
    <3>1. r.pos + k.n \in Int
      BY <1>2 DEF RxType
    <3>2. <<OffPkt("DATAACK", r.pos + k.n)>> \in Seq(Packet)
      BY <3>1, OffsetAnswer
    <3> QED
      BY <3>2, <1>3 DEF dataAck
  <2>3. got' \in [File -> Seq(File \X Nat)]
    <3>1. k.f \in File /\ k.off \in Nat
      BY <1>2 DEF Packet
    <3>2. Content(k.f, k.off, k.n) \in Seq(File \X Nat)
      BY <3>1, <1>2, ContentTyped
    <3> DEFINE c == Content(k.f, k.off, k.n)
    <3>3. got' = got \/ got' = [got EXCEPT ![r.file] = @ \o c]
      BY <1>8
    <3> HIDE DEF c
    <3>4. \A g \in File : got[g] \o c \in Seq(File \X Nat)
      BY <1>3, <3>2 DEF HistoryOK, c
    <3>5. got \in [File -> Seq(File \X Nat)]
      BY <1>3 DEF HistoryOK
    <3>6. [got EXCEPT ![r.file] = @ \o c] \in [File -> Seq(File \X Nat)]
      BY <3>4, <3>5
    <3> QED
      BY <3>3, <3>5, <3>6
  <2>4. HistoryOK'
    BY <1>3, <1>8, <2>3 DEF HistoryOK
  <2> HIDE DEF w, out
  <2> QED
    BY <1>1, <1>2, <1>8, <2>1, <2>2, <2>4, HandledKeeps
<1> QED
  BY <1>4, <1>5, <1>6, <1>7, <1>8

\* EOF.
LEMMA RxEOFKeeps ==
  ASSUME SentInv, NEW p \in Peer, rxEOF(p)
  PROVE  SentInv'
<1> DEFINE off == Head(net[p]).off
           r == rx[p]
<1>1. Hears(p, "EOF")
  BY DEF rxEOF
<1>2. /\ tx[p] \in TxType /\ r \in RxType /\ dev[p] \in DevType /\ TxShape(p, tx[p])
      /\ off \in Int
  BY <1>1, Hearing
<1>3. <<>> \in Seq(Packet) /\ <<Ctl("EOFACK")>> \in Seq(Packet)
  <2>1. "EOFACK" \in PlainType
    BY DEF PktType, PlainType
  <2>2. Ctl("EOFACK") \in Packet
    BY <2>1, ControlPacket
  <2> QED
    BY <2>2
<1>4. HistoryOK
  BY DEF SentInv, TypeOK
<1>5. PICK n, outcome, out :
        \/ badPosition(p, off, TRUE)
        \/ /\ out \in {<<>>, <<Ctl("EOFACK")>>}
           /\ Handled(p, tx[p], r, dev[p], out) /\ UNCHANGED <<files, devGot>>
        \/ /\ n \in {0, off} /\ outcome \in {"SenderSkip", "nil"}
           /\ Handled(p, tx[p], closing(r, n), dev[p], <<Ctl("EOFACK")>>)
           /\ rDone' = IF r.open THEN Complete(rDone, r.file, outcome) ELSE rDone
           /\ UNCHANGED <<sDone, opened, got, devGot>>
  BY DEF rxEOF
<1>6. CASE badPosition(p, off, TRUE)
  BY <1>1, <1>2, <1>6, BadPositionKeeps
<1>7. CASE /\ out \in {<<>>, <<Ctl("EOFACK")>>}
           /\ Handled(p, tx[p], r, dev[p], out) /\ UNCHANGED <<files, devGot>>
  <2>1. out \in Seq(Packet)
    BY <1>3, <1>7
  <2> QED
    BY <1>1, <1>2, <1>7, <2>1, SilentlyHandled
<1>8. CASE /\ n \in {0, off} /\ outcome \in {"SenderSkip", "nil"}
           /\ Handled(p, tx[p], closing(r, n), dev[p], <<Ctl("EOFACK")>>)
           /\ rDone' = IF r.open THEN Complete(rDone, r.file, outcome) ELSE rDone
           /\ UNCHANGED <<sDone, opened, got, devGot>>
  <2>1. closing(r, n) \in RxType
    <3>1. n \in Int
      BY <1>2, <1>8
    <3> QED
      BY <1>2, <3>1, ClosingKeeps
  <2>2. HistoryOK'
    <3>1. outcome \in Outcome
      BY <1>8 DEF Outcome
    <3> QED
      BY <1>4, <1>8, <3>1, CompleteTyped DEF HistoryOK
  <2> QED
    BY <1>1, <1>2, <1>3, <1>8, <2>1, <2>2, HandledKeeps
<1> QED
  BY <1>5, <1>6, <1>7, <1>8

\* An acknowledged FINFO that does not settle its file.
LEMMA OnFinfoAckKeeps ==
  ASSUME NEW p \in Peer, NEW t \in TxType, TxShape(p, t), finfoAckHeeded(t),
         NEW off \in Int, t.eob \/ off >= 0, NEW u, u = onFinfoAck(t, off)
  PROVE  u \in TxType /\ TxShape(p, u) /\ u.offer = t.offer /\ u.next = t.next
<1> DEFINE a == acked(t)
           b == resumed(a, off)
<1>1. /\ a \in TxType /\ a.offer = t.offer /\ a.next = t.next /\ a.eob = t.eob
      /\ a.state = t.state
  BY AckedKeeps
<1>2. t.eob <=> t.offer = NoFile
  BY DEF finfoAckHeeded, TxShape
<1>3. "Rend" \in TxState /\ "Range" \in Outcome
  BY DEF TxState, Outcome
<1>4. \/ t.eob /\ u = Await(a, "Rend")
      \/ ~t.eob /\ u = skipFile(a, "Range")
      \/ ~t.eob /\ u = skipFile(b, "Range")
      \/ ~t.eob /\ u = b
  <2>1. CASE t.eob
    BY <2>1 DEF onFinfoAck
  <2>2. CASE ~t.eob
    <3>1. off >= 0 /\ ~(off < 0)
      BY <2>2
    <3> QED
      BY <2>2, <3>1 DEF onFinfoAck
  <2> QED
    BY <2>1, <2>2
<1> HIDE DEF a
<1>5. CASE t.eob /\ u = Await(a, "Rend")
  <2>1. u \in TxType /\ SameFile(u, a) /\ u.state = "Rend"
    BY <1>1, <1>3, <1>5, AwaitKeeps
  <2>2. u.offer = NoFile /\ t.offer = NoFile /\ u.next = t.next
    BY <1>1, <1>2, <1>5, <2>1 DEF SameFile
  <2> QED
    BY <2>1, <2>2 DEF TxShape, BeforeFinfo, Transferring
<1>6. CASE ~t.eob /\ (u = skipFile(a, "Range") \/ u = skipFile(b, "Range") \/ u = b)
  <2>1. off \in Nat
    BY <1>6
  <2>2. b \in TxType /\ SameFile(b, a) /\ b.state = "Xdata"
    BY <1>1, <2>1, ResumedKeeps
  <2> HIDE DEF b
  <2>3. u \in TxType /\ u.offer = a.offer /\ u.next = a.next /\ u.state \in {"Xdata", "EOF"}
    <3>1. CASE u = skipFile(a, "Range")
      BY <3>1, <1>1, <1>3, SkipFileKeeps DEF SameFile
    <3>2. CASE u = skipFile(b, "Range")
      BY <3>2, <2>2, <1>3, SkipFileKeeps DEF SameFile
    <3>3. CASE u = b
      BY <3>3, <2>2 DEF SameFile
    <3> QED
      BY <1>6, <3>1, <3>2, <3>3
  <2>4. t.offer # NoFile
    BY <1>2, <1>6
  <2> QED
    BY <1>1, <2>3, <2>4 DEF TxShape, BeforeFinfo, FromEnd, Transferring
<1> QED
  BY <1>4, <1>5, <1>6

\* A file completed in the state machine.
LEMMA FinishTxFileShape ==
  ASSUME NEW p \in Peer, NEW t \in TxType, TxShape(p, t), NEW a \in TxType,
         a.next = t.next, NEW u, u = finishTxFile(a)
  PROVE  u \in TxType /\ TxShape(p, u) /\ u.offer = NoFile /\ u.next = t.next
<1>1. /\ u \in TxType /\ u.offer = NoFile /\ u.next = t.next /\ u.lastFinfo = NoFile
      /\ ~u.finfoAckWait /\ u.state = "Finfo"
  BY FinishTxFileKeeps
<1> QED
  BY <1>1 DEF TxShape, BeforeFinfo, FromEnd, Transferring

\* FINFOACK.
LEMMA TxFinfoAckKeeps ==
  ASSUME SentInv, NEW p \in Peer, txFinfoAck(p)
  PROVE  SentInv'
<1> DEFINE t == tx[p]
           off == Head(net[p]).off
           u == onFinfoAck(t, off)
           o == IF off = ackHaveFile THEN "Skip" ELSE "Defer"
<1>1. Hears(p, "FINFOACK") /\ UNCHANGED <<rDone, opened, got, devGot>>
  BY DEF txFinfoAck
<1>2. /\ t \in TxType /\ rx[p] \in RxType /\ dev[p] \in DevType /\ TxShape(p, t)
      /\ off \in Int /\ res[p] = "run"
  BY <1>1, Hearing
<1>3. <<>> \in Seq(Packet) /\ HistoryOK
  BY DEF SentInv, TypeOK
<1>4. CASE ~finfoAckHeeded(t)
  <2>1. Handled(p, t, rx[p], dev[p], <<>>) /\ UNCHANGED <<files, devGot>>
    BY <1>1, <1>4 DEF txFinfoAck, files
  <2> QED
    BY <1>1, <1>2, <1>3, <2>1, SilentlyHandled
<1>5. CASE finfoAckHeeded(t) /\ (t.eob \/ off >= 0)
  <2>1. ~(~t.eob /\ off < 0)
    BY <1>2, <1>5
  <2>2. Handled(p, u, rx[p], dev[p], <<>>) /\ UNCHANGED <<files, devGot>>
    BY <1>1, <1>5, <2>1 DEF txFinfoAck, files
  <2>3. u \in TxType /\ TxShape(p, u) /\ u.offer = t.offer /\ u.next = t.next
    BY <1>2, <1>5, OnFinfoAckKeeps
  <2> HIDE DEF u
  <2> QED
    BY <1>1, <1>2, <1>3, <2>2, <2>3, SilentlyHandled
<1>6. CASE finfoAckHeeded(t) /\ ~t.eob /\ off < 0
  <2>1. Handled(p, u, rx[p], dev[p], <<>>) /\ sDone' = Complete(sDone, t.offer, o)
    BY <1>6 DEF txFinfoAck
  <2>2. u = finishTxFile(acked(t))
    <3>1. t.offer \in File
      BY <1>2, <1>6 DEF finfoAckHeeded, TxShape, TxType
    <3>2. Size[t.offer] \in Nat
      BY <3>1, FileAssumption
    <3>3. ~(off > Size[t.offer]) /\ off \notin 1..Size[t.offer]
      BY <3>2, <1>2, <1>6
    <3> QED
      BY <3>3, <1>6 DEF onFinfoAck
  <2>3. acked(t) \in TxType /\ acked(t).next = t.next
    BY <1>2, AckedKeeps
  <2> HIDE DEF u
  <2>4. u \in TxType /\ TxShape(p, u) /\ u.offer = NoFile /\ u.next = t.next
    BY <1>2, <2>2, <2>3, FinishTxFileShape
  <2>5. t.offer # NoFile
    BY <1>2, <1>6 DEF finfoAckHeeded, TxShape
  <2>6. o \in Outcome /\ Taken(p) \in [Peer -> Seq(Packet)]
    BY <1>1, HeardPacket DEF Outcome, SentInv, TypeOK
  <2> HIDE DEF o
  <2> QED
    BY <1>1, <1>2, <1>3, <2>1, <2>4, <2>5, <2>6, CompletingStep DEF Handled
<1>7. (t.eob \/ off >= 0) \/ (~t.eob /\ off < 0)
  BY <1>2
<1> QED
  BY <1>4, <1>5, <1>6, <1>7

\* DATAACK.
LEMMA TxDataAckKeeps ==
  ASSUME SentInv, NEW p \in Peer, txDataAck(p)
  PROVE  SentInv'
<1> DEFINE t == tx[p]
           off == Head(net[p]).off
           a == ackedTo(t, off)
           u == onDataAck(t, off)
<1>1. /\ Hears(p, "DATAACK") /\ UNCHANGED <<files, devGot>>
      /\ Handled(p, u, rx[p], dev[p], <<>>)
  BY DEF txDataAck
<1>2. /\ t \in TxType /\ rx[p] \in RxType /\ dev[p] \in DevType /\ TxShape(p, t)
      /\ off \in Int
  BY <1>1, Hearing
<1>3. a \in TxType /\ SameFile(a, t) /\ a.state = t.state
  BY <1>2, AckedToKeeps
<1>4. \/ u = t
      \/ u = Advance(a, "Xdata") /\ t.state = "DataAck"
      \/ u = a
  BY DEF onDataAck
<1> HIDE DEF a
<1>5. u \in TxType /\ TxShape(p, u) /\ u.offer = t.offer /\ u.next = t.next
  <2>1. CASE u = t
    BY <2>1, <1>2
  <2>2. CASE u = a
    BY <2>2, <1>2, <1>3, SameShape DEF SameFile
  <2>3. CASE u = Advance(a, "Xdata") /\ t.state = "DataAck"
    <3>1. "Xdata" \in TxState
      BY DEF TxState
    <3>2. u \in TxType /\ SameFile(u, a) /\ u.state = "Xdata"
      BY <2>3, <3>1, <1>3, AdvanceKeeps
    <3>3. SameFile(u, t)
      BY <3>2, <1>3 DEF SameFile
    <3> QED
      BY <2>3, <3>2, <3>3, <1>2, SameShape DEF SameFile, Transferring
  <2> QED
    BY <1>4, <2>1, <2>2, <2>3
<1> HIDE DEF u
<1>6. <<>> \in Seq(Packet)
  OBVIOUS
<1> QED
  BY <1>1, <1>2, <1>5, <1>6, SilentlyHandled

\* A resync id not seen before.
LEMMA OnRposKeeps ==
  ASSUME NEW p \in Peer, NEW t \in TxType, TxShape(p, t), t.state \in Transferring,
         NEW k \in Packet, k.t = "RPOS", NEW u, u = onRpos(t, k)
  PROVE  u \in TxType /\ TxShape(p, u) /\ u.offer = t.offer /\ u.next = t.next
<1> DEFINE a == resync(t, k)
           e == IF t.err = "nil" THEN "Skip" ELSE t.err
<1>1. k.f \in File \cup {NoFile} /\ k.off \in Int
  BY DEF Packet
<1>2. a \in TxType /\ SameFile(a, t) /\ a.state = t.state
  BY <1>1, ResyncKeeps
<1>3. e \in Outcome /\ "Range" \in Outcome
  BY DEF Outcome, TxType
<1>4. \/ u = skipFile(a, e)
      \/ u = skipFile(a, "Range")
      \/ u = moved(a, k.off) /\ k.off >= 0
  BY <1>1 DEF onRpos
<1> HIDE DEF a, e
<1>5. u \in TxType /\ SameFile(u, a) /\ u.state \in Transferring
  <2>1. CASE u = skipFile(a, e)
    BY <2>1, <1>2, <1>3, SkipFileKeeps DEF Transferring
  <2>2. CASE u = skipFile(a, "Range")
    BY <2>2, <1>2, <1>3, SkipFileKeeps DEF Transferring
  <2>3. CASE u = moved(a, k.off) /\ k.off >= 0
    <3>1. k.off \in Nat
      BY <2>3, <1>1
    <3> QED
      BY <2>3, <3>1, <1>2, MovedKeeps DEF Transferring
  <2> QED
    BY <1>4, <2>1, <2>2, <2>3
<1>6. SameFile(u, t)
  BY <1>2, <1>5 DEF SameFile
<1> QED
  BY <1>5, <1>6, SameShape DEF SameFile

\* RPOS.
LEMMA TxRposKeeps ==
  ASSUME SentInv, NEW p \in Peer, txRpos(p)
  PROVE  SentInv'
<1> DEFINE t == tx[p]
           k == Head(net[p])
           u == onRpos(t, k)
           w == [t EXCEPT !.retries = @ + 1]
<1>1. Hears(p, "RPOS")
  BY DEF txRpos
<1>2. /\ t \in TxType /\ rx[p] \in RxType /\ dev[p] \in DevType /\ TxShape(p, t)
      /\ k \in Packet /\ k.t = "RPOS" /\ res[p] = "run"
  BY <1>1, Hearing
<1>3. <<>> \in Seq(Packet)
  OBVIOUS
<1>4. \/ Finish(p, "err", t, rx[p], dev[p], <<>>)
      \/ /\ t.retries < MaxRetries
         /\ Handled(p, w, rx[p], dev[p], <<>>) /\ UNCHANGED <<files, devGot>>
      \/ Handled(p, t, rx[p], dev[p], <<>>) /\ UNCHANGED <<files, devGot>>
      \/ /\ t.state \in Transferring
         /\ Handled(p, u, rx[p], dev[p], <<>>) /\ UNCHANGED <<files, devGot>>
  BY DEF txRpos
<1>5. CASE Finish(p, "err", t, rx[p], dev[p], <<>>)
  BY <1>2, <1>3, <1>5, FinishKeeps
<1>6. CASE /\ t.retries < MaxRetries
           /\ Handled(p, w, rx[p], dev[p], <<>>) /\ UNCHANGED <<files, devGot>>
  <2>1. w \in TxType /\ SameFile(w, t) /\ w.state = t.state
    BY <1>2, <1>6, RetriesKeeps
  <2> HIDE DEF w
  <2>2. TxShape(p, w) /\ w.offer = t.offer /\ w.next = t.next
    BY <1>2, <2>1, SameShape DEF SameFile
  <2> QED
    BY <1>1, <1>2, <1>3, <1>6, <2>1, <2>2, SilentlyHandled
<1>7. CASE Handled(p, t, rx[p], dev[p], <<>>) /\ UNCHANGED <<files, devGot>>
  BY <1>1, <1>2, <1>3, <1>7, SilentlyHandled
<1>8. CASE /\ t.state \in Transferring
           /\ Handled(p, u, rx[p], dev[p], <<>>) /\ UNCHANGED <<files, devGot>>
  <2>1. u \in TxType /\ TxShape(p, u) /\ u.offer = t.offer /\ u.next = t.next
    BY <1>2, <1>8, OnRposKeeps
  <2> HIDE DEF u
  <2> QED
    BY <1>1, <1>2, <1>3, <1>8, <2>1, SilentlyHandled
<1> QED
  BY <1>4, <1>5, <1>6, <1>7, <1>8

\* EOFACK.
LEMMA TxEOFAckKeeps ==
  ASSUME SentInv, NEW p \in Peer, txEOFAck(p)
  PROVE  SentInv'
<1> DEFINE t == tx[p]
           u == finishTxFile(t)
           o == eofOutcome(t)
<1>1. Hears(p, "EOFACK") /\ UNCHANGED <<rDone, opened, got, devGot>>
  BY DEF txEOFAck
<1>2. /\ t \in TxType /\ rx[p] \in RxType /\ dev[p] \in DevType /\ TxShape(p, t)
      /\ res[p] = "run"
  BY <1>1, Hearing
<1>3. <<>> \in Seq(Packet)
  OBVIOUS
<1>4. CASE ~eofAckHeeded(t)
  <2>1. Handled(p, t, rx[p], dev[p], <<>>) /\ UNCHANGED <<files, devGot>>
    BY <1>1, <1>4 DEF txEOFAck, files
  <2> QED
    BY <1>1, <1>2, <1>3, <2>1, SilentlyHandled
<1>5. CASE eofAckHeeded(t)
  <2>1. Handled(p, u, rx[p], dev[p], <<>>) /\ sDone' = Complete(sDone, t.offer, o)
    BY <1>5 DEF txEOFAck
  <2>2. u \in TxType /\ TxShape(p, u) /\ u.offer = NoFile /\ u.next = t.next
    BY <1>2, FinishTxFileShape
  <2>3. t.offer # NoFile
    BY <1>2, <1>5 DEF eofAckHeeded, TxShape, Transferring
  <2>4. o \in Outcome
    BY <1>2 DEF eofOutcome, Outcome, TxType
  <2>5. Taken(p) \in [Peer -> Seq(Packet)]
    BY <1>1, HeardPacket DEF SentInv, TypeOK
  <2> HIDE DEF u, o
  <2> QED
    BY <1>1, <1>2, <1>3, <2>1, <2>2, <2>3, <2>4, <2>5, CompletingStep DEF Handled
<1> QED
  BY <1>4, <1>5

\* END.
LEMMA TxEndKeeps ==
  ASSUME SentInv, NEW p \in Peer, txEnd(p)
  PROVE  SentInv'
<1> DEFINE u == [tx[p] EXCEPT !.timer = FALSE, !.state = "Done"]
           out == <<Ctl("END"), Ctl("END"), Ctl("END")>>
<1>1. Hears(p, "END")
  BY DEF txEnd
<1>2. /\ tx[p] \in TxType /\ rx[p] \in RxType /\ dev[p] \in DevType /\ TxShape(p, tx[p])
      /\ res[p] = "run"
  BY <1>1, Hearing
<1>3. <<>> \in Seq(Packet)
  OBVIOUS
<1>4. \/ Finish(p, "ok", u, rx[p], dev[p], out)
      \/ Handled(p, tx[p], rx[p], dev[p], <<>>) /\ UNCHANGED <<files, devGot>>
  BY DEF txEnd
<1>5. CASE Finish(p, "ok", u, rx[p], dev[p], out)
  <2>1. u \in TxType /\ SameFile(u, tx[p])
    BY <1>2, DoneKeeps
  <2>2. out \in Seq(Packet)
    <3>1. "END" \in PlainType
      BY DEF PktType, PlainType
    <3>2. Ctl("END") \in Packet
      BY <3>1, ControlPacket
    <3> QED
      BY <3>2
  <2> HIDE DEF u, out
  <2> QED
    BY <1>2, <1>5, <2>1, <2>2, FinishKeeps DEF SameFile
<1>6. CASE Handled(p, tx[p], rx[p], dev[p], <<>>) /\ UNCHANGED <<files, devGot>>
  BY <1>1, <1>2, <1>3, <1>6, SilentlyHandled
<1> QED
  BY <1>4, <1>5, <1>6

\* A DEVDACK is a packet.
LEMMA DackPacket ==
  ASSUME NEW id \in Nat
  PROVE  <<Pkt("DEVDACK", NoFile, 0, 0, id)>> \in Seq(Packet)
<1>1. "DEVDACK" \in PlainType
  BY DEF PktType, PlainType
<1>2. Pkt("DEVDACK", NoFile, 0, 0, id) \in Packet
  BY <1>1, PlainPacket
<1> QED
  BY <1>2

\* DEVDATA and DEVDACK.
LEMMA DevHandled ==
  ASSUME SentInv, NEW p \in Peer, devRx(p) \/ devDack(p)
  PROVE  SentInv'
<1> DEFINE k == Head(net[p])
           d == dev[p]
<1>1. CASE devRx(p)
  <2> DEFINE u == [d EXCEPT !.rxID = k.id]
             out == <<Pkt("DEVDACK", NoFile, 0, 0, k.id)>>
  <2>1. /\ Hears(p, "DEVDATA") /\ Handled(p, tx[p], rx[p], u, out) /\ UNCHANGED files
        /\ \/ devGot' = devGot
           \/ devGot' = [devGot EXCEPT ![p] = Append(@, k.off)]
    BY <1>1 DEF devRx
  <2>2. /\ tx[p] \in TxType /\ rx[p] \in RxType /\ d \in DevType /\ TxShape(p, tx[p])
        /\ k \in Packet /\ k.t = "DEVDATA" /\ k.id \in Nat
    BY <2>1, Hearing
  <2>3. u \in DevType
    BY <2>2, RxIdKeeps
  <2>4. out \in Seq(Packet)
    BY <2>2, DackPacket
  <2>5. devGot' \in [Peer -> Seq(Nat)]
    <3>1. k.off \in Nat
      BY <2>2 DEF Packet
    <3>2. devGot \in [Peer -> Seq(Nat)]
      BY DEF SentInv, TypeOK, HistoryOK
    <3>3. Append(devGot[p], k.off) \in Seq(Nat)
      BY <3>1, <3>2
    <3> QED
      BY <2>1, <3>2, <3>3
  <2>6. sDone' = sDone /\ HistoryOK'
    BY <2>1, <2>5 DEF SentInv, TypeOK, HistoryOK, files
  <2> HIDE DEF u, out
  <2> QED
    BY <2>1, <2>2, <2>3, <2>4, <2>6, HandledKeeps
<1>2. CASE devDack(p)
  <2>1. PICK u : /\ Hears(p, "DEVDACK") /\ Handled(p, tx[p], rx[p], u, <<>>)
                 /\ UNCHANGED <<files, devGot>>
                 /\ u = settled(d) \/ u = d
    BY <1>2 DEF devDack
  <2>2. /\ tx[p] \in TxType /\ rx[p] \in RxType /\ d \in DevType /\ TxShape(p, tx[p])
    BY <2>1, Hearing
  <2>3. u \in DevType /\ <<>> \in Seq(Packet)
    BY <2>1, <2>2, SettledKeeps
  <2> QED
    BY <2>1, <2>2, <2>3, SilentlyHandled
<1> QED
  BY <1>1, <1>2

-----------------------------------------------------------------------------
(* The application and the environment.                                    *)

\* SendDevice and queueDev touch the DEV machine alone.
LEMMA DevOnly ==
  ASSUME SentInv, NEW p \in Peer, NEW u \in DevType, dev' = [dev EXCEPT ![p] = u],
         UNCHANGED <<tx, rx, net, res, lost, files, devGot>>
  PROVE  SentInv'
<1>1. dev' \in [Peer -> DevType]
  BY DEF SentInv, TypeOK, MachinesOK
<1>2. MachinesOK' /\ HistoryOK'
  BY <1>1 DEF SentInv, TypeOK, MachinesOK, HistoryOK, files
<1>3. Shape'
  BY DEF SentInv, Shape, TxShape
<1>4. Ledger'
  BY DEF SentInv, Ledger, Offered, files
<1> QED
  BY <1>2, <1>3, <1>4 DEF SentInv, TypeOK

\* Datagrams on their way into the queue.
LEMMA QueueKeeps ==
  ASSUME SentInv, NEW p \in Peer, SendDevice(p) \/ queueDev(p)
  PROVE  SentInv'
<1>1. dev[p] \in DevType
  BY DEF SentInv, TypeOK, MachinesOK
<1>2. CASE SendDevice(p)
  <2> DEFINE u == requested(dev[p])
  <2>1. dev' = [dev EXCEPT ![p] = u] /\ UNCHANGED <<tx, rx, net, res, lost, files, devGot>>
    BY <1>2 DEF SendDevice
  <2>2. u \in DevType
    BY <1>1, RequestedKeeps
  <2> HIDE DEF u
  <2> QED
    BY <2>1, <2>2, DevOnly
<1>3. CASE queueDev(p)
  <2> DEFINE u == queued(dev[p])
  <2>1. dev' = [dev EXCEPT ![p] = u] /\ UNCHANGED <<tx, rx, net, res, lost, files, devGot>>
    BY <1>3 DEF queueDev
  <2>2. u \in DevType
    BY <1>1, <1>3, QueuedKeeps DEF queueDev
  <2> HIDE DEF u
  <2> QED
    BY <2>1, <2>2, DevOnly
<1> QED
  BY <1>2, <1>3

\* A corrupted packet.
LEMMA CorruptKeeps ==
  ASSUME SentInv, NEW p \in Peer, Corrupt(p)
  PROVE  SentInv'
<1>1. MachinesOK /\ HistoryOK
  BY DEF SentInv, TypeOK
<1>2. net' \in [Peer -> Seq(Packet)]
  <2>1. net \in [Peer -> Seq(Packet)] /\ net[p] # <<>> /\ net' = [net EXCEPT ![p] = Tail(@)]
    BY <1>1 DEF MachinesOK, Corrupt, Taken
  <2>2. Tail(net[p]) \in Seq(Packet)
    BY <2>1
  <2> QED
    BY <2>1, <2>2
<1>3. lost' \in 0..MaxLoss
  BY <1>1, BoundAssumption DEF MachinesOK, Corrupt
<1>4. MachinesOK' /\ HistoryOK'
  BY <1>1, <1>2, <1>3 DEF MachinesOK, HistoryOK, Corrupt, files
<1>5. Shape'
  BY DEF SentInv, Shape, TxShape, Corrupt
<1>6. Ledger'
  BY DEF SentInv, Ledger, Offered, Corrupt, files
<1> QED
  BY <1>4, <1>5, <1>6 DEF SentInv, TypeOK

\* A Run ended from outside.
LEMMA FailKeeps ==
  ASSUME SentInv, NEW p \in Peer, Fail(p)
  PROVE  SentInv'
<1>1. PICK result \in {"ok", "err"} : Finish(p, result, tx[p], rx[p], dev[p], <<>>)
  BY DEF Fail
<1>2. res[p] = "run" /\ MachinesOK /\ Shape
  BY DEF Fail, SentInv, TypeOK
<1>3. tx[p] \in TxType /\ rx[p] \in RxType /\ dev[p] \in DevType
  BY <1>2, PendingOffer
<1>4. <<>> \in Seq(Packet)
  OBVIOUS
<1> QED
  BY <1>1, <1>2, <1>3, <1>4, FinishKeeps

-----------------------------------------------------------------------------
(* The invariant.                                                          *)

\* It holds when both peers start.
LEMMA InitSent == Init => SentInv
<1> SUFFICES ASSUME Init PROVE SentInv
  OBVIOUS
<1>1. newTx \in TxType
  BY SomeRetries DEF newTx, TxType, TxState, Outcome
<1>2. newRx \in RxType
  BY SomeRetries DEF newRx, RxType, RxState
<1>3. newDev \in DevType
  BY SomeRetries DEF newDev, DevType, DevState
<1>4. MachinesOK
  BY <1>1, <1>2, <1>3, BoundAssumption DEF Init, MachinesOK
<1>5. HistoryOK
  BY DEF Init, HistoryOK
<1>6. \A p \in Peer : /\ res[p] = "run" /\ tx[p].offer = NoFile /\ tx[p].next = 1
                      /\ tx[p].state = "Start" /\ tx[p].lastFinfo = NoFile
                      /\ ~tx[p].finfoAckWait /\ Len(Offers[p]) \in Nat
  BY OffersAreFiles DEF Init, newTx
<1>7. Shape
  BY <1>6 DEF Shape, TxShape, BeforeFinfo, Transferring
<1>8. Ledger
  <2>1. \A f \in File : sDone[f] = <<>>
    BY DEF Init
  <2>2. \A p \in Peer : \A i \in 1..Len(Offers[p]) : i >= tx[p].next /\ Offers[p][i] \in File
    BY <1>6, OffersAreFiles
  <2> QED
    BY <2>1, <2>2 DEF Ledger
<1> QED
  BY <1>4, <1>5, <1>7, <1>8 DEF SentInv, TypeOK

\* Every packet handled keeps it.
LEMMA HandleKeeps ==
  ASSUME SentInv, NEW p \in Peer, handlePacket(p)
  PROVE  SentInv'
  BY HandshakeKeeps, RxFinfoKeeps, AcceptKeeps, RxDataKeeps, RxEOFKeeps, TxFinfoAckKeeps,
     TxDataAckKeeps, TxRposKeeps, TxEOFAckKeeps, TxEndKeeps, DevHandled
  DEF handlePacket

\* Every step keeps it.
LEMMA NextSent == SentInv /\ [Next]_vars => SentInv'
<1> SUFFICES ASSUME SentInv, [Next]_vars PROVE SentInv'
  OBVIOUS
<1>1. CASE UNCHANGED vars
  BY <1>1 DEF vars, SentInv, TypeOK, MachinesOK, HistoryOK, Shape, TxShape, Ledger, Offered
<1>2. ASSUME NEW p \in Peer, Loop(p) \/ fireTimers(p) \/ handlePacket(p)
      PROVE  SentInv'
  BY <1>2, LoopKeeps, HandleKeeps
<1>3. ASSUME NEW p \in Peer, SendDevice(p) \/ queueDev(p) \/ Corrupt(p) \/ Fail(p)
      PROVE  SentInv'
  BY <1>3, QueueKeeps, CorruptKeeps, FailKeeps
<1> QED
  BY <1>1, <1>2, <1>3 DEF Next, Over

\* What the ledger says once a Run is over, and before.
LEMMA SentInvImplies == SentInv => SentOnce
<1> SUFFICES ASSUME SentInv PROVE SentOnce
  OBVIOUS
<1>1. MachinesOK /\ Shape /\ Ledger
  BY DEF SentInv, TypeOK
<1>2. ASSUME NEW f \in File
      PROVE  Len(sDone[f]) <= 1
  <2>1. CASE \A p \in Peer : f \notin Offered(p)
    <3>1. sDone[f] = <<>>
      BY <1>1, <2>1 DEF Ledger
    <3> QED
      BY <3>1
  <2>2. CASE \E p \in Peer : f \in Offered(p)
    <3>1. PICK p \in Peer : f \in Offered(p)
      BY <2>2
    <3>2. PICK i \in 1..Len(Offers[p]) : Offers[p][i] = f
      BY <3>1 DEF Offered
    <3>3. sDone[f] = <<>> \/ Len(sDone[f]) = 1
      BY <1>1, <3>2 DEF Ledger
    <3>4. CASE sDone[f] = <<>>
      BY <3>4
    <3>5. CASE Len(sDone[f]) = 1
      BY <3>5
    <3> QED
      BY <3>3, <3>4, <3>5
  <2> QED
    BY <2>1, <2>2
<1>3. ASSUME NEW p \in Peer, res[p] # "run", NEW f \in Pulled(p)
      PROVE  Len(sDone[f]) = 1
  <2>1. PICK i \in 1..(tx[p].next - 1) : Offers[p][i] = f
    BY DEF Pulled
  <2>2. tx[p].offer = NoFile /\ tx[p].next \in 1..(Len(Offers[p]) + 1) /\ Len(Offers[p]) \in Nat
    BY <1>1, <1>3, OffersAreFiles DEF Shape
  <2>3. i \in 1..Len(Offers[p]) /\ ~(i >= tx[p].next)
    BY <2>1, <2>2
  <2>4. f # NoFile
    BY <2>1, <2>3, OffersAreFiles
  <2> QED
    BY <1>1, <2>1, <2>2, <2>3, <2>4 DEF Ledger
<1> QED
  BY <1>2, <1>3 DEF SentOnce

\* In every reachable state the cursors, offers and ledger agree.
LEMMA Invariance == Spec => []SentInv
  BY InitSent, NextSent, PTL DEF Spec

-----------------------------------------------------------------------------
(* The theorems.                                                           *)

\* Every field of the batch, every packet and every call to a handler keeps
\* its type, whatever arrives and expires, for every set of files and offers
\* and every bound: retries never exceed Config.MaxRetries, the cursors stay
\* among their states, and what is read from a packet is what it carries.
THEOREM TypeCorrect == Spec => []TypeOK
<1>1. SentInv => TypeOK
  BY DEF SentInv
<1> QED
  BY <1>1, Invariance, PTL

\* SendHandler.FileCompleted fires at most once per file and, once Run has
\* returned, has fired for every file NextFile handed out, for any offers,
\* handlers, losses and timeouts (closeOffer, finishTxFile, teardown).
THEOREM SenderExactlyOnce == Spec => []SentOnce
  BY Invariance, SentInvImplies, PTL

-----------------------------------------------------------------------------
(* What a channel holds.                                                   *)

Among(s) == {s[i] : i \in 1..Len(s)}

\* Nothing, or the packets written.
LEMMA AmongFew ==
  /\ Among(<<>>) = {}
  /\ \A k : Among(<<k>>) = {k} /\ Among(<<k, k>>) = {k} /\ Among(<<k, k, k>>) = {k}
<1>1. Among(<<>>) = {}
  BY DEF Among
<1>2. ASSUME NEW k PROVE Among(<<k>>) = {k}
  BY DEF Among
<1>3. ASSUME NEW k PROVE Among(<<k, k>>) = {k}
  BY DEF Among
<1>4. ASSUME NEW k PROVE Among(<<k, k, k>>) = {k}
  BY DEF Among
<1> QED
  BY <1>1, <1>2, <1>3, <1>4

\* Writing adds what is written.
LEMMA AmongConcat ==
  ASSUME NEW a \in Seq(Packet), NEW b \in Seq(Packet)
  PROVE  Among(a \o b) = Among(a) \cup Among(b)
<1>1. a \o b \in Seq(Packet) /\ Len(a \o b) = Len(a) + Len(b)
      /\ Len(a) \in Nat /\ Len(b) \in Nat
  OBVIOUS
<1>2. \A i \in 1..Len(a) : i \in 1..Len(a \o b) /\ (a \o b)[i] = a[i]
  BY <1>1
<1>3. \A i \in 1..Len(b) : Len(a) + i \in 1..Len(a \o b) /\ (a \o b)[Len(a) + i] = b[i]
  BY <1>1
<1>4. ASSUME NEW i \in 1..Len(a \o b)
      PROVE  (a \o b)[i] \in Among(a) \cup Among(b)
  <2>1. CASE i <= Len(a)
    BY <1>1, <1>2, <2>1 DEF Among
  <2>2. CASE i > Len(a)
    <3> DEFINE j == i - Len(a)
    <3>1. j \in 1..Len(b) /\ i = Len(a) + j
      BY <1>1, <2>2
    <3>2. (a \o b)[i] = b[j]
      BY <1>3, <3>1
    <3> QED
      BY <3>1, <3>2 DEF Among
  <2> QED
    BY <1>1, <2>1, <2>2
<1>5. Among(a \o b) \subseteq Among(a) \cup Among(b)
  BY <1>4 DEF Among
<1>6. Among(a) \cup Among(b) \subseteq Among(a \o b)
  BY <1>2, <1>3 DEF Among
<1> QED
  BY <1>5, <1>6

\* Taking the first packet adds none.
LEMMA AmongTail ==
  ASSUME NEW s \in Seq(Packet), s # <<>>
  PROVE  Among(Tail(s)) \subseteq Among(s) /\ Head(s) \in Among(s)
<1>1. /\ Len(s) \in Nat /\ Len(s) >= 1 /\ Len(Tail(s)) = Len(s) - 1
      /\ \A i \in 1..Len(Tail(s)) : Tail(s)[i] = s[i + 1]
      /\ Head(s) = s[1]
  OBVIOUS
<1>2. \A i \in 1..Len(Tail(s)) : i + 1 \in 1..Len(s)
  BY <1>1
<1> QED
  BY <1>1, <1>2 DEF Among

-----------------------------------------------------------------------------
(* The invariant.                                                          *)

\* The states up to the answer to one's own INIT.
Early == {"Start", "Swait", "Init", "InitAck"}

\* The packets whose format no option changes.
Fixed == {"START", "INIT", "INITACK", "IDLE", "END"}

\* p has processed the other's INIT.
Knows(p) == rx[p].state # "Init"

\* An INITACK, and a cursor past it, witness that the other end has processed
\* the INIT; a cursor past the RINIT sync point, that this end has too.
HandshakeInv ==
    \A p \in Peer :
        /\ tx[p].state \notin Early => Knows(Other(p))
        /\ tx[p].state \notin BeforeFinfo => Knows(p)
        /\ \A k \in Among(net[p]) :
            /\ k.t = "INITACK" => Knows(Other(p))
            /\ k.t \notin Fixed => Knows(p) /\ Knows(Other(p))

\* The other of two peers.
LEMMA TheOther ==
  ASSUME NEW p \in Peer
  PROVE  Other(p) \in Peer /\ Other(p) # p /\ Other(Other(p)) = p
         /\ \A q \in Peer : q = p \/ q = Other(p)
  BY PeerAssumption DEF Peer, Other

\* What a packet written by p, or a cursor of p, must not run ahead of: t and
\* r are p's machines after the step.
Gated(p, t, r, out) ==
    /\ Knows(p) => r.state # "Init"
    /\ t.state \notin Early => Knows(Other(p))
    /\ t.state \notin BeforeFinfo => r.state # "Init"
    /\ \A k \in Among(out) :
        /\ k.t = "INITACK" => r.state # "Init"
        /\ k.t \notin Fixed => r.state # "Init" /\ Knows(Other(p))

\* A step that writes and moves within the gate keeps the invariant.
LEMMA GatedKeeps ==
  ASSUME HandshakeInv, MachinesOK, NEW p \in Peer, NEW t, NEW r, NEW out, Gated(p, t, r, out),
         tx'[p].state = t.state, tx'[Other(p)] = tx[Other(p)],
         rx'[p].state = r.state, rx'[Other(p)] = rx[Other(p)],
         Among(net'[p]) \subseteq Among(net[p]),
         Among(net'[Other(p)]) \subseteq Among(net[Other(p)]) \cup Among(out)
  PROVE  HandshakeInv'
<1> DEFINE o == Other(p)
<1>1. o \in Peer /\ o # p /\ Other(o) = p /\ \A q \in Peer : q = p \/ q = o
  BY TheOther
<1>2. /\ Knows(p)' <=> r.state # "Init"
      /\ Knows(o)' <=> Knows(o)
      /\ Knows(p) => Knows(p)'
  BY DEF Knows, Gated
<1> HIDE DEF o
<1>3. /\ tx'[p].state \notin Early => Knows(o)'
      /\ tx'[p].state \notin BeforeFinfo => Knows(p)'
  BY <1>2 DEF Gated, o
<1>4. /\ tx'[o].state \notin Early => Knows(p)'
      /\ tx'[o].state \notin BeforeFinfo => Knows(o)'
  BY <1>1, <1>2 DEF HandshakeInv, o
<1>5. \A k \in Among(net'[p]) :
        /\ k.t = "INITACK" => Knows(o)'
        /\ k.t \notin Fixed => Knows(p)' /\ Knows(o)'
  BY <1>2 DEF HandshakeInv, o
<1>6. \A k \in Among(net'[o]) :
        /\ k.t = "INITACK" => Knows(p)'
        /\ k.t \notin Fixed => Knows(o)' /\ Knows(p)'
  <2> SUFFICES ASSUME NEW k \in Among(net'[o])
               PROVE  /\ k.t = "INITACK" => Knows(p)'
                      /\ k.t \notin Fixed => Knows(o)' /\ Knows(p)'
    OBVIOUS
  <2>1. CASE k \in Among(net[o])
    BY <2>1, <1>1, <1>2 DEF HandshakeInv
  <2>2. CASE k \in Among(out)
    BY <2>2, <1>2 DEF Gated, o
  <2> QED
    BY <2>1, <2>2 DEF o
<1>7. ASSUME NEW q \in Peer
      PROVE  /\ tx'[q].state \notin Early => Knows(Other(q))'
             /\ tx'[q].state \notin BeforeFinfo => Knows(q)'
             /\ \A k \in Among(net'[q]) :
                  /\ k.t = "INITACK" => Knows(Other(q))'
                  /\ k.t \notin Fixed => Knows(q)' /\ Knows(Other(q))'
  <2>1. CASE q = p
    BY <2>1, <1>3, <1>5 DEF o
  <2>2. CASE q = o
    BY <2>2, <1>1, <1>4, <1>6
  <2> QED
    BY <1>1, <2>1, <2>2
<1> QED
  BY <1>7 DEF HandshakeInv, Knows

-----------------------------------------------------------------------------
(* The ends of a step.                                                     *)

\* sync passes the RINIT sync point only with the peer's INIT processed.
LEMMA SyncGated ==
  ASSUME NEW p \in Peer, NEW t \in TxType, NEW r, NEW d, NEW out, Gated(p, t, r, out),
         NEW u, u = sync(t, r, d)
  PROVE  Gated(p, u, r, out)
<1>1. \/ u.state = t.state
      \/ u.state \in Early
      \/ t.state = "Rinit" /\ u.state = "Finfo" /\ r.state # "Init"
      \/ t.state \notin BeforeFinfo
  <2>1. \/ u = t
        \/ u = Advance(t, "Init")
        \/ t.state = "Rinit" /\ u = Advance(t, "Finfo") /\ r.state # "Init"
        \/ t.state \notin BeforeFinfo
    BY DEF sync, BeforeFinfo
  <2>2. Advance(t, "Init").state = "Init" /\ Advance(t, "Finfo").state = "Finfo"
    BY DEF Advance, TxType
  <2> QED
    BY <2>1, <2>2 DEF Early
<1>2. Early \subseteq BeforeFinfo /\ "Rinit" \notin Early
  BY DEF Early, BeforeFinfo
<1> QED
  BY <1>1, <1>2 DEF Gated

\* A step that leaves p's Run active.
LEMMA ContinueGated ==
  ASSUME SentInv, HandshakeInv, NEW p \in Peer,
         NEW t \in TxType, NEW r, NEW d, NEW out \in Seq(Packet), Gated(p, t, r, out),
         NEW n \in [Peer -> Seq(Packet)],
         Among(n[p]) \subseteq Among(net[p]), n[Other(p)] = net[Other(p)],
         Continue(p, n, t, r, d, out)
  PROVE  HandshakeInv'
<1> DEFINE u == sync(t, r, d)
<1>1. MachinesOK /\ Other(p) \in Peer /\ Other(p) # p
  BY TheOther DEF SentInv, TypeOK
<1>2. tx \in [Peer -> TxType] /\ rx \in [Peer -> RxType] /\ net \in [Peer -> Seq(Packet)]
  BY <1>1 DEF MachinesOK
<1>3. /\ tx' = [tx EXCEPT ![p] = u] /\ rx' = [rx EXCEPT ![p] = r]
      /\ net' = Deliver(n, p, out)
  BY DEF Continue
<1>4. Gated(p, u, r, out)
  BY SyncGated
<1> HIDE DEF u
<1>5. /\ tx'[p] = u /\ tx'[Other(p)] = tx[Other(p)]
      /\ rx'[p] = r /\ rx'[Other(p)] = rx[Other(p)]
  BY <1>1, <1>2, <1>3
<1>6. net'[p] = n[p]
      /\ net'[Other(p)] = IF res[Other(p)] = "run" THEN n[Other(p)] \o out ELSE <<>>
  BY <1>1, <1>3 DEF Deliver
<1>7. Among(net'[Other(p)]) \subseteq Among(net[Other(p)]) \cup Among(out)
  <2>1. Among(net[Other(p)] \o out) = Among(net[Other(p)]) \cup Among(out)
    BY <1>1, <1>2, AmongConcat
  <2> QED
    BY <1>6, <2>1, AmongFew
<1> QED
  BY <1>1, <1>4, <1>5, <1>6, <1>7, GatedKeeps

\* The end of p's Run.
LEMMA FinishGated ==
  ASSUME SentInv, HandshakeInv, NEW p \in Peer, NEW result,
         NEW t \in TxType, NEW r \in RxType, NEW d,
         NEW out \in Seq(Packet), Gated(p, t, r, out), Finish(p, result, t, r, d, out)
  PROVE  HandshakeInv'
<1> DEFINE u == [t EXCEPT !.offer = NoFile]
           v == [r EXCEPT !.open = FALSE]
<1>1. MachinesOK /\ Other(p) \in Peer /\ Other(p) # p
  BY TheOther DEF SentInv, TypeOK
<1>2. tx \in [Peer -> TxType] /\ rx \in [Peer -> RxType] /\ net \in [Peer -> Seq(Packet)]
  BY <1>1 DEF MachinesOK
<1>3. u.state = t.state /\ v.state = r.state
  BY DEF TxType, RxType
<1>4. /\ tx' = [tx EXCEPT ![p] = u] /\ rx' = [rx EXCEPT ![p] = v]
      /\ net' = [Deliver(net, p, out) EXCEPT ![p] = <<>>]
  BY DEF Finish
<1> HIDE DEF u, v
<1>5. /\ tx'[p] = u /\ tx'[Other(p)] = tx[Other(p)]
      /\ rx'[p] = v /\ rx'[Other(p)] = rx[Other(p)]
  BY <1>1, <1>2, <1>4
<1>6. net'[p] = <<>>
      /\ net'[Other(p)] = IF res[Other(p)] = "run" THEN net[Other(p)] \o out ELSE <<>>
  BY <1>1, <1>2, <1>4 DEF Deliver
<1>7. Among(net'[Other(p)]) \subseteq Among(net[Other(p)]) \cup Among(out)
  <2>1. Among(net[Other(p)] \o out) = Among(net[Other(p)]) \cup Among(out)
    BY <1>1, <1>2, AmongConcat
  <2> QED
    BY <1>6, <2>1, AmongFew
<1>8. Among(net'[p]) \subseteq Among(net[p])
  BY <1>6, AmongFew
<1> QED
  BY <1>1, <1>3, <1>5, <1>7, <1>8, GatedKeeps

\* Handling a packet.
LEMMA HandledGated ==
  ASSUME SentInv, HandshakeInv, NEW p \in Peer, NEW type, Hears(p, type),
         NEW t \in TxType, NEW r, NEW d, NEW out \in Seq(Packet), Gated(p, t, r, out),
         Handled(p, t, r, d, out)
  PROVE  HandshakeInv'
<1>1. MachinesOK /\ net \in [Peer -> Seq(Packet)] /\ Other(p) # p /\ Other(p) \in Peer
  BY TheOther DEF SentInv, TypeOK, MachinesOK
<1>2. Taken(p) \in [Peer -> Seq(Packet)]
  BY <1>1, HeardPacket
<1>3. Taken(p)[p] = Tail(net[p]) /\ Taken(p)[Other(p)] = net[Other(p)]
  BY <1>1 DEF Taken
<1>4. Among(Tail(net[p])) \subseteq Among(net[p])
  BY <1>1, AmongTail DEF Hears
<1> QED
  BY <1>2, <1>3, <1>4, ContinueGated DEF Handled

\* Once both ends know, nothing is gated.
LEMMA BothKnow ==
  ASSUME NEW p \in Peer, Knows(Other(p)), NEW t, NEW r, r.state # "Init", NEW out
  PROVE  Gated(p, t, r, out)
  BY DEF Gated

\* A packet whose format depends on the options witnesses that both do.
LEMMA FlippedHeard ==
  ASSUME SentInv, HandshakeInv, NEW p \in Peer, NEW type, Hears(p, type), type \notin Fixed
  PROVE  Knows(p) /\ Knows(Other(p))
<1>1. net[p] \in Seq(Packet) /\ net[p] # <<>> /\ Head(net[p]).t = type
  BY DEF SentInv, TypeOK, MachinesOK, Hears
<1>2. Head(net[p]) \in Among(net[p])
  BY <1>1, AmongTail
<1> QED
  BY <1>1, <1>2 DEF HandshakeInv

-----------------------------------------------------------------------------
(* What a pass does: the cursor before and after, and what is written.     *)

\* The FINFO sent before, or that of the end of the batch or of a new offer.
Announces(p, t, u) ==
    \/ t.lastFinfo # NoFile /\ u.lastFinfo = t.lastFinfo /\ u.next = t.next
    \/ t.lastFinfo = NoFile /\ u.lastFinfo = EOB /\ u.next = Len(Offers[p]) + 1
    \/ /\ t.lastFinfo = NoFile /\ u.next \in (t.next + 1)..(Len(Offers[p]) + 1)
       /\ u.lastFinfo = Offers[p][u.next - 1]

PassStep(p, t, u, out) ==
    \/ t.state = "Start" /\ u.state = "Swait" /\ SameFile(u, t) /\ out = <<Ctl("START")>>
    \/ t.state = "Init" /\ u.state = "InitAck" /\ SameFile(u, t) /\ out = <<Ctl("INIT")>>
    \/ /\ t.state = "Finfo" /\ u.state = "FinfoAck" /\ u.lastFinfo \in File \cup {EOB}
       /\ Announces(p, t, u) /\ out = <<Pkt("FINFO", u.lastFinfo, 0, 0, 0)>>
    \/ t.state = "Xdata" /\ u.state = "EOF" /\ SameFile(u, t) /\ out = <<>>
    \/ /\ t.state = "Xdata" /\ u.state \in {"Xdata", "DataAck"} /\ SameFile(u, t)
       /\ \E n \in 1..MaxBlock : out = <<Pkt("DATA", t.offer, t.pos, n, 0)>>
    \/ /\ t.state = "EOF" /\ u.state = "EOFAck" /\ SameFile(u, t)
       /\ \E off \in Int : out = <<OffPkt("EOF", off)>>
    \/ t.state = "End" /\ u.state = "EndAck" /\ SameFile(u, t) /\ out = <<Ctl("END"), Ctl("END")>>
    \/ t.state \notin Sending /\ u = t /\ out = <<>>

\* A new announcement.
LEMMA AnnounceStep ==
  ASSUME NEW p \in Peer, NEW t \in TxType, TxShape(p, t), NEW d, NEW pre,
         sendFinfo(p, t, d, pre)
  PROVE  \E u \in TxType : \E out \in Seq(Packet) :
            Sent(p, t, d, u, pre, out) /\ PassStep(p, t, u, out)
<1>1. t.state = "Finfo" /\ t.lastFinfo = NoFile /\ t.offer = NoFile
  BY DEF sendFinfo, TxShape
<1>2. PICK j \in pullsTo(p, t) :
        LET u == IF j > Len(Offers[p]) THEN endOfBatch(t, j) ELSE newOffer(t, Offers[p][j], j)
        IN Sent(p, t, d, announced(u), pre, <<Pkt("FINFO", u.lastFinfo, 0, 0, 0)>>)
  BY DEF sendFinfo
<1> DEFINE u == IF j > Len(Offers[p]) THEN endOfBatch(t, j) ELSE newOffer(t, Offers[p][j], j)
           w == announced(u)
           out == <<Pkt("FINFO", u.lastFinfo, 0, 0, 0)>>
<1>3. j \in Nat /\ j \in t.next..(Len(Offers[p]) + 1)
  BY <1>1, PullsTo
<1>4. Len(Offers[p]) \in Nat /\ t.next \in 1..(Len(Offers[p]) + 1)
  BY OffersAreFiles DEF TxShape
<1>5. Sent(p, t, d, w, pre, out)
  BY <1>2
<1>6. /\ u \in TxType
      /\ \/ u.lastFinfo = EOB /\ u.next = Len(Offers[p]) + 1
         \/ /\ u.next \in (t.next + 1)..(Len(Offers[p]) + 1)
            /\ u.lastFinfo = Offers[p][u.next - 1] /\ u.lastFinfo \in File
  <2>1. CASE j > Len(Offers[p])
    <3>1. u = endOfBatch(t, j) /\ j = Len(Offers[p]) + 1
      BY <2>1, <1>3, <1>4
    <3> HIDE DEF u
    <3> QED
      BY <3>1, <1>3, EndOfBatchKeeps
  <2>2. CASE ~(j > Len(Offers[p]))
    <3>1. u = newOffer(t, Offers[p][j], j) /\ j \in 1..Len(Offers[p])
      BY <2>2, <1>3, <1>4
    <3>2. Offers[p][j] \in File
      BY <3>1, OffersAreFiles
    <3> HIDE DEF u
    <3>3. u \in TxType /\ u.next = j + 1 /\ u.lastFinfo = Offers[p][j]
      BY <3>1, <3>2, <1>3, NewOfferKeeps
    <3> QED
      BY <3>1, <3>2, <3>3, <1>3, <1>4
  <2> QED
    BY <2>1, <2>2
<1> HIDE DEF u
<1>7. w \in TxType /\ w.next = u.next /\ w.lastFinfo = u.lastFinfo /\ w.state = "FinfoAck"
  BY <1>6, AnnouncedKeeps
<1>8. u.lastFinfo \in File \cup {EOB}
  BY <1>6
<1>9. out \in Seq(Packet)
  <2>1. Pkt("FINFO", u.lastFinfo, 0, 0, 0) \in Packet
    BY <1>8, FinfoPacket
  <2> QED
    BY <2>1
<1>10. out = <<Pkt("FINFO", w.lastFinfo, 0, 0, 0)>>
  BY <1>7
<1> HIDE DEF w, out
<1>11. PassStep(p, t, w, out)
  BY <1>1, <1>6, <1>7, <1>8, <1>10 DEF PassStep, Announces
<1> QED
  BY <1>5, <1>7, <1>9, <1>11

\* Every pass.
LEMMA PassMoves ==
  ASSUME NEW p \in Peer, NEW t \in TxType, TxShape(p, t), NEW d, NEW pre, Pass(p, t, d, pre)
  PROVE  \E u \in TxType : \E out \in Seq(Packet) :
            Sent(p, t, d, u, pre, out) /\ PassStep(p, t, u, out)
<1>1. CASE sendStart(p, t, d, pre) \/ sendInit(p, t, d, pre) \/ sendEnd(p, t, d, pre)
  <2>1. PICK u, out :
          /\ Sent(p, t, d, u, pre, out)
          /\ \/ t.state = "Start" /\ u = Await(t, "Swait") /\ out = <<Ctl("START")>>
             \/ t.state = "Init" /\ u = Await(t, "InitAck") /\ out = <<Ctl("INIT")>>
             \/ t.state = "End" /\ u = Await(t, "EndAck") /\ out = <<Ctl("END"), Ctl("END")>>
    BY <1>1 DEF sendStart, sendInit, sendEnd
  <2>2. "Swait" \in TxState /\ "InitAck" \in TxState /\ "EndAck" \in TxState
    BY DEF TxState
  <2>3. /\ u \in TxType /\ SameFile(u, t)
        /\ \/ t.state = "Start" /\ u.state = "Swait" /\ out = <<Ctl("START")>>
           \/ t.state = "Init" /\ u.state = "InitAck" /\ out = <<Ctl("INIT")>>
           \/ t.state = "End" /\ u.state = "EndAck" /\ out = <<Ctl("END"), Ctl("END")>>
    BY <2>1, <2>2, AwaitKeeps
  <2>4. "START" \in PlainType /\ "INIT" \in PlainType /\ "END" \in PlainType
    BY DEF PktType, PlainType
  <2>5. Ctl("START") \in Packet /\ Ctl("INIT") \in Packet /\ Ctl("END") \in Packet
    BY <2>4, ControlPacket
  <2>6. \A k \in Packet : <<k>> \in Seq(Packet) /\ <<k, k>> \in Seq(Packet)
    OBVIOUS
  <2>7. out \in Seq(Packet)
    BY <2>3, <2>5, <2>6, Zenon
  <2>8. PassStep(p, t, u, out)
    BY <2>3 DEF PassStep
  <2> QED
    BY <2>1, <2>3, <2>7, <2>8
<1>2. CASE resendFinfo(p, t, d, pre)
  <2> DEFINE u == announced(t)
             out == <<Pkt("FINFO", t.lastFinfo, 0, 0, 0)>>
  <2>1. t.state = "Finfo" /\ t.lastFinfo # NoFile /\ Sent(p, t, d, u, pre, out)
    BY <1>2 DEF resendFinfo
  <2>2. u \in TxType /\ u.next = t.next /\ u.lastFinfo = t.lastFinfo /\ u.state = "FinfoAck"
    BY AnnouncedKeeps
  <2>3. t.lastFinfo \in File \cup {EOB}
    BY <2>1 DEF TxType
  <2>4. out \in Seq(Packet)
    <3>1. Pkt("FINFO", t.lastFinfo, 0, 0, 0) \in Packet
      BY <2>3, FinfoPacket
    <3> QED
      BY <3>1
  <2> HIDE DEF u
  <2>5. PassStep(p, t, u, out)
    BY <2>1, <2>2, <2>3 DEF PassStep, Announces
  <2> QED
    BY <2>1, <2>2, <2>4, <2>5
<1>3. CASE sendNoData(p, t, d, pre)
  <2>1. PICK u : /\ Sent(p, t, d, u, pre, <<>>)
                 /\ \/ u = [t EXCEPT !.state = "EOF"]
                    \/ u = skipFile(t, "Read")
                    \/ u = skipFile(t, "TooLarge")
    BY <1>3 DEF sendNoData
  <2>2. u \in TxType /\ SameFile(u, t) /\ u.state = "EOF"
    <3>1. "EOF" \in TxState /\ "Read" \in Outcome /\ "TooLarge" \in Outcome
      BY DEF TxState, Outcome
    <3> QED
      BY <2>1, <3>1, StateKeeps, SkipFileKeeps
  <2>3. PassStep(p, t, u, <<>>)
    BY <1>3, <2>2 DEF PassStep, sendNoData
  <2>4. <<>> \in Seq(Packet)
    OBVIOUS
  <2> QED
    BY <2>1, <2>2, <2>3, <2>4
<1>4. CASE sendData(p, t, d, pre)
  <2>1. PICK n \in 1..MaxBlock :
          LET u == [t EXCEPT !.pos = @ + n] IN
          Sent(p, t, d, IF windowFull(u) THEN Await(u, "DataAck") ELSE u, pre,
               <<Pkt("DATA", t.offer, t.pos, n, 0)>>)
    BY <1>4 DEF sendData
  <2> DEFINE u == [t EXCEPT !.pos = @ + n]
             w == IF windowFull(u) THEN Await(u, "DataAck") ELSE u
             out == <<Pkt("DATA", t.offer, t.pos, n, 0)>>
  <2>2. n \in Nat /\ t.state = "Xdata" /\ "DataAck" \in TxState
    BY <1>4, BoundAssumption DEF sendData, TxState
  <2>3. u \in TxType /\ SameFile(u, t) /\ u.state = "Xdata"
    BY <2>2, PosKeeps
  <2>4. Sent(p, t, d, w, pre, out)
    BY <2>1
  <2> HIDE DEF u
  <2>5. w \in TxType /\ SameFile(w, t) /\ w.state \in {"Xdata", "DataAck"}
    <3>1. CASE windowFull(u)
      <4>1. w = Await(u, "DataAck")
        BY <3>1
      <4> HIDE DEF w
      <4>2. w \in TxType /\ SameFile(w, u) /\ w.state = "DataAck"
        BY <2>2, <2>3, <4>1, AwaitKeeps
      <4> QED
        BY <2>3, <4>2 DEF SameFile
    <3>2. CASE ~windowFull(u)
      BY <3>2, <2>3
    <3> QED
      BY <3>1, <3>2
  <2> HIDE DEF w
  <2>6. out \in Seq(Packet)
    <3>1. t.offer \in File /\ t.pos \in Nat
      BY <2>2 DEF TxShape, Transferring, TxType
    <3>2. Pkt("DATA", t.offer, t.pos, n, 0) \in Packet
      BY <2>2, <3>1, DataPacket
    <3> QED
      BY <3>2
  <2>7. PassStep(p, t, w, out)
    BY <2>2, <2>5 DEF PassStep
  <2> QED
    BY <2>4, <2>5, <2>6, <2>7
<1>5. CASE sendEOF(p, t, d, pre)
  <2> DEFINE off == IF t.skip THEN offsetSkip ELSE t.pos
             u == eofSent(t)
  <2>1. t.state = "EOF" /\ Sent(p, t, d, u, pre, <<OffPkt("EOF", off)>>)
    BY <1>5 DEF sendEOF
  <2>2. u \in TxType /\ SameFile(u, t) /\ u.state = "EOFAck"
    BY EofSentKeeps
  <2>3. off \in Int
    BY DEF offsetSkip, TxType
  <2> HIDE DEF off, u
  <2>4. <<OffPkt("EOF", off)>> \in Seq(Packet)
    BY <2>3, OffsetAnswer
  <2>5. PassStep(p, t, u, <<OffPkt("EOF", off)>>)
    BY <2>1, <2>2, <2>3 DEF PassStep
  <2> QED
    BY <2>1, <2>2, <2>4, <2>5
<1>6. CASE sendNothing(p, t, d, pre)
  <2>1. t.state \notin Sending /\ Sent(p, t, d, t, pre, <<>>) /\ <<>> \in Seq(Packet)
    BY <1>6 DEF sendNothing
  <2>2. PassStep(p, t, t, <<>>)
    BY <2>1 DEF PassStep
  <2> QED
    BY <2>1, <2>2
<1> QED
  BY <1>1, <1>2, <1>3, <1>4, <1>5, <1>6, AnnounceStep DEF Pass

-----------------------------------------------------------------------------
(* What the timers do before a pass.                                       *)

\* A cursor moves within these groups only when its timer expires.
Rewound(u, t) ==
    /\ SameFile(u, t)
    /\ \/ u.state = t.state
       \/ u.state \in Early /\ t.state \in Early
       \/ u.state \in Transferring /\ t.state \in Transferring
       \/ u.state \in FromEnd /\ t.state \in FromEnd
       \/ u.state = "Finfo" /\ t.state = "FinfoAck"

\* An expired TX timer.
LEMMA TimeoutMoves ==
  ASSUME NEW t \in TxType, ~TxExhausted(t), NEW u, u = txTimeout(t)
  PROVE  u \in TxType /\ Rewound(u, t)
<1>1. \/ u = t
      \/ u = dropWindow(t) /\ t.state = "DataAck"
      \/ u = retry(t) /\ t.retries < MaxRetries
  <2>1. t.retries \in Nat /\ MaxRetries \in Nat
    BY SomeRetries DEF TxType
  <2> QED
    BY <2>1 DEF txTimeout, TxExhausted, WindowIgnored
<1>2. CASE u = t
  BY <1>2 DEF Rewound, SameFile
<1>3. CASE u = dropWindow(t) /\ t.state = "DataAck"
  BY <1>3, DropWindowKeeps DEF Rewound, Transferring
<1>4. CASE u = retry(t) /\ t.retries < MaxRetries
  <2>1. t.state \in TxState
    BY DEF TxType
  <2>2. /\ Retried(t.state) \in TxState
        /\ \/ Retried(t.state) = t.state
           \/ Retried(t.state) \in Early /\ t.state \in Early
           \/ Retried(t.state) \in Transferring /\ t.state \in Transferring
           \/ Retried(t.state) \in FromEnd /\ t.state \in FromEnd
           \/ Retried(t.state) = "Finfo" /\ t.state = "FinfoAck"
    BY <2>1 DEF Retried, TxState, Early, Transferring, FromEnd
  <2>3. u \in TxType /\ SameFile(u, t) /\ u.state = Retried(t.state)
    BY <1>4, <2>2, RetryKeeps
  <2> QED
    BY <2>2, <2>3 DEF Rewound
<1> QED
  BY <1>1, <1>2, <1>3, <1>4

\* A rewound cursor is well-formed.
LEMMA RewoundShape ==
  ASSUME NEW p \in Peer, NEW t \in TxType, TxShape(p, t), NEW u, Rewound(u, t)
  PROVE  TxShape(p, u)
<1>1. Early \subseteq BeforeFinfo
  BY DEF Early, BeforeFinfo
<1> QED
  BY <1>1, SameShape DEF Rewound

\* Retries exhausted end the Run with an error, except in the END exchange;
\* everything else is a pass, from a cursor that the timers may have rewound.
LEMMA LoopMoves ==
  ASSUME SentInv, NEW p \in Peer, Loop(p) \/ fireTimers(p)
  PROVE  /\ res[p] = "run"
         /\ \/ Finish(p, "err", tx[p], rx[p], dev[p], <<>>)
            \/ /\ tx[p].state = "EndAck"
               /\ Finish(p, "ok", [tx[p] EXCEPT !.state = "Done"], rx[p], dev[p], <<>>)
            \/ \E t \in TxType : \E d \in {dev[p], devTimeout(dev[p])} :
               \E pre \in {<<>>, <<Ctl("IDLE")>>} :
                  /\ Rewound(t, tx[p]) /\ TxShape(p, t) /\ d \in DevType
                  /\ Pass(p, t, d, pre)
<1>1. res[p] = "run"
  BY DEF Loop, HasWork, fireTimers
<1>2. tx[p] \in TxType /\ dev[p] \in DevType /\ TxShape(p, tx[p])
  BY <1>1, PendingOffer DEF SentInv, TypeOK
<1>3. CASE Loop(p)
  <2>1. Rewound(tx[p], tx[p])
    BY DEF Rewound, SameFile
  <2> QED
    BY <1>1, <1>2, <1>3, <2>1 DEF Loop
<1>4. CASE fireTimers(p)
  <2>1. PICK fired \in SUBSET {"tx", "dev"} \ {{}} :
          LET t == IF "tx" \in fired THEN txTimeout(tx[p]) ELSE tx[p]
              d == IF "dev" \in fired THEN devTimeout(dev[p]) ELSE dev[p]
              gaveUp == \/ "tx" \in fired /\ TxExhausted(tx[p]) /\ tx[p].state # "EndAck"
                        \/ "dev" \in fired /\ dev[p].retries >= MaxRetries
              left == ~gaveUp /\ "tx" \in fired /\ TxExhausted(tx[p])
          IN \/ gaveUp /\ Finish(p, "err", tx[p], rx[p], dev[p], <<>>)
             \/ left /\ Finish(p, "ok", [tx[p] EXCEPT !.state = "Done"], rx[p], dev[p], <<>>)
             \/ /\ ~gaveUp /\ ~left
                /\ Pass(p, t, d, IF "tx" \in fired /\ Idling(tx[p])
                                 THEN <<Ctl("IDLE")>> ELSE <<>>)
    BY <1>4 DEF fireTimers
  <2> DEFINE t == IF "tx" \in fired THEN txTimeout(tx[p]) ELSE tx[p]
             d == IF "dev" \in fired THEN devTimeout(dev[p]) ELSE dev[p]
             pre == IF "tx" \in fired /\ Idling(tx[p]) THEN <<Ctl("IDLE")>> ELSE <<>>
  <2>2. CASE Finish(p, "err", tx[p], rx[p], dev[p], <<>>)
    BY <2>2, <1>1
  <2>3. CASE /\ tx[p].state = "EndAck"
             /\ Finish(p, "ok", [tx[p] EXCEPT !.state = "Done"], rx[p], dev[p], <<>>)
    BY <2>3, <1>1
  <2>4. CASE /\ ~("tx" \in fired /\ TxExhausted(tx[p]))
             /\ ~("dev" \in fired /\ dev[p].retries >= MaxRetries)
             /\ Pass(p, t, d, pre)
    <3>1. t \in TxType /\ Rewound(t, tx[p])
      <4>1. CASE "tx" \in fired
        <5>1. t = txTimeout(tx[p]) /\ ~TxExhausted(tx[p])
          BY <2>4, <4>1
        <5> HIDE DEF t
        <5> QED
          BY <5>1, <1>2, TimeoutMoves
      <4>2. CASE "tx" \notin fired
        BY <4>2, <1>2 DEF Rewound, SameFile
      <4> QED
        BY <4>1, <4>2
    <3>2. d \in DevType
      <4>1. dev[p].retries \in Nat /\ MaxRetries \in Nat
        BY <1>2, SomeRetries DEF DevType
      <4>2. CASE "dev" \notin fired
        BY <4>2, <1>2
      <4>3. CASE "dev" \in fired
        <5>1. ~(dev[p].retries >= MaxRetries)
          BY <2>4, <4>3, Zenon
        <5>2. dev[p].retries < MaxRetries
          BY <4>1, <5>1
        <5>3. d = devTimeout(dev[p])
          BY <4>3
        <5> QED
          BY <5>2, <5>3, <1>2, DevTimeoutKeeps
      <4> QED
        BY <4>2, <4>3
    <3>3. d \in {dev[p], devTimeout(dev[p])} /\ pre \in {<<>>, <<Ctl("IDLE")>>}
      OBVIOUS
    <3>4. Pass(p, t, d, pre)
      BY <2>4
    <3> HIDE DEF t, d, pre
    <3>5. TxShape(p, t)
      BY <3>1, <1>2, RewoundShape
    <3> QED
      BY <1>1, <3>1, <3>2, <3>3, <3>4, <3>5
  <2> QED
    BY <2>1, <2>2, <2>3, <2>4
<1> QED
  BY <1>3, <1>4

-----------------------------------------------------------------------------
(* What handling a packet does.                                            *)

\* The receiver's machine and the calls it makes: nothing the files depend
\* on; the end of the batch; a refusal; an acceptance; a write error; an end.
SameRx(v, r) ==
    v.state = r.state /\ v.open = r.open /\ v.file = r.file /\ v.refused = r.refused
RxStep(k, r, v, done, next) ==
    \/ SameRx(v, r) /\ next = done
    \/ /\ k.t = "FINFO" /\ k.f = EOB /\ r.state = "Finfo"
       /\ SameRx(v, [r EXCEPT !.state = "Done"]) /\ next = done
    \/ /\ k.t = "FINFO" /\ k.f \in File /\ r.state = "Finfo" /\ k.f # r.refused
       /\ SameRx(v, [r EXCEPT !.refused = k.f])
       /\ \E o \in Outcome : next = Complete(done, k.f, o)
    \/ /\ k.t = "FINFO" /\ k.f \in File /\ r.state = "Finfo" /\ k.f # r.refused
       /\ v.state = "Data" /\ v.open /\ v.file = k.f /\ v.refused = NoFile /\ next = done
    \/ /\ k.t = "DATA" /\ r.state = "Data" /\ r.open /\ SameRx(v, [r EXCEPT !.open = FALSE])
       /\ \E o \in Outcome : next = Complete(done, r.file, o)
    \/ /\ k.t = "EOF" /\ r.state = "Data"
       /\ SameRx(v, [r EXCEPT !.open = FALSE, !.state = "Finfo"])
       /\ \E o \in Outcome : next = IF r.open THEN Complete(done, r.file, o) ELSE done

\* What a receiver may write.
Answer == {"FINFOACK", "DATAACK", "RPOS", "EOFACK"}

\* One packet written.
LEMMA OneAnswer ==
  ASSUME NEW k \in Packet, k.t \in Answer
  PROVE  <<k>> \in Seq(Packet) /\ \A j \in Among(<<k>>) : j.t \in Answer
  BY AmongFew

\* Nothing written.
LEMMA NoAnswer == <<>> \in Seq(Packet) /\ \A j \in Among(<<>>) : j.t \in Answer
  BY AmongFew

\* The answers are packets.
LEMMA AnswerPackets ==
  /\ \A off \in Int : /\ OffPkt("FINFOACK", off) \in Packet /\ OffPkt("FINFOACK", off).t \in Answer
                      /\ OffPkt("DATAACK", off) \in Packet /\ OffPkt("DATAACK", off).t \in Answer
  /\ Ctl("EOFACK") \in Packet /\ Ctl("EOFACK").t \in Answer
  /\ \A v \in RxType : /\ Pkt("RPOS", v.file, v.pos, 0, v.syncID) \in Packet
                       /\ Pkt("RPOS", v.file, v.pos, 0, v.syncID).t \in Answer
<1>1. Answer \subseteq PlainType
  BY DEF Answer, PlainType, PktType
<1>2. "FINFOACK" \in Answer /\ "DATAACK" \in Answer /\ "EOFACK" \in Answer /\ "RPOS" \in Answer
  BY DEF Answer
<1>3. \A v \in RxType : v.file \in File \cup {NoFile} /\ v.pos \in Int /\ v.syncID \in Nat
  BY DEF RxType
<1>4. \A ty, f, off, n, id : Pkt(ty, f, off, n, id).t = ty
  BY DEF Pkt
<1>5. \A ty, off : OffPkt(ty, off).t = ty /\ Ctl(ty).t = ty
  BY DEF OffPkt, Ctl, Pkt
<1> QED
  BY <1>1, <1>2, <1>3, <1>4, <1>5, ControlPacket, PlainPacket

\* The only file a step may open is the one that v then has open.
Opens(v) == \A f \in opened' : f \in opened \/ (v.open /\ v.file = f)

\* The outcome of handling what a sender writes.
RxMove(p, k, t, v, out) ==
    /\ SameFile(t, tx[p]) /\ t.state = tx[p].state
    /\ \A j \in Among(out) : j.t \in Answer
    /\ Opens(v)
    /\ \/ Handled(p, t, v, dev[p], out) /\ RxStep(k, rx[p], v, rDone, rDone')
       \/ Finish(p, "err", t, v, dev[p], out) /\ SameRx(v, rx[p])

\* DATA or EOF out of place.
LEMMA BadPositionMoves ==
  ASSUME SentInv, NEW p \in Peer, NEW type, Hears(p, type), NEW off \in Int,
         NEW isEOF \in BOOLEAN, badPosition(p, off, isEOF)
  PROVE  \E t \in TxType : \E v \in RxType : \E out \in Seq(Packet) :
            RxMove(p, Head(net[p]), t, v, out)
<1> DEFINE t == tx[p]
           r == strayed(rx[p], off)
           oneWay == /\ ~isEOF /\ r.retries > HdxBurst /\ t.state \in BeforeRend
                     /\ p = ANS /\ ~t.hdxlink
           tries == IF oneWay THEN 1 ELSE r.retries + 1
           u == asking(r, tries)
           b == t.hdxlink \/ oneWay
           w == [t EXCEPT !.hdxlink = b]
           k == Pkt("RPOS", u.file, u.pos, 0, u.syncID)
<1>1. tx[p] \in TxType /\ rx[p] \in RxType /\ dev[p] \in DevType
  BY Hearing
<1>2. r \in RxType
  BY <1>1, StrayedKeeps
<1>3. SameRx(r, rx[p])
  BY <1>1 DEF strayed, SameRx, RxType
<1>4. SameFile(t, tx[p]) /\ t.state = tx[p].state
  BY DEF SameFile
<1>5. \/ Handled(p, t, r, dev[p], <<>>) /\ UNCHANGED <<files, devGot>>
      \/ Finish(p, "err", t, r, dev[p], <<>>)
      \/ /\ tries <= MaxRetries
         /\ Handled(p, w, u, dev[p], <<k>>)
         /\ UNCHANGED <<files, devGot>>
  BY DEF badPosition
<1>6. CASE Handled(p, t, r, dev[p], <<>>) /\ UNCHANGED <<files, devGot>>
  <2>1. RxStep(Head(net[p]), rx[p], r, rDone, rDone')
    BY <1>3, <1>6 DEF RxStep, files
  <2>2. RxMove(p, Head(net[p]), t, r, <<>>)
    BY <1>4, <1>6, <2>1, NoAnswer DEF RxMove, Opens, files
  <2> QED
    BY <1>1, <1>2, <2>2, NoAnswer
<1>7. CASE Finish(p, "err", t, r, dev[p], <<>>)
  <2>1. RxMove(p, Head(net[p]), t, r, <<>>)
    BY <1>3, <1>4, <1>7, NoAnswer DEF RxMove, Opens, Finish
  <2> QED
    BY <1>1, <1>2, <2>1, NoAnswer
<1>8. CASE /\ tries <= MaxRetries
           /\ Handled(p, w, u, dev[p], <<k>>)
           /\ UNCHANGED <<files, devGot>>
  <2>1. tries \in 0..MaxRetries
    <3>1. r.retries \in Nat /\ MaxRetries \in Nat
      BY <1>2, SomeRetries DEF RxType
    <3>2. tries = 1 \/ tries = r.retries + 1
      OBVIOUS
    <3>3. tries <= MaxRetries
      BY <1>8
    <3> HIDE DEF tries, r
    <3> QED
      BY <3>1, <3>2, <3>3
  <2>2. b \in BOOLEAN
    OBVIOUS
  <2> HIDE DEF tries, r, b
  <2>3. u \in RxType /\ SameRx(u, rx[p])
    <3>1. u \in RxType
      BY <1>2, <2>1, AskingKeeps
    <3>2. SameRx(u, r)
      BY <1>2 DEF asking, SameRx, RxType
    <3> QED
      BY <3>1, <3>2, <1>3 DEF SameRx
  <2>4. w \in TxType /\ SameFile(w, tx[p]) /\ w.state = tx[p].state
    BY <1>1, <2>2, HdxlinkKeeps
  <2> HIDE DEF u, w
  <2>5. RxStep(Head(net[p]), rx[p], u, rDone, rDone')
    BY <1>8, <2>3 DEF RxStep, files
  <2>6. <<k>> \in Seq(Packet) /\ \A j \in Among(<<k>>) : j.t \in Answer
    BY <2>3, AnswerPackets, OneAnswer
  <2>7. RxMove(p, Head(net[p]), w, u, <<k>>)
    BY <1>8, <2>4, <2>5, <2>6 DEF RxMove, Opens, files
  <2> QED
    BY <2>3, <2>4, <2>6, <2>7
<1> QED
  BY <1>5, <1>6, <1>7, <1>8

\* FINFO.
LEMMA FinfoMoves ==
  ASSUME SentInv, NEW p \in Peer, rxFinfo(p) \/ acceptFinfo(p)
  PROVE  \E t \in TxType : \E v \in RxType : \E out \in Seq(Packet) :
            RxMove(p, Head(net[p]), t, v, out)
<1> DEFINE k == Head(net[p])
           f == k.f
           r == rx[p]
<1>1. Hears(p, "FINFO")
  BY DEF rxFinfo, acceptFinfo
<1>2. tx[p] \in TxType /\ r \in RxType /\ k \in Packet /\ k.t = "FINFO"
  BY <1>1, Hearing
<1>3. SameFile(tx[p], tx[p])
  BY DEF SameFile
<1>4. \A off \in Int : /\ <<OffPkt("FINFOACK", off)>> \in Seq(Packet)
                       /\ \A j \in Among(<<OffPkt("FINFOACK", off)>>) : j.t \in Answer
  BY AnswerPackets, OneAnswer
<1>5. ASSUME NEW v \in RxType, NEW off \in Int,
             Handled(p, tx[p], v, dev[p], <<OffPkt("FINFOACK", off)>>),
             RxStep(k, r, v, rDone, rDone'), Opens(v)
      PROVE  \E t \in TxType : \E w \in RxType : \E out \in Seq(Packet) : RxMove(p, k, t, w, out)
  BY <1>2, <1>3, <1>4, <1>5 DEF RxMove
<1>6. CASE rxFinfo(p)
  <2> DEFINE ack == CASE r.state = "Finfo" /\ f = EOB -> 0
                      [] r.state = "Finfo" /\ f # EOB -> r.refusedAck
                      [] r.state = "Data" -> r.pos
                      [] r.state = "Done" /\ f # EOB -> ackDefer
                      [] OTHER -> 0
             s == IF r.state = "Finfo" /\ f = EOB THEN [r EXCEPT !.state = "Done"] ELSE r
  <2>1. /\ Handled(p, tx[p], s, dev[p], <<OffPkt("FINFOACK", ack)>>)
        /\ UNCHANGED <<files, devGot>>
    BY <1>6 DEF rxFinfo
  <2>2. s \in RxType
    <3>1. "Done" \in RxState
      BY DEF RxState
    <3> QED
      BY <1>2, <3>1, RxStateKeeps
  <2>3. ack \in Int
    <3>1. 0 \in Int /\ ackDefer \in Int /\ r.refusedAck \in Int /\ r.pos \in Int
      BY <1>2 DEF RxType, ackDefer
    <3>2. ack = 0 \/ ack = r.refusedAck \/ ack = r.pos \/ ack = ackDefer
      OBVIOUS
    <3> HIDE DEF ack
    <3> QED
      BY <3>1, <3>2
  <2>4. RxStep(k, r, s, rDone, rDone')
    BY <1>2, <2>1 DEF RxStep, SameRx, files
  <2> HIDE DEF s, ack
  <2>5. Opens(s)
    BY <2>1 DEF Opens, files
  <2> QED
    BY <1>5, <2>1, <2>2, <2>3, <2>4, <2>5
<1>7. CASE acceptFinfo(p)
  <2>1. r.state = "Finfo" /\ f # r.refused /\ f \in File
    BY <1>2, <1>7 DEF acceptFinfo, refusedBefore, Packet
  <2>2. ASSUME NEW outcome \in Outcome, NEW ack \in Int,
               Handled(p, tx[p], refusing(r, f, ack), dev[p], <<OffPkt("FINFOACK", ack)>>),
               rDone' = Complete(rDone, f, outcome), opened' = opened
        PROVE  \E t \in TxType : \E w \in RxType : \E out \in Seq(Packet) : RxMove(p, k, t, w, out)
    <3>1. refusing(r, f, ack) \in RxType
      BY <1>2, <2>1, RefusingKeeps
    <3>2. SameRx(refusing(r, f, ack), [r EXCEPT !.refused = f])
      BY <1>2 DEF refusing, SameRx, RxType
    <3>3. RxStep(k, r, refusing(r, f, ack), rDone, rDone')
      BY <1>2, <2>1, <2>2, <3>2 DEF RxStep
    <3>4. Opens(refusing(r, f, ack))
      BY <2>2 DEF Opens
    <3> QED
      BY <1>5, <2>2, <3>1, <3>3, <3>4
  <2>3. ASSUME NEW off \in ResumeAt, rDone' = rDone, opened' = opened \cup {f},
               Handled(p, tx[p], receiving(r, f, off), dev[p], <<OffPkt("FINFOACK", off)>>)
        PROVE  \E t \in TxType : \E w \in RxType : \E out \in Seq(Packet) : RxMove(p, k, t, w, out)
    <3>1. off \in Nat /\ off \in Int
      BY HandlerAssumption
    <3>2. receiving(r, f, off) \in RxType
      BY <1>2, <2>1, <3>1, ReceivingKeeps
    <3>3. /\ receiving(r, f, off).state = "Data" /\ receiving(r, f, off).open
          /\ receiving(r, f, off).file = f /\ receiving(r, f, off).refused = NoFile
      BY <1>2 DEF receiving, RxType
    <3>4. RxStep(k, r, receiving(r, f, off), rDone, rDone')
      BY <1>2, <2>1, <2>3, <3>3 DEF RxStep
    <3>5. Opens(receiving(r, f, off))
      BY <2>3, <3>3 DEF Opens
    <3> QED
      BY <1>5, <2>3, <3>1, <3>2, <3>4, <3>5
  <2> DEFINE Refuse(outcome, ack) ==
               /\ Handled(p, tx[p], refusing(r, f, ack), dev[p], <<OffPkt("FINFOACK", ack)>>)
               /\ rDone' = Complete(rDone, f, outcome) /\ opened' = opened
  <2>4. \/ \E e \in RefuseWith : Refuse(e, IF e = "Skip" THEN ackHaveFile ELSE ackDefer)
        \/ Refuse("Range", ackDefer)
        \/ \E off \in ResumeAt :
             /\ Handled(p, tx[p], receiving(r, f, off), dev[p], <<OffPkt("FINFOACK", off)>>)
             /\ rDone' = rDone /\ opened' = opened \cup {f}
    BY <1>7 DEF acceptFinfo
  <2>5. ackHaveFile \in Int /\ ackDefer \in Int /\ "Range" \in Outcome
        /\ \A e \in RefuseWith : e \in Outcome
    BY HandlerAssumption DEF ackHaveFile, ackDefer, Outcome
  <2>6. ASSUME NEW outcome \in Outcome, NEW ack \in Int, Refuse(outcome, ack)
        PROVE  \E t \in TxType : \E w \in RxType : \E out \in Seq(Packet) : RxMove(p, k, t, w, out)
    BY <2>2, <2>6
  <2> HIDE DEF Refuse
  <2>7. ASSUME NEW e \in RefuseWith, Refuse(e, IF e = "Skip" THEN ackHaveFile ELSE ackDefer)
        PROVE  \E t \in TxType : \E w \in RxType : \E out \in Seq(Packet) : RxMove(p, k, t, w, out)
    <3> DEFINE ack == IF e = "Skip" THEN ackHaveFile ELSE ackDefer
    <3>1. ack \in Int /\ e \in Outcome /\ Refuse(e, ack)
      BY <2>5, <2>7
    <3> HIDE DEF ack
    <3> QED
      BY <3>1, <2>6
  <2> QED
    BY <2>3, <2>4, <2>5, <2>6, <2>7
<1> QED
  BY <1>6, <1>7

\* DATA.
LEMMA DataMoves ==
  ASSUME SentInv, NEW p \in Peer, rxData(p)
  PROVE  \E t \in TxType : \E v \in RxType : \E out \in Seq(Packet) :
            RxMove(p, Head(net[p]), t, v, out)
<1> DEFINE k == Head(net[p])
           r == rx[p]
           u == skipping(r)
           w == taking(r, k.n)
           out == dataAck(p, r.pos + k.n)
<1>1. Hears(p, "DATA")
  BY DEF rxData
<1>2. /\ tx[p] \in TxType /\ r \in RxType /\ k \in Packet /\ k.t = "DATA"
      /\ k.n \in Nat /\ k.off \in Int
  BY <1>1, Hearing
<1>3. SameFile(tx[p], tx[p])
  BY DEF SameFile
<1>4. \/ Handled(p, tx[p], r, dev[p], <<>>) /\ UNCHANGED <<files, devGot>>
      \/ badPosition(p, k.off, FALSE)
      \/ /\ r.state = "Data" /\ r.open
         /\ Handled(p, tx[p], u, dev[p], <<Pkt("RPOS", u.file, u.pos, 0, u.syncID)>>)
         /\ rDone' = Complete(rDone, r.file, "Write") /\ opened' = opened
      \/ Handled(p, tx[p], w, dev[p], out) /\ rDone' = rDone /\ opened' = opened
  BY DEF rxData
<1>5. CASE Handled(p, tx[p], r, dev[p], <<>>) /\ UNCHANGED <<files, devGot>>
  <2>1. RxStep(k, r, r, rDone, rDone')
    BY <1>5 DEF RxStep, SameRx, files
  <2>2. RxMove(p, k, tx[p], r, <<>>)
    BY <1>3, <1>5, <2>1, NoAnswer DEF RxMove, Opens, files
  <2> QED
    BY <1>2, <2>2, NoAnswer
<1>6. CASE badPosition(p, k.off, FALSE)
  BY <1>1, <1>2, <1>6, BadPositionMoves
<1>7. CASE /\ r.state = "Data" /\ r.open
           /\ Handled(p, tx[p], u, dev[p], <<Pkt("RPOS", u.file, u.pos, 0, u.syncID)>>)
           /\ rDone' = Complete(rDone, r.file, "Write") /\ opened' = opened
  <2>1. u \in RxType
    BY <1>2, SkippingKeeps
  <2>2. SameRx(u, [r EXCEPT !.open = FALSE])
    BY <1>2 DEF skipping, SameRx, RxType
  <2>3. RxStep(k, r, u, rDone, rDone')
    BY <1>2, <1>7, <2>2 DEF RxStep, Outcome
  <2> HIDE DEF u
  <2> DEFINE a == Pkt("RPOS", u.file, u.pos, 0, u.syncID)
  <2>4. <<a>> \in Seq(Packet) /\ \A j \in Among(<<a>>) : j.t \in Answer
    BY <2>1, AnswerPackets, OneAnswer
  <2>5. RxMove(p, k, tx[p], u, <<a>>)
    BY <1>3, <1>7, <2>3, <2>4 DEF RxMove, Opens
  <2> QED
    BY <1>2, <2>1, <2>4, <2>5
<1>8. CASE Handled(p, tx[p], w, dev[p], out) /\ rDone' = rDone /\ opened' = opened
  <2>1. w \in RxType
    BY <1>2, TakingKeeps
  <2>2. SameRx(w, r)
    BY <1>2 DEF taking, SameRx, RxType
  <2>3. RxStep(k, r, w, rDone, rDone')
    BY <1>8, <2>2 DEF RxStep
  <2>4. out \in Seq(Packet) /\ \A j \in Among(out) : j.t \in Answer
    <3> DEFINE a == OffPkt("DATAACK", r.pos + k.n)
    <3>1. r.pos + k.n \in Int
      BY <1>2 DEF RxType
    <3>2. <<a>> \in Seq(Packet) /\ \A j \in Among(<<a>>) : j.t \in Answer
      BY <3>1, AnswerPackets, OneAnswer
    <3>3. out = <<a>> \/ out = <<>>
      BY DEF dataAck
    <3> HIDE DEF a, out
    <3> QED
      BY <3>2, <3>3, NoAnswer, Zenon
  <2> HIDE DEF w, out
  <2>5. RxMove(p, k, tx[p], w, out)
    BY <1>3, <1>8, <2>3, <2>4 DEF RxMove, Opens
  <2> QED
    BY <1>2, <2>1, <2>4, <2>5
<1> QED
  BY <1>4, <1>5, <1>6, <1>7, <1>8

\* EOF.
LEMMA EofMoves ==
  ASSUME SentInv, NEW p \in Peer, rxEOF(p)
  PROVE  \E t \in TxType : \E v \in RxType : \E out \in Seq(Packet) :
            RxMove(p, Head(net[p]), t, v, out)
<1> DEFINE k == Head(net[p])
           off == k.off
           r == rx[p]
<1>1. Hears(p, "EOF")
  BY DEF rxEOF
<1>2. tx[p] \in TxType /\ r \in RxType /\ k.t = "EOF" /\ off \in Int
  BY <1>1, Hearing
<1>3. SameFile(tx[p], tx[p])
  BY DEF SameFile
<1>4. /\ <<Ctl("EOFACK")>> \in Seq(Packet)
      /\ \A j \in Among(<<Ctl("EOFACK")>>) : j.t \in Answer
  BY AnswerPackets, OneAnswer
<1>5. PICK n, outcome, out :
        \/ badPosition(p, off, TRUE)
        \/ /\ out = <<>> \/ out = <<Ctl("EOFACK")>>
           /\ Handled(p, tx[p], r, dev[p], out) /\ UNCHANGED <<files, devGot>>
        \/ /\ n \in {0, off} /\ outcome \in {"SenderSkip", "nil"} /\ r.state = "Data"
           /\ Handled(p, tx[p], closing(r, n), dev[p], <<Ctl("EOFACK")>>)
           /\ rDone' = IF r.open THEN Complete(rDone, r.file, outcome) ELSE rDone
           /\ opened' = opened
  BY DEF rxEOF
<1>6. CASE badPosition(p, off, TRUE)
  BY <1>1, <1>2, <1>6, BadPositionMoves
<1>7. CASE /\ out = <<>> \/ out = <<Ctl("EOFACK")>>
           /\ Handled(p, tx[p], r, dev[p], out) /\ UNCHANGED <<files, devGot>>
  <2>1. RxStep(k, r, r, rDone, rDone')
    BY <1>7 DEF RxStep, SameRx, files
  <2>2. out \in Seq(Packet) /\ \A j \in Among(out) : j.t \in Answer
    BY <1>4, <1>7, NoAnswer, Zenon
  <2>3. RxMove(p, k, tx[p], r, out)
    BY <1>3, <1>7, <2>1, <2>2 DEF RxMove, Opens, files
  <2> QED
    BY <1>2, <2>2, <2>3
<1>8. CASE /\ n \in {0, off} /\ outcome \in {"SenderSkip", "nil"} /\ r.state = "Data"
           /\ Handled(p, tx[p], closing(r, n), dev[p], <<Ctl("EOFACK")>>)
           /\ rDone' = IF r.open THEN Complete(rDone, r.file, outcome) ELSE rDone
           /\ opened' = opened
  <2> DEFINE w == closing(r, n)
  <2>1. n \in Int /\ outcome \in Outcome
    BY <1>2, <1>8 DEF Outcome
  <2>2. w \in RxType
    BY <1>2, <2>1, ClosingKeeps
  <2>3. SameRx(w, [r EXCEPT !.open = FALSE, !.state = "Finfo"])
    BY <1>2 DEF closing, SameRx, RxType
  <2>4. RxStep(k, r, w, rDone, rDone')
    BY <1>2, <1>8, <2>1, <2>3 DEF RxStep
  <2>5. Handled(p, tx[p], w, dev[p], <<Ctl("EOFACK")>>) /\ Opens(w)
    BY <1>8 DEF Opens
  <2> HIDE DEF w
  <2>6. RxMove(p, k, tx[p], w, <<Ctl("EOFACK")>>)
    BY <1>3, <1>4, <2>4, <2>5 DEF RxMove
  <2> QED
    BY <1>2, <1>4, <2>2, <2>6
<1> QED
  BY <1>5, <1>6, <1>7, <1>8

\* What the other's sender writes.
LEMMA RxMoves ==
  ASSUME SentInv, NEW p \in Peer, rxFinfo(p) \/ acceptFinfo(p) \/ rxData(p) \/ rxEOF(p)
  PROVE  /\ Hears(p, Head(net[p]).t) /\ Head(net[p]).t \in {"FINFO", "DATA", "EOF"}
         /\ \E t \in TxType : \E v \in RxType : \E out \in Seq(Packet) :
               RxMove(p, Head(net[p]), t, v, out)
<1>1. \E type \in {"FINFO", "DATA", "EOF"} : Hears(p, type)
  BY DEF rxFinfo, acceptFinfo, rxData, rxEOF
<1> QED
  BY <1>1, FinfoMoves, DataMoves, EofMoves DEF Hears

\* How an answer moves the sender: not at all; within a file; past the FINFO,
\* into the file or beyond it; past the file's EOF.
TxMove(t, u) ==
    \/ SameFile(u, t) /\ u.state = t.state
    \/ SameFile(u, t) /\ u.state \in Transferring /\ t.state \in Transferring
    \/ /\ t.state \in {"Finfo", "FinfoAck"} /\ t.lastFinfo # NoFile
       /\ u.next = t.next /\ u.lastFinfo = NoFile
       /\ \/ u.state = "Finfo" /\ u.offer = NoFile
          \/ u.state \in {"Xdata", "EOF"} /\ u.offer = t.offer /\ ~t.eob
          \/ u.state = "Rend" /\ t.eob
    \/ /\ t.state \in {"EOF", "EOFAck"} /\ u.state = "Finfo"
       /\ u.next = t.next /\ u.lastFinfo = NoFile /\ u.offer = NoFile

\* FINFOACK.
LEMMA FinfoAckMoves ==
  ASSUME NEW p \in Peer, NEW t \in TxType, TxShape(p, t), finfoAckHeeded(t),
         NEW off \in Int, NEW u, u = onFinfoAck(t, off)
  PROVE  u \in TxType /\ TxMove(t, u)
<1> DEFINE a == acked(t)
           b == resumed(a, off)
<1>1. /\ a \in TxType /\ a.offer = t.offer /\ a.next = t.next /\ a.eob = t.eob
      /\ a.state = t.state
  BY AckedKeeps
<1>2. a.lastFinfo = NoFile
  BY DEF acked, TxType
<1>3. t.state \in {"Finfo", "FinfoAck"} /\ t.lastFinfo # NoFile
  BY DEF finfoAckHeeded, TxShape
<1>4. "Rend" \in TxState /\ "Range" \in Outcome
  BY DEF TxState, Outcome
<1>5. \/ t.eob /\ u = Await(a, "Rend")
      \/ u = finishTxFile(a)
      \/ ~t.eob /\ u = skipFile(a, "Range")
      \/ ~t.eob /\ off >= 0 /\ u = skipFile(b, "Range")
      \/ ~t.eob /\ off >= 0 /\ u = b
  <2>1. CASE t.eob
    BY <2>1 DEF onFinfoAck
  <2>2. CASE ~t.eob /\ off < 0
    BY <2>2 DEF onFinfoAck
  <2>3. CASE ~t.eob /\ off >= 0
    <3>1. ~(off < 0)
      BY <2>3
    <3> QED
      BY <2>3, <3>1 DEF onFinfoAck
  <2> QED
    BY <2>1, <2>2, <2>3
<1> HIDE DEF a
<1>6. CASE t.eob /\ u = Await(a, "Rend")
  <2>1. u \in TxType /\ SameFile(u, a) /\ u.state = "Rend"
    BY <1>1, <1>4, <1>6, AwaitKeeps
  <2> QED
    BY <1>1, <1>2, <1>3, <1>6, <2>1 DEF SameFile, TxMove
<1>7. CASE u = finishTxFile(a)
  <2>1. /\ u \in TxType /\ u.offer = NoFile /\ u.next = a.next
        /\ u.lastFinfo = NoFile /\ u.state = "Finfo"
    BY <1>1, <1>7, FinishTxFileKeeps
  <2> QED
    BY <1>1, <1>3, <2>1 DEF TxMove
<1>8. CASE ~t.eob /\ u = skipFile(a, "Range")
  <2>1. u \in TxType /\ SameFile(u, a) /\ u.state = "EOF"
    BY <1>1, <1>4, <1>8, SkipFileKeeps
  <2> QED
    BY <1>1, <1>2, <1>3, <1>8, <2>1 DEF SameFile, TxMove
<1>9. CASE ~t.eob /\ off >= 0 /\ (u = skipFile(b, "Range") \/ u = b)
  <2>1. off \in Nat
    BY <1>9
  <2>2. b \in TxType /\ SameFile(b, a) /\ b.state = "Xdata"
    BY <1>1, <2>1, ResumedKeeps
  <2> HIDE DEF b
  <2>3. u \in TxType /\ SameFile(u, b) /\ u.state \in {"Xdata", "EOF"}
    <3>1. CASE u = b
      BY <3>1, <2>2 DEF SameFile
    <3>2. CASE u = skipFile(b, "Range")
      BY <3>2, <2>2, <1>4, SkipFileKeeps
    <3> QED
      BY <1>9, <3>1, <3>2
  <2> QED
    BY <1>1, <1>2, <1>3, <1>9, <2>2, <2>3 DEF SameFile, TxMove
<1> QED
  BY <1>5, <1>6, <1>7, <1>8, <1>9

\* DATAACK.
LEMMA DataAckMoves ==
  ASSUME NEW t \in TxType, NEW off \in Int, NEW u, u = onDataAck(t, off)
  PROVE  u \in TxType /\ TxMove(t, u)
<1> DEFINE a == ackedTo(t, off)
<1>1. a \in TxType /\ SameFile(a, t) /\ a.state = t.state
  BY AckedToKeeps
<1>2. \/ u = t
      \/ u = Advance(a, "Xdata") /\ t.state = "DataAck"
      \/ u = a
  BY DEF onDataAck
<1> HIDE DEF a
<1>3. CASE u = t
  BY <1>3 DEF SameFile, TxMove
<1>4. CASE u = a
  BY <1>1, <1>4 DEF TxMove
<1>5. CASE u = Advance(a, "Xdata") /\ t.state = "DataAck"
  <2>1. "Xdata" \in TxState
    BY DEF TxState
  <2>2. u \in TxType /\ SameFile(u, a) /\ u.state = "Xdata"
    BY <1>1, <1>5, <2>1, AdvanceKeeps
  <2>3. SameFile(u, t)
    BY <1>1, <2>2 DEF SameFile
  <2> QED
    BY <1>5, <2>2, <2>3 DEF TxMove, Transferring
<1> QED
  BY <1>2, <1>3, <1>4, <1>5

\* RPOS.
LEMMA RposMoves ==
  ASSUME NEW t \in TxType, t.state \in Transferring,
         NEW k \in Packet, k.t = "RPOS", NEW u, u = onRpos(t, k)
  PROVE  u \in TxType /\ TxMove(t, u)
<1> DEFINE a == resync(t, k)
           e == IF t.err = "nil" THEN "Skip" ELSE t.err
<1>1. k.f \in File \cup {NoFile} /\ k.off \in Int
  BY DEF Packet
<1>2. a \in TxType /\ SameFile(a, t) /\ a.state = t.state
  BY <1>1, ResyncKeeps
<1>3. e \in Outcome /\ "Range" \in Outcome
  BY DEF Outcome, TxType
<1>4. \/ u = skipFile(a, e)
      \/ u = skipFile(a, "Range")
      \/ u = moved(a, k.off) /\ k.off >= 0
  BY <1>1 DEF onRpos
<1> HIDE DEF a, e
<1>5. u \in TxType /\ SameFile(u, a) /\ u.state \in Transferring
  <2>1. CASE u = skipFile(a, e)
    BY <2>1, <1>2, <1>3, SkipFileKeeps DEF Transferring
  <2>2. CASE u = skipFile(a, "Range")
    BY <2>2, <1>2, <1>3, SkipFileKeeps DEF Transferring
  <2>3. CASE u = moved(a, k.off) /\ k.off >= 0
    <3>1. k.off \in Nat
      BY <2>3, <1>1
    <3> QED
      BY <2>3, <3>1, <1>2, MovedKeeps DEF Transferring
  <2> QED
    BY <1>4, <2>1, <2>2, <2>3
<1>6. SameFile(u, t)
  BY <1>2, <1>5 DEF SameFile
<1> QED
  BY <1>5, <1>6 DEF TxMove

\* What the other's receiver writes.
LEMMA TxMoves ==
  ASSUME SentInv, NEW p \in Peer,
         txFinfoAck(p) \/ txDataAck(p) \/ txRpos(p) \/ txEOFAck(p)
  PROVE  /\ Hears(p, Head(net[p]).t) /\ Head(net[p]).t \in Answer
         /\ \/ Finish(p, "err", tx[p], rx[p], dev[p], <<>>)
            \/ /\ rDone' = rDone /\ opened' = opened
               /\ \E u \in TxType : TxMove(tx[p], u) /\ Handled(p, u, rx[p], dev[p], <<>>)
<1> DEFINE t == tx[p]
           k == Head(net[p])
<1>1. \E type \in Answer : Hears(p, type)
  BY DEF txFinfoAck, txDataAck, txRpos, txEOFAck, Answer
<1>2. Hears(p, k.t) /\ k.t \in Answer
  BY <1>1 DEF Hears
<1>3. t \in TxType /\ TxShape(p, t) /\ k \in Packet /\ k.off \in Int
  BY <1>2, Hearing
<1>4. t \in TxType /\ TxMove(t, t)
  BY <1>3 DEF TxMove, SameFile
<1>5. \/ Finish(p, "err", t, rx[p], dev[p], <<>>)
      \/ /\ rDone' = rDone /\ opened' = opened
         /\ \E u \in TxType : TxMove(t, u) /\ Handled(p, u, rx[p], dev[p], <<>>)
  <2>1. CASE txFinfoAck(p)
    <3>1. /\ Handled(p, IF finfoAckHeeded(t) THEN onFinfoAck(t, k.off) ELSE t, rx[p], dev[p], <<>>)
          /\ rDone' = rDone /\ opened' = opened
      BY <2>1 DEF txFinfoAck
    <3>2. CASE finfoAckHeeded(t)
      <4>1. Handled(p, onFinfoAck(t, k.off), rx[p], dev[p], <<>>)
        BY <3>1, <3>2
      <4> QED
        BY <1>3, <3>1, <3>2, <4>1, FinfoAckMoves
    <3>3. CASE ~finfoAckHeeded(t)
      <4>1. Handled(p, t, rx[p], dev[p], <<>>)
        BY <3>1, <3>3
      <4> QED
        BY <1>4, <3>1, <4>1
    <3> QED
      BY <3>2, <3>3
  <2>2. CASE txDataAck(p)
    <3>1. Handled(p, onDataAck(t, k.off), rx[p], dev[p], <<>>) /\ rDone' = rDone /\ opened' = opened
      BY <2>2 DEF txDataAck, files
    <3> QED
      BY <1>3, <3>1, DataAckMoves
  <2>3. CASE txRpos(p)
    <3>1. \/ Finish(p, "err", t, rx[p], dev[p], <<>>)
          \/ /\ t.retries < MaxRetries /\ rDone' = rDone /\ opened' = opened
             /\ Handled(p, [t EXCEPT !.retries = @ + 1], rx[p], dev[p], <<>>)
          \/ Handled(p, t, rx[p], dev[p], <<>>) /\ rDone' = rDone /\ opened' = opened
          \/ /\ t.state \in Transferring /\ k.t = "RPOS" /\ rDone' = rDone /\ opened' = opened
             /\ Handled(p, onRpos(t, k), rx[p], dev[p], <<>>)
      BY <2>3 DEF txRpos, files, Hears
    <3>2. CASE /\ t.retries < MaxRetries /\ rDone' = rDone /\ opened' = opened
               /\ Handled(p, [t EXCEPT !.retries = @ + 1], rx[p], dev[p], <<>>)
      <4> DEFINE u == [t EXCEPT !.retries = @ + 1]
      <4>1. u \in TxType /\ SameFile(u, t) /\ u.state = t.state
        BY <1>3, <3>2, RetriesKeeps
      <4>2. Handled(p, u, rx[p], dev[p], <<>>)
        BY <3>2
      <4> HIDE DEF u
      <4> QED
        BY <3>2, <4>1, <4>2 DEF TxMove
    <3>3. CASE /\ t.state \in Transferring /\ k.t = "RPOS" /\ rDone' = rDone /\ opened' = opened
               /\ Handled(p, onRpos(t, k), rx[p], dev[p], <<>>)
      BY <1>3, <3>3, RposMoves
    <3> QED
      BY <1>4, <3>1, <3>2, <3>3
  <2>4. CASE txEOFAck(p)
    <3>1. /\ Handled(p, IF eofAckHeeded(t) THEN finishTxFile(t) ELSE t, rx[p], dev[p], <<>>)
          /\ rDone' = rDone /\ opened' = opened
      BY <2>4 DEF txEOFAck
    <3>2. CASE eofAckHeeded(t)
      <4> DEFINE u == finishTxFile(t)
      <4>1. /\ u \in TxType /\ u.offer = NoFile /\ u.next = t.next
            /\ u.lastFinfo = NoFile /\ u.state = "Finfo"
        BY <1>3, FinishTxFileKeeps
      <4>2. Handled(p, u, rx[p], dev[p], <<>>)
        BY <3>1, <3>2
      <4> HIDE DEF u
      <4> QED
        BY <3>1, <3>2, <4>1, <4>2 DEF TxMove, eofAckHeeded
    <3>3. CASE ~eofAckHeeded(t)
      <4>1. Handled(p, t, rx[p], dev[p], <<>>)
        BY <3>1, <3>3
      <4> QED
        BY <1>4, <3>1, <4>1
    <3> QED
      BY <3>2, <3>3
  <2> QED
    BY <2>1, <2>2, <2>3, <2>4
<1> QED
  BY <1>2, <1>5

-----------------------------------------------------------------------------
(* The steps.                                                              *)

\* A peer is gated by what it already is.
LEMMA SameGate ==
  ASSUME HandshakeInv, NEW p \in Peer, NEW t,
         t.state \notin Early => tx[p].state \notin Early,
         t.state \notin BeforeFinfo => tx[p].state \notin BeforeFinfo,
         NEW out, \A k \in Among(out) : /\ k.t # "INITACK"
                                        /\ k.t \notin Fixed => tx[p].state \notin BeforeFinfo
  PROVE  Gated(p, t, rx[p], out)
<1>1. Early \subseteq BeforeFinfo
  BY DEF Early, BeforeFinfo
<1> QED
  BY <1>1 DEF HandshakeInv, Gated, Knows

\* The event loop's passes.
LEMMA LoopFlips ==
  ASSUME SentInv, HandshakeInv, NEW p \in Peer, Loop(p) \/ fireTimers(p)
  PROVE  HandshakeInv'
<1>0. /\ tx[p] \in TxType /\ rx[p] \in RxType /\ dev[p] \in DevType
      /\ net \in [Peer -> Seq(Packet)]
  BY DEF SentInv, TypeOK, MachinesOK
<1>1. <<>> \in Seq(Packet) /\ Among(<<>>) = {}
  BY AmongFew
<1>2. CASE Finish(p, "err", tx[p], rx[p], dev[p], <<>>)
  <2>1. Gated(p, tx[p], rx[p], <<>>)
    BY <1>1, SameGate
  <2> QED
    BY <1>0, <1>1, <1>2, <2>1, FinishGated
<1>3. CASE /\ tx[p].state = "EndAck"
           /\ Finish(p, "ok", [tx[p] EXCEPT !.state = "Done"], rx[p], dev[p], <<>>)
  <2> DEFINE u == [tx[p] EXCEPT !.state = "Done"]
  <2>1. u \in TxType
    BY <1>0, StateKeeps DEF TxState
  <2>2. tx[p].state \notin Early /\ tx[p].state \notin BeforeFinfo
    BY <1>3 DEF Early, BeforeFinfo
  <2>3. Finish(p, "ok", u, rx[p], dev[p], <<>>)
    BY <1>3
  <2> HIDE DEF u
  <2>4. Gated(p, u, rx[p], <<>>)
    BY <1>1, <2>2, SameGate
  <2> QED
    BY <1>0, <1>1, <2>1, <2>3, <2>4, FinishGated
<1>4. ASSUME NEW t \in TxType, NEW d \in DevType, NEW pre \in {<<>>, <<Ctl("IDLE")>>},
             Rewound(t, tx[p]), TxShape(p, t), Pass(p, t, d, pre)
      PROVE  HandshakeInv'
  <2>1. PICK u \in TxType, out \in Seq(Packet) :
          Sent(p, t, d, u, pre, out) /\ PassStep(p, t, u, out)
    BY <1>4, PassMoves
  <2>2. /\ t.state \notin Early => tx[p].state \notin Early
        /\ t.state \notin BeforeFinfo => tx[p].state \notin BeforeFinfo
    BY <1>4 DEF Rewound, Early, BeforeFinfo, Transferring, FromEnd
  <2>3. /\ u.state \notin Early => t.state \notin Early
        /\ u.state \notin BeforeFinfo => t.state \notin BeforeFinfo
    BY <2>1 DEF PassStep, Early, BeforeFinfo
  <2>4. \A k \in Among(out) : k.t # "INITACK" /\ (k.t \notin Fixed => t.state \notin BeforeFinfo)
    <3>1. /\ Ctl("START").t = "START" /\ Ctl("INIT").t = "INIT" /\ Ctl("END").t = "END"
          /\ \A f, off, n, id : Pkt("FINFO", f, off, n, id).t = "FINFO"
          /\ \A f, off, n, id : Pkt("DATA", f, off, n, id).t = "DATA"
          /\ \A off : OffPkt("EOF", off).t = "EOF"
      BY DEF Ctl, OffPkt, Pkt
    <3>2. \/ \E k : out \in {<<k>>, <<k, k>>} /\ k.t \in {"START", "INIT", "END"}
          \/ \E k : out = <<k>> /\ k.t \in {"FINFO", "DATA", "EOF"} /\ t.state \notin BeforeFinfo
          \/ out = <<>>
      BY <2>1, <3>1 DEF PassStep, BeforeFinfo
    <3> QED
      BY <3>2, AmongFew DEF Fixed
  <2> DEFINE w == devSends(t, d)
  <2>5. w \in Seq(Packet) /\ \A k \in Among(w) : k.t = "DEVDATA" /\ t.state \notin BeforeFinfo
    <3>1. w \in Seq(Packet)
      BY <1>4, DevActionKeeps
    <3>2. w = <<>> \/ \E id, n : w = <<Pkt("DEVDATA", NoFile, n, 0, id)>> /\ t.state \notin BeforeFinfo
      BY DEF devSends, devEligible
    <3>3. \A n, id : Pkt("DEVDATA", NoFile, n, 0, id).t = "DEVDATA"
      BY DEF Pkt
    <3> QED
      BY <3>1, <3>2, <3>3, AmongFew
  <2>6. pre \in Seq(Packet) /\ \A k \in Among(pre) : k.t = "IDLE"
    <3>1. "IDLE" \in PlainType /\ Ctl("IDLE").t = "IDLE"
      BY DEF PktType, PlainType, Ctl, Pkt
    <3>2. Ctl("IDLE") \in Packet
      BY <3>1, ControlPacket
    <3>3. pre = <<>> \/ pre = <<Ctl("IDLE")>>
      BY <1>4
    <3>4. <<>> \in Seq(Packet) /\ <<Ctl("IDLE")>> \in Seq(Packet)
      BY <3>2
    <3>5. pre \in Seq(Packet)
      BY <3>3, <3>4, Zenon
    <3> QED
      BY <3>1, <3>3, <3>5, AmongFew
  <2>7. Continue(p, net, u, rx[p], devAction(t, d), pre \o w \o out)
    BY <2>1 DEF Sent
  <2> HIDE DEF w
  <2>8. pre \o w \in Seq(Packet) /\ (pre \o w) \o out \in Seq(Packet)
    BY <2>1, <2>5, <2>6
  <2>9. Among(pre \o w \o out) = Among(pre) \cup Among(w) \cup Among(out)
    <3>1. Among(pre \o w) = Among(pre) \cup Among(w)
      BY <2>5, <2>6, AmongConcat
    <3>2. Among((pre \o w) \o out) = Among(pre \o w) \cup Among(out)
      BY <2>1, <2>8, AmongConcat
    <3> QED
      BY <3>1, <3>2
  <2>10. \A k \in Among(pre \o w \o out) :
            k.t # "INITACK" /\ (k.t \notin Fixed => tx[p].state \notin BeforeFinfo)
    BY <2>2, <2>4, <2>5, <2>6, <2>9 DEF Fixed
  <2>11. Gated(p, u, rx[p], pre \o w \o out)
    BY <2>2, <2>3, <2>10, SameGate
  <2> QED
    BY <1>0, <2>7, <2>8, <2>11, ContinueGated
<1> QED
  BY <1>2, <1>3, <1>4, LoopMoves

\* START, INIT, INITACK, IDLE and END.
LEMMA HandshakeFlips ==
  ASSUME SentInv, HandshakeInv, NEW p \in Peer,
         handleStart(p) \/ rxInit(p) \/ handleInitAck(p) \/ txIdle(p) \/ txEnd(p)
  PROVE  HandshakeInv'
<1>0. /\ tx[p] \in TxType /\ rx[p] \in RxType /\ dev[p] \in DevType
      /\ net \in [Peer -> Seq(Packet)] /\ net[p] \in Seq(Packet)
  BY DEF SentInv, TypeOK, MachinesOK
<1>1. <<>> \in Seq(Packet) /\ Among(<<>>) = {}
  BY AmongFew
<1>2. "Init" \in TxState /\ "Rinit" \in TxState /\ "Xdata" \in TxState
  BY DEF TxState
<1>3. CASE handleStart(p)
  <2>1. PICK t : /\ Hears(p, "START") /\ Handled(p, t, rx[p], dev[p], <<>>)
                 /\ \/ t = tx[p]
                    \/ tx[p].state \in {"Start", "Swait"} /\ t = Advance(tx[p], "Init")
    BY <1>3 DEF handleStart
  <2>2. t \in TxType /\ (t.state = tx[p].state \/ t.state = "Init")
    BY <2>1, <1>0, <1>2, AdvanceKeeps
  <2>3. Gated(p, t, rx[p], <<>>)
    BY <1>1, <2>2, SameGate DEF Early, BeforeFinfo
  <2> QED
    BY <1>0, <1>1, <2>1, <2>2, <2>3, HandledGated
<1>4. CASE rxInit(p)
  <2> DEFINE out == <<Ctl("INITACK")>>
  <2>1. PICK t, r : /\ Hears(p, "INIT") /\ Handled(p, t, r, dev[p], out)
                    /\ t = tx[p] \/ t = [tx[p] EXCEPT !.window = Window[p]]
                    /\ \/ rx[p].state = "Init" /\ r = [rx[p] EXCEPT !.state = "Finfo"]
                       \/ rx[p].state # "Init" /\ r = rx[p]
    BY <1>4 DEF rxInit
  <2>2. t \in TxType /\ t.state = tx[p].state
    <3>1. Window[p] \in Nat
      BY BoundAssumption
    <3> QED
      BY <2>1, <3>1, <1>0, WindowKeeps
  <2>3. r.state # "Init"
    BY <2>1, <1>0 DEF RxType
  <2>4. out \in Seq(Packet) /\ \A k \in Among(out) : k.t = "INITACK"
    <3>1. "INITACK" \in PlainType /\ Ctl("INITACK").t = "INITACK"
      BY DEF PktType, PlainType, Ctl, Pkt
    <3>2. Ctl("INITACK") \in Packet
      BY <3>1, ControlPacket
    <3> QED
      BY <3>1, <3>2, AmongFew
  <2> HIDE DEF out
  <2>5. Gated(p, t, r, out)
    BY <2>2, <2>3, <2>4 DEF Gated, Fixed, HandshakeInv
  <2> QED
    BY <2>1, <2>2, <2>4, <2>5, HandledGated
<1>5. CASE handleInitAck(p)
  <2>1. PICK t : /\ Hears(p, "INITACK") /\ Handled(p, t, rx[p], dev[p], <<>>)
                 /\ \/ t = tx[p]
                    \/ tx[p].state \in {"Init", "InitAck"} /\ t = Advance(tx[p], "Rinit")
    BY <1>5 DEF handleInitAck
  <2>2. t \in TxType /\ (t.state = tx[p].state \/ t.state = "Rinit")
    BY <2>1, <1>0, <1>2, AdvanceKeeps
  <2>3. Knows(Other(p))
    <3>1. Head(net[p]) \in Among(net[p]) /\ Head(net[p]).t = "INITACK"
      BY <2>1, <1>0, AmongTail DEF Hears
    <3> QED
      BY <3>1 DEF HandshakeInv
  <2>4. t.state \notin BeforeFinfo => rx[p].state # "Init"
    BY <2>2 DEF HandshakeInv, Knows, BeforeFinfo
  <2>5. Gated(p, t, rx[p], <<>>)
    BY <1>1, <2>3, <2>4 DEF Gated, Knows
  <2> QED
    BY <1>0, <1>1, <2>1, <2>2, <2>5, HandledGated
<1>6. CASE txIdle(p)
  <2>1. PICK t : /\ Hears(p, "IDLE") /\ Handled(p, t, rx[p], dev[p], <<>>)
                 /\ \/ t = tx[p]
                    \/ /\ tx[p].state = "Xwait"
                       /\ t = [Advance(tx[p], "Xdata") EXCEPT !.hdxlink = FALSE]
    BY <1>6 DEF txIdle
  <2>2. t \in TxType /\ (t.state = tx[p].state \/ tx[p].state = "Xwait")
    <3>1. CASE t = tx[p]
      BY <3>1, <1>0
    <3>2. CASE /\ tx[p].state = "Xwait"
               /\ t = [Advance(tx[p], "Xdata") EXCEPT !.hdxlink = FALSE]
      <4> DEFINE u == Advance(tx[p], "Xdata")
      <4>1. u \in TxType
        BY <1>0, <1>2, AdvanceKeeps
      <4>2. t = [u EXCEPT !.hdxlink = FALSE]
        BY <3>2
      <4> HIDE DEF u
      <4> QED
        BY <3>2, <4>1, <4>2, HdxlinkKeeps
    <3> QED
      BY <2>1, <3>1, <3>2
  <2>3. Gated(p, t, rx[p], <<>>)
    BY <1>1, <2>2, SameGate DEF Early, BeforeFinfo
  <2> QED
    BY <1>0, <1>1, <2>1, <2>2, <2>3, HandledGated
<1>7. CASE txEnd(p)
  <2> DEFINE u == [tx[p] EXCEPT !.timer = FALSE, !.state = "Done"]
             out == <<Ctl("END"), Ctl("END"), Ctl("END")>>
  <2>1. /\ Hears(p, "END")
        /\ \/ tx[p].state \in {"End", "EndAck"} /\ Finish(p, "ok", u, rx[p], dev[p], out)
           \/ Handled(p, tx[p], rx[p], dev[p], <<>>)
    BY <1>7 DEF txEnd
  <2>2. CASE Handled(p, tx[p], rx[p], dev[p], <<>>)
    <3>1. Gated(p, tx[p], rx[p], <<>>)
      BY <1>1, SameGate
    <3> QED
      BY <1>0, <1>1, <2>1, <2>2, <3>1, HandledGated
  <2>3. CASE tx[p].state \in {"End", "EndAck"} /\ Finish(p, "ok", u, rx[p], dev[p], out)
    <3>1. u \in TxType
      BY <1>0, DoneKeeps
    <3>2. out \in Seq(Packet) /\ \A k \in Among(out) : k.t = "END"
      <4>1. "END" \in PlainType /\ Ctl("END").t = "END"
        BY DEF PktType, PlainType, Ctl, Pkt
      <4>2. Ctl("END") \in Packet
        BY <4>1, ControlPacket
      <4> QED
        BY <4>1, <4>2, AmongFew
    <3> HIDE DEF u, out
    <3>3. Gated(p, u, rx[p], out)
      BY <2>3, <3>2, SameGate DEF Early, BeforeFinfo, Fixed
    <3> QED
      BY <1>0, <2>3, <3>1, <3>2, <3>3, FinishGated
  <2> QED
    BY <2>1, <2>2, <2>3
<1> QED
  BY <1>3, <1>4, <1>5, <1>6, <1>7

\* Every packet whose format depends on the options.
LEMMA GatedPacketFlips ==
  ASSUME SentInv, HandshakeInv, NEW p \in Peer,
         \/ rxFinfo(p) \/ acceptFinfo(p) \/ rxData(p) \/ rxEOF(p)
         \/ txFinfoAck(p) \/ txDataAck(p) \/ txRpos(p) \/ txEOFAck(p)
         \/ devRx(p) \/ devDack(p)
  PROVE  HandshakeInv'
<1>0. tx[p] \in TxType /\ rx[p] \in RxType /\ dev[p] \in DevType
  BY DEF SentInv, TypeOK, MachinesOK
<1>1. <<>> \in Seq(Packet)
  OBVIOUS
<1>2. CASE rxFinfo(p) \/ acceptFinfo(p) \/ rxData(p) \/ rxEOF(p)
  <2> DEFINE k == Head(net[p])
  <2>1. /\ Hears(p, k.t) /\ k.t \in {"FINFO", "DATA", "EOF"}
        /\ \E t \in TxType : \E v \in RxType : \E out \in Seq(Packet) : RxMove(p, k, t, v, out)
    BY <1>2, RxMoves
  <2>2. PICK t \in TxType, v \in RxType, out \in Seq(Packet) : RxMove(p, k, t, v, out)
    BY <2>1
  <2>3. Knows(p) /\ Knows(Other(p))
    BY <2>1, FlippedHeard DEF Fixed
  <2>4. v.state # "Init"
    <3>1. RxStep(k, rx[p], v, rDone, rDone') \/ SameRx(v, rx[p])
      BY <2>2 DEF RxMove
    <3>2. \A s : [rx[p] EXCEPT !.state = s].state = s
      BY <1>0 DEF RxType
    <3>3. \A f : [rx[p] EXCEPT !.refused = f].state = rx[p].state
      BY <1>0 DEF RxType
    <3>4. /\ [rx[p] EXCEPT !.open = FALSE].state = rx[p].state
          /\ [rx[p] EXCEPT !.open = FALSE, !.state = "Finfo"].state = "Finfo"
      BY <1>0 DEF RxType
    <3> QED
      BY <2>3, <3>1, <3>2, <3>3, <3>4 DEF RxStep, SameRx, Knows
  <2>5. Gated(p, t, v, out)
    BY <2>3, <2>4, BothKnow
  <2>6. Handled(p, t, v, dev[p], out) \/ Finish(p, "err", t, v, dev[p], out)
    BY <2>2 DEF RxMove
  <2> QED
    BY <2>1, <2>5, <2>6, HandledGated, FinishGated
<1>3. CASE txFinfoAck(p) \/ txDataAck(p) \/ txRpos(p) \/ txEOFAck(p)
  <2> DEFINE k == Head(net[p])
  <2>1. /\ Hears(p, k.t) /\ k.t \in Answer
        /\ \/ Finish(p, "err", tx[p], rx[p], dev[p], <<>>)
           \/ \E u \in TxType : TxMove(tx[p], u) /\ Handled(p, u, rx[p], dev[p], <<>>)
    BY <1>3, TxMoves
  <2>2. Knows(p) /\ Knows(Other(p))
    BY <2>1, FlippedHeard DEF Fixed, Answer
  <2>3. \A u : Gated(p, u, rx[p], <<>>)
    BY <2>2, BothKnow DEF Knows
  <2> QED
    BY <1>0, <1>1, <2>1, <2>3, HandledGated, FinishGated
<1>4. CASE devRx(p) \/ devDack(p)
  <2>1. PICK type, d, out :
          /\ Hears(p, type) /\ type \in {"DEVDATA", "DEVDACK"}
          /\ Handled(p, tx[p], rx[p], d, out)
          /\ \/ out = <<Pkt("DEVDACK", NoFile, 0, 0, Head(net[p]).id)>>
             \/ out = <<>>
    BY <1>4 DEF devRx, devDack
  <2>2. Head(net[p]).id \in Nat
    BY <2>1, Hearing
  <2>3. out \in Seq(Packet)
    BY <1>1, <2>1, <2>2, DackPacket
  <2>4. Knows(p) /\ Knows(Other(p))
    BY <2>1, FlippedHeard DEF Fixed
  <2>5. Gated(p, tx[p], rx[p], out)
    BY <2>4, BothKnow DEF Knows
  <2> QED
    BY <1>0, <2>1, <2>3, <2>5, HandledGated
<1> QED
  BY <1>2, <1>3, <1>4

\* A packet lost, the application's calls, and a Run ended from outside.
LEMMA OutsideFlips ==
  ASSUME SentInv, HandshakeInv, NEW p \in Peer,
         SendDevice(p) \/ queueDev(p) \/ Corrupt(p) \/ Fail(p)
  PROVE  HandshakeInv'
<1>1. CASE SendDevice(p) \/ queueDev(p)
  BY <1>1 DEF SendDevice, queueDev, HandshakeInv, Knows, Among
<1>2. CASE Corrupt(p)
  <2>1. MachinesOK /\ Other(p) \in Peer /\ Other(p) # p
    BY TheOther DEF SentInv, TypeOK
  <2>2. net \in [Peer -> Seq(Packet)]
    BY <2>1 DEF MachinesOK
  <2>3. net'[p] = Tail(net[p]) /\ net'[Other(p)] = net[Other(p)] /\ net[p] # <<>>
    BY <1>2, <2>1, <2>2 DEF Corrupt, Taken
  <2>4. Among(net'[p]) \subseteq Among(net[p])
    BY <2>2, <2>3, AmongTail
  <2>5. \A q \in Peer : Among(net'[q]) \subseteq Among(net[q])
    BY <2>3, <2>4, TheOther
  <2>6. tx' = tx /\ rx' = rx
    BY <1>2 DEF Corrupt
  <2> QED
    BY <2>5, <2>6 DEF HandshakeInv, Knows
<1>3. CASE Fail(p)
  <2>1. PICK result : Finish(p, result, tx[p], rx[p], dev[p], <<>>)
    BY <1>3 DEF Fail
  <2>2. tx[p] \in TxType /\ rx[p] \in RxType /\ <<>> \in Seq(Packet) /\ Among(<<>>) = {}
    BY AmongFew DEF SentInv, TypeOK, MachinesOK
  <2>3. Gated(p, tx[p], rx[p], <<>>)
    BY <2>2, SameGate
  <2> QED
    BY <2>1, <2>2, <2>3, FinishGated
<1> QED
  BY <1>1, <1>2, <1>3

-----------------------------------------------------------------------------
(* The theorem.                                                            *)

\* Nothing is on the wire and nobody is past the handshake when both start.
LEMMA InitHandshake == Init => HandshakeInv
<1> SUFFICES ASSUME Init PROVE HandshakeInv
  OBVIOUS
<1>1. \A p \in Peer : tx[p].state = "Start" /\ net[p] = <<>>
  BY DEF Init, newTx
<1> QED
  BY <1>1, AmongFew DEF HandshakeInv, Early, BeforeFinfo

\* Every step keeps it.
LEMMA NextHandshake == SentInv /\ HandshakeInv /\ [Next]_vars => HandshakeInv'
<1> SUFFICES ASSUME SentInv, HandshakeInv, [Next]_vars PROVE HandshakeInv'
  OBVIOUS
<1>1. CASE UNCHANGED vars
  BY <1>1 DEF vars, HandshakeInv, Knows, Among
<1>2. ASSUME NEW p \in Peer, Loop(p) \/ fireTimers(p) \/ handlePacket(p)
      PROVE  HandshakeInv'
  BY <1>2, LoopFlips, HandshakeFlips, GatedPacketFlips DEF handlePacket
<1>3. ASSUME NEW p \in Peer, SendDevice(p) \/ queueDev(p) \/ Corrupt(p) \/ Fail(p)
      PROVE  HandshakeInv'
  BY <1>3, OutsideFlips
<1> QED
  BY <1>1, <1>2, <1>3 DEF Next, Over

\* A packet outside the handshake is a witness for both ends.
LEMMA HandshakeImplies == HandshakeInv => ModesFlipped
<1> SUFFICES ASSUME HandshakeInv, NEW p \in Peer, NEW i \in 1..Len(net[p]),
                    net[p][i].t \notin Fixed
             PROVE  \A q \in Peer : rx[q].state # "Init"
  BY DEF ModesFlipped, Fixed
<1>1. net[p][i] \in Among(net[p])
  BY DEF Among
<1>2. Knows(p) /\ Knows(Other(p))
  BY <1>1 DEF HandshakeInv
<1> QED
  BY <1>2, TheOther DEF Knows

\* The RINIT gate holds (txAction's wait in htxRinit, sync): no packet whose
\* format depends on the negotiated options, the device channel's included,
\* is on the wire before both ends have processed the other's INIT, whatever
\* is lost, repeated or late, for every choice of the constants.
THEOREM RinitGateHolds == Spec => []ModesFlipped
<1>1. Spec => []HandshakeInv
  BY InitHandshake, NextHandshake, Invariance, PTL DEF Spec
<1> QED
  BY <1>1, HandshakeImplies, PTL

=============================================================================
