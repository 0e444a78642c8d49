# go-hydra in TLA+

go-hydra is a Go library for the FidoNet *Hydra* protocol: a bidirectional file
transfer over one byte stream, in which both ends send and receive at the same
time, with a datagram channel multiplexed in.  This directory holds TLA+ modules
of its protocol engine, TLC configurations that check them on small instances,
and TLAPS proofs about them.

## The system

| Component | Code | State | Operations |
|---|---|---|---|
| TX machine | `tx.go`, `session.go` | 16-state cursor `txState`, offer, position, window, retry counter, timer, cached FINFO, two "ack awaited" flags | `txAction` per state, handlers of FINFOACK, DATAACK, RPOS, EOFACK, IDLE, END, `txTimeout` |
| RX machine | `rx.go` | `rxState`, open writer, position, resync id, rate limiter, last refusal | handlers of INIT, FINFO, DATA, EOF; `badPosition`; `rxCloseFile` |
| DEV machine | `dev.go` | one datagram in flight, queue, ids both ways | `SendDevice`, `queueDev`, `devAction`, `devTimeout`, `devRx`, `devDack` |
| Event loop | `session.go` | timers, `productive` | `run`, `pump`, `drain`, `fireTimers`, `sync`, `teardown` |
| Session | `session.go` | once-guards, first error, closer, reader goroutine | `Run`, `Abort`, `Close`, `courtesyCancel` |
| Inbox | `session.go` | mutex, queue, one-slot signal | `push`, `tryPop`, `kick`, `reset` |
| Negotiation | `rx.go`, `caps.go` | effective options, two windows, prefix | `negotiate`, `mergeWindow` |
| Block sizer | `blocksize.go` | current size, good-byte count and threshold | `good`, `rpos`, `ladder` |
| Framing | `reader.go`, `writer.go`, `encoding.go`, `crc.go` | DLE count, partial frame | `readPacket`, `writePacket`, encoders and decoders |
| Codecs | `packet.go`, `fileinfo.go` | none | marshal and parse of payloads |

A session runs one or more batches.  In a batch one goroutine runs the three
machines cooperatively: `run` repeats `devAction`, `txAction`, `sync`, then waits
in `pump` for a packet, a timer, a queued datagram, a read error, an abort or a
cancelled context; every packet handled is followed by `sync`.  The machines
share nothing with other goroutines except the inbox, which the reader goroutine
fills, the `devQ` channel and some atomics.  The two ends interact only through
packets: INIT/INITACK, FINFO/FINFOACK, DATA/DATAACK/RPOS, EOF/EOFACK,
DEVDATA/DEVDACK and the unacknowledged START, IDLE and END.

What is hard about it: each direction retransmits on timers, so answers arrive
twice or late, and the answers carry no identity; the machines of one end gate
each other (RINIT, one-way fallback, END); a file may end early for six reasons
while its packets are in flight; the batch ends without a last acknowledgement;
and the teardown completes whatever is half open.  What must hold in the end is
the handlers' contract of `hydra.go`: exactly one `FileCompleted` a file on each
side, with outcomes that agree, and a receiver's file that is the sender's.

## Modules

| Module | What it is |
|---|---|
| **HydraBatch** | one batch between two peers, both running this library |
| **FileDelivery** | abstract: what a batch promises the two applications; HydraBatch implements it |
| **PktInbox** | the queue between the reader goroutine and the event loop |
| **PacketFeed** | abstract: what the path from the transport to `handlePacket` promises |
| **HydraSession** | goroutines calling `Run`, `Abort`, `Close` and `SendDevice`, the reader, and PktInbox between them; implements PacketFeed |
| **BlockSizer** | the size of DATA blocks at a sender and its receiver |
| **Negotiation** | the INIT negotiation as operators on two configurations |
| **Encoding** | the four body encodings and the two CRCs as operators on bytes |
| **Packet** | payloads and frames, on top of Encoding |
| **HydraLink** | one direction of a link byte by byte, composing Negotiation and Packet with the reader |
| **MCHydraBatch, MCHydraSession, MCBlockSizer, MCHydraLink** | the constants of the model-checking runs |
| **HydraBatchProofs, ReceiverProofs, TransferSteps, TransferProofs, HydraSessionProofs, BlockSizerProofs, PacketProofs, HydraLinkProofs** | theorems, proved with TLAPS |

The modules cut the program where its state is cut.  HydraBatch takes from the
others that packets arrive in order and whole or not at all (HydraSession's
refinement of PacketFeed; HydraLink's Delivered), that both ends hold one
option set and that an end with a window has a peer that acknowledges (HydraLink's
OptionsAgree, WindowsServed), and that a block may have any length (BlockSizer).  HydraSession takes from HydraBatch that a
batch is busy, then ending, then done; HydraLink that nothing but HEX frames
crosses before both INITs are handled (HydraBatch's ModesFlipped).

### HydraBatch

`tx[p]`, `rx[p]`, `dev[p]` are peer `p`'s machines: records whose fields are those
fields of the Go `batch` that steer control, under their Go names (`txState` is
`tx[p].state`).  `net[p]` holds the packets on their way to `p`, its inbox
included: the transport is a byte stream, so packets stay in order, and a damaged
one is dropped by the reader's CRC check (`Corrupt`).  `res[p]` is what `Run`
returned.  `sDone`, `rDone`, `opened`, `got`, `devGot` record the calls made to the
application.

| Action | Code |
|---|---|
| `Loop` (one of `sendStart` ... `sendNothing`) | a pass of `run`: `devAction`, one case of `txAction`, `sync` |
| `fireTimers` | `fireTimers`, followed by the next pass |
| `handleStart`, `rxInit`, ..., `txEnd`, `devRx`, `devDack` | `handlePacket` for one packet type, followed by `sync` |
| `SendDevice`, `queueDev` | the application's call; `pump` or `drain` taking the request |
| `Fail` | `pump` returning an error, `endPhaseHangup`, and the deferred `teardown` |
| `Corrupt` | the link |

Every action ends in `Continue` (the Run goes on: `sync`, the writes) or `Finish`
(the Run returns: `teardown` completes an open receive file and a pending offer).

Abstractions.  File contents are sequences of units; a DATA block is any length
up to `MaxBlock` (the block sizer chooses lengths, nothing here depends on which).
The two ends' options are compatible and already merged (`Window`, `DevOn`).  A
timer is armed or not; see *Time*.  `SafeMax`, `MaxRetries` and `HdxBurst` (the
constant 4 in `badPosition`) are scaled down.  Files are pairwise distinct
announcements.  Of the failures of `Run`, the watchdog, the read error, the
peer's cancel, `Abort` and the context all become `Fail`, with `endPhaseHangup`
allowed to turn it into success.  A source in `NoSeek` stands for one that cannot
seek and for one whose Seek fails: both skip the file, the second with an error
of its own, which is not told apart.

Time.  `fireTimers` may expire a timer when nothing is on the wire and no peer has
work to do (`Quiet`), the assumption that a timeout is longer than a round trip;
in the states of `Hasty` it may also expire while the answer is under way.  The
rate limiter of `badPosition` may always have expired or not.

FileDelivery is the handlers' contract of `hydra.go` as a specification over the
calls alone: Accept, Write and Settle.  HydraBatch implements it with its histories
as they are (`told` is `sDone`, `heard` is `rDone`, `held` is `got`): the property is
HandlerContract.  What it adds to the invariants is order: a file is accepted
only when every earlier one that was accepted is over, nothing is written after
`FileCompleted`, and the sender hears of its files in the order it offered them.
A step of the batch is one step of it or none; Settle takes several files at once
because a pull completes every offer it passes over in one pass of the loop.

Definitions marked "(faulty variant)" are not part of the model: each is the
definition it precedes with a plausible bug, and exists to show that a property
notices the bug.

### PktInbox, PacketFeed and HydraSession

Every access to something two goroutines share is a step: `runActive`, `closer`,
`abortCh`, the `Once` guards, `readerStarted`, `negotiated`, `effOpts`, the inbox's
mutex and signal, `devQ`, `readErr`.  `pc[r]` is where a call of Run is, `epc[e]` an Abort
or Close, `spc[s]` a SendDevice, `rpc` the reader goroutine.

| Action | Code (`session.go`) |
|---|---|
| `Run` ... `NewBatch` | Run up to `newBatch`: the `runActive` claim, the closer, the look at `abortCh`, publishing the writer, spawning the reader, the two stores that reset negotiation, `inbox.reset` |
| `Act`, `PeerReads`, `WriteBroken` | `devAction`, `txAction` and the writes they may be stuck in |
| `HandlePacket`, `Negotiated`, `DrainDevice`, `EndDrain` | `drain`: one packet, the last store of `negotiate`, one request, its end with or without `kick` |
| `Pump`, `Park`, `Wake`, `WakeAborted` | the rest of `pump`, each case of its `select` |
| `CancelRun`, `CloseRun` | Run's error path: `courtesyCancel`, `close` |
| `CallEnd`, `CancelEnd`, `CloseEnd`, `JoinReader` | Abort and Close |
| `SendDevice`, `AskDev`, `QueueDev` | SendDevice, which reads two atomics one after the other |
| `Receive`, `ReadFails`, `CancelHeard`, `Push`, `Signal` | `readerLoop`; `push` is two steps, the critical section and the signal |
| `HangUp`, `PeerReads` | the peer |

`closer` is written without synchronisation and read by other goroutines: until
Run's next atomic store, a reader may find either value (`closerSeen`).  The
reader goroutine may die of a read error, the peer's cancel or an overrun.  Closing
the transport unblocks what `CloseStops` names.

`recordError` and `triggerAbort` always come in pairs and are one step (`abandon`): in
between, the only observer is `pump`, which has its own answer for an `err` not yet
seen.

PacketFeed is the abstract specification of the path of packets: arrive at the
tail, leave at the head; `Forget` a prefix (a new batch resets the inbox); lose
the newest one on an overrun and close.  HydraSession implements it under

    arrived <- nread
    pending <- IF rpc = "push" THEN Append(q, nread) ELSE q
    open    <- rpc # "overrun"

### BlockSizer

`cur`, `max`, `goodBytes`, `goodNeeded` are the fields of `blockSizer`; `rxBlkLen` the
receiver's.  `SendData` is `sendData` with `good`, `ReceiveData` `rxData`, `BadPosition`
`badPosition` with its proposal, `TakeRpos` `txRpos` with `rpos`.  Sizes and thresholds are
the code's own numbers.  `since`, an observer, counts bytes since the last change.

### Negotiation, Encoding, Packet and HydraLink

Negotiation and the lower modules are operators without state, so that a
capability set is a set and a register of a CRC the set of its one bits.  In
Encoding the escapes are a set of places of the body (`escapes`), and ASC and UUE
encode a group of bytes at a time, as the Go loops do between two states without
bits left over.
HydraLink gives them one: the writer and reader each adopt the option set at a
step of their own (`WriterAgrees`, `ReaderAgrees`; the reader's at any byte, as `rxOpts` is
an atomic the reader goroutine loads for each byte); `Write` and `Cancel` put a
frame on the line; `Read` is one turn of `readPacket`'s loop with `finishPacket`; `Noise`
inserts what the escapes in effect entitle a line to insert; `Damage` changes or
loses one byte.  `formats` and `payloads` add what peers that are not go-hydra send (ASC
and UUE bodies, the 10-byte RPOS), which this library only decodes.

Abstractions.  START, INIT, INITACK, END and IDLE have empty payloads, and the
negotiation reads the two configurations themselves; FINFO is left out.  One frame is on the line at a time.

## Runs

HydraBatch (files `a1`, `a2` are the originator's, `b1` the answerer's, `a3` an offer that
cannot be sent):

| Run | Checks | Shows |
|---|---|---|
| Refusals | TypeOK, Integrity, EndAgreement, ModesFlipped, Agreement, SentOnce, ReceivedOnce, HandlerContract | every way a file can end, on both sides, with two losses, STARTs, INITs and EOFs repeated while their answers are under way, and either Run ended at any step: contents land in place, the ends leave the batch in step, nothing mode-dependent is sent before both INITs are handled, and every step is one FileDelivery allows |
| Duplex | CleanEnd, WindowHeld, DeviceOnce, Success, Termination | files both ways, the answerer's under a window of one block whose timer may beat the DATAACK, a datagram, a loss that takes the answerer into the one-way pause and out of it again: nil results leave nothing behind, every Run returns, and without loss both return nil |

HydraSession, BlockSizer, HydraLink:

| Run | Checks | Shows |
|---|---|---|
| Session | TypeOK, SoleEngine, NoLostWakeup, NoTailTraffic, ErrorShuts, DevVerdict, InOrder | two runners and three Runs, an Abort, a SendDevice, an inbox of one packet and a drain of one step |
| Teardown | Unwedged | after an Abort or a Close everything returns and the reader exits, even from a stuck write and with the inbox full |
| Blocks | CapHeld, Earned, Regrows | three line speeds, maxima of 32, 64, 300 and 2048 bytes, lost blocks and RPOSes |
| Link | Delivered, CancelExact, OptionsAgree, WindowsServed | every pair of five configurations; payloads that look like markers, escapes, noise and their high-bit twins |

Six runs end in a violation, each of a sentence the repository states:

* **StaleAck** (RefusalAnswered; `hydra.go:146`, `session.go:506`).  FINFOACKs carry
  no identity.  If a FINFO is retransmitted while its refusal is in flight, the
  receiver answers both copies; the second answer is taken for the next file's,
  which is completed as refused before its receiver is asked.  From there the
  receiver opens that file when its FINFO arrives and acknowledges the FINFO of
  the one after with its position (`rx.go:106`), so contents may land in the wrong
  file.  Agreement, CleanEnd and EndAgreement are therefore checked with
  `FinfoAck` outside `Hasty`, and proved under that condition (`Patient`); SentOnce and
  ReceivedOnce are proved without it.
* **StaleSyncId** (SyncIdFresh; `tx.go:334`).  The receiver restarts its resync ids
  with each file (`rx.go:184`); the sender remembers the last id across files, and
  drops the first RPOS of the second file as a duplicate.  The transfer recovers
  only when the receiver's burst is reset.
* **DeviceLeft** (DeviceGate; `session.go:412`).  The END gate tests the state of the
  device machine and not its queue; a datagram that `drain` queues just before it
  handles the packet that opens the gate is still there when the END exchange
  begins, and is never sent.
* **Barrier** (CloseBarrier; `session.go:312`).  Close looks at `readerStarted` once.  If
  it does so after Run has passed its look at `abortCh` and before Run announces the
  reader, it returns at once; Run then starts the reader, on a transport the
  caller has been told it may reuse.
* **Unclosed** (ErrorCloses; `session.go:168`, `session.go:195`).  The transport is said to
  be closed on error, on Abort and by Close, and an error of Run to mean that it is.
  A Close or Abort that comes before Run has stored the closer, or before the store
  is visible to it, spends `closeOnce` on nothing (`session.go:398`); Run then finds
  the abort, returns its error, and nobody closes the transport any more.
* **Astride** (VerdictCurrent; `session.go:239`).  Run clears `negotiated` before `effOpts`,
  so that a concurrent SendDevice "never pairs a stale `negotiated` with a cleared
  option set".  One that has read `negotiated` before the first store and reads `effOpts`
  after the second does, and is told ErrDevUnsupported by a peer that has DEV.

Divergences of words only.  An RPOS handled in the one-way pause disarms the timer
(`tx.go:343`), and the rest of the pause is silent, where `session.go:882` speaks of
"IDLE emission in the two idle states"; what it would touch is the peer's watchdog,
which is not modelled.  A receiver's write error reaches the sender's
handler as `ErrSkip` (`tx.go:347`), which `hydra.go:146` documents as "already have
it"; Agreement states what the code does.  It does so, too, where the handlers
hear different things: if the EOF is repeated before its answer can come, an
RPOS that was under way may send the sender back, and its source then fails to
seek or read, while the EOF it sent before closes a whole file at the receiver.
The sender is told of the error and the receiver of success, so Agreement lets
`nil` stand against `Read` and `Range`.  A `nil` may also end a file that was
resumed past the end of a source that has shrunk (`rxEOF` asks only that the
position be in place), which Integrity and FileDelivery allow for.
CapHeld has an exception, the floor of 64 bytes: a configured `MaxBlockSize` below it
(`hydra.go:247` sets no minimum) is exceeded after an RPOS, because `rpos` rounds up
into the ladder without looking at `max`.

ErrorShuts and DevVerdict, which Session checks and `HydraSessionProofs` proves, are
ErrorCloses and VerdictCurrent without the one case in which each fails: they say
that Unclosed and Astride show the only way.

Bounds.  HydraBatch: two files expose everything that leaks from one file to the
next (acks, resync ids, refusals); two or three units per file, in blocks of
one, give a lost block in front, in the middle and at the end; two losses
lose a packet and its retransmission or its answer; `MaxRetries` of 1 or 2 separates
first timeout, retry and exhaustion; `MaxInFlight` of 2 or 3 lets a sender stream past
a lost block.  Duplex has `HdxBurst = 0`, `MaxRetries = 1` and a file of three blocks
from the originator, which has no window: its lost first block is followed by two
bad ones, the second of which takes the answerer into the pause.  From there it
resumes its own file, and both Runs can still return nil.  The pause without its
timer needs a second loss, on the other side, and is not among the states of this
run; with a second loss, or datagrams of both peers, the liveness check takes too
long.  `MaxInFlight` is a guard of `sendData` and `fireTimers` only: no other send
is suppressed.  HydraSession: three Runs give a batch after a batch and one
more that is rejected; `InboxCap`, `DrainBudget` and `DevCap` of one make every limit
reachable with two packets; Teardown, Barrier and Unclosed need a single Run,
Astride one after another.
BlockSizer: `MaxFlight = 1`, `MaxRpos = 2`, enough for a stale proposal to meet a size
already changed; the sizes are the real ones, up to 2048.  HydraLink: `Word = 8` and
`SafeMaxOffset = 2` scale the two window limits (a value may be cut, be junk, or be
neither); `DataBufMax = 4` and `maxEncodedLen = 51` scale the reader's limits so that a
frame that has swallowed another's bytes can overflow; two packets, so that a
damaged one is followed by one that must survive it.  CRCs have their full width.

Fairness.  HydraBatch: weak fairness of the loop, of packet handling and of taking
queued datagrams: they run in a goroutine that is always scheduled.  Strong
fairness of `fireTimers`: an armed timer expires after a bounded time, and
`Quiet`, which stands for "long enough with nothing happening", may be
interrupted but recurs.  Weak fairness of `Fail` once the peer's Run is over: then
nothing arrives and the watchdog or the hangup ends the Run.  No packet needs to
get through: losses are bounded by `MaxLoss`.

HydraSession: goroutines that can run do (weak fairness of each Run, Abort, Close
and reader step), the loop of a streaming batch blocks now and then (`Park`), and Go's
`select`, which picks among ready cases at random, does not pass over `abortCh` for ever
(`WakeAborted`), both strong.  Nothing is assumed of the peer: it may never read, write
or hang up.  BlockSizer: a sender that has data to send sends, and RPOSes that
arrive are handled; their number is bounded, which is what Regrows says "once" of.

Deadlock is checked in the runs of HydraBatch, where both Runs having returned is a
self-loop (`Over`).  The other systems may stop: nobody calls any more, or the line is
quiet and the bound on packets reached.

## Proofs

All theorems hold for every value of the constants; those of `TransferProofs`
suppose of `Hasty` that it has no `FinfoAck`, three of `HydraLinkProofs` suppose
`Modest` (below), the others nothing.  `HydraBatchProofs` proves three theorems of `Spec`, with no bound on
anything: for every set of files, every offers, sizes, windows, handler answers,
losses and timer behaviour (`Hasty` may be every state), and every value of the
bounds.

* **TypeCorrect**: `Spec => []TypeOK`.  Its content beyond field types: the retry
  counters never exceed `MaxRetries` although timeouts and duplicate RPOS share
  one; the send position never becomes a sentinel (`offsetSkip` reaches `txRpos`
  as an offset); each cursor stays among its states; whatever is read from a
  packet is what its type carries.
* **SenderExactlyOnce**: `Spec => []SentOnce`, the `FileCompleted` contract of
  `SendHandler`.

Neither `TypeOK` nor `SentOnce` is inductive: that an EOFACK completes a file
exactly once depends on the cursor having an offer in that state, and that the
teardown does not complete a file again depends on what was pulled.  The
inductive invariant, at the end of HydraBatch, is

    SentInv == TypeOK /\ Shape /\ Ledger

`Shape` ties a running peer's cursor to its offer, its place in the offers, its
cached FINFO and the `txFinfoAckWait` guard (in the transfer states there is an
offer; the guard is set only when a FINFO is cached; that FINFO is the end of
batch exactly when there is no offer; past Rend there is none).  `Ledger` says
for which files `FileCompleted` has fired: once for each file pulled other than
the pending offer, not at all for that offer, for those to come and for files
nobody offers.  The argument: a step either leaves offer and place alone
(`LedgerUnchanged`), completes the pending offer and drops it (`LedgerCompleted`,
from a refusal, an EOFACK or the teardown), or pulls, completing the offers it
rejects on the way (`LedgerPulled`).

Layout of the proofs: the types of records field by field; one lemma per named
update of a machine (what it types, which fields it leaves alone); packets;
the two ends of a step (`ContinueKeeps`, `FinishKeeps`) and of the ledger; then one
lemma per action, `InitSent`, `NextSent`, `SentInvImplies`, and the theorems.

Assumptions used, all named in HydraBatch and evaluated by TLC in every run: the
markers are no files, offers are sequences of files no two of which are the same
(OfferAssumption: two announcements are told apart), sizes and bounds are
naturals, at least one retry is allowed, and `AcceptFile` returns a natural offset.

The third, which builds on `SentInv`:

* **RinitGateHolds**: `Spec => []ModesFlipped`.  The property looks at the packets, so
  its invariant, `HandshakeInv`, follows the knowledge they carry: an INITACK on
  the wire, and a cursor past waiting for one, witness that the other end has
  processed the INIT; a cursor past the RINIT sync point, that this end has too; a
  packet whose format depends on the options, both.  `PassMoves`, `LoopMoves`, `RxMoves`
  and `TxMoves` say once what a pass, a timer and a packet do to the cursors and
  what they write; `GatedKeeps` is the step they all share.

`ReceiverProofs`, which builds on these:

* **ReceiverExactlyOnce**: `Spec => []ReceivedOnce`, whatever is lost and however often
  FINFO and EOF are repeated.  `ReceivedInv` relates the order of the packets in a
  channel to the two machines at its ends.  `Ordered`: announcements lie in the order
  of the offers, and an EOF lies only between announcements of different files.
  `Level`: a file that the receiver has met (opened, refused or completed) is one
  the sender has pulled, no announcement on its way is of an earlier one, and the
  receiver takes one of the same file for a repeat (`Repeat`: the refusal cache, the
  file being received, or Done) until an EOF has gone before it.  `ReceivedInv` needs
  both: the order alone does not say which announcement opens a file, and `Repeat`
  alone does not survive an EOF.  `SenderOrdered`, `SenderLevel` and `ReceiverLevel`
  carry it over a sender's and a receiver's move, `ExtendsConcat` and `TailOrder` over
  writing to a channel and reading from it.
* **DatagramsOnce**: `Spec => []DeviceOnce`, as unconditionally.  `DeviceInv` numbers the
  datagrams asked for: the last id taken by the receiver is the sender's last or
  the one before; those in `queue` and `devQ` follow on; a DEVDATA on its way carries
  one of the two ids, the earlier one first; a DEVDACK acknowledges nothing the
  receiver has not taken.

`TransferSteps` and `TransferProofs`, which build on all of these, are about a file on
its way from one end to the other.

`TransferSteps` leaves out of an action what does not concern a file under way.  For
its sender a step is one of a dozen moves (`SendStep`), for its receiver one of nine
(`ReceiveStep`), each with what it takes from one channel and adds to the other;
`NextMoves` shows every action to be one such pair.  `TransferProofs` argues about
the moves only:

* **EndsAgree**: `Spec => []EndAgreement`, from `PhaseInv`.  A direction goes through
  phases (before the FINFO, FINFO out, transferring, at the end), and each says
  what may be on its way in both channels and where the receiver can be.  Its
  core is that a FINFOACK on its way answers the FINFO its sender waits upon, of
  which no copy is left (`Replied`).
* **CleanlyEnded**: `Spec => []CleanEnd`, from `EndInv`: a sender that has announced the
  end of the batch has pulled all and has nothing pending, the teardown's outcome
  is given only by a teardown, and a `Run` that returned nil was in the END exchange.
* **FilesIntact** and **WindowRespected**: `Spec => []Integrity` and `Spec => []WindowHeld`,
  from `DataInv`.  `Wire` bounds what is on the way of the current file by what there
  is and by what the writer holds; `Standing` puts the receiver's position at the
  end of that; `Stored` is the property with what it needs of files that are over.
  `Wire` says nothing of the order of DATA: a lost block, a resynchronisation, a
  late RPOS may leave blocks in any order in the channel, and it is the receiver's
  test of the offset that keeps the writer whole.
* **HandlersAgree**: `Spec => []Agreement`, from `VerdictInv`.  Before a sender says why a
  file ended, the reason is spread over a negative RPOS or EOF on its way, the
  refusal cache, the skip flag and the error that goes with it; `Reaches`, `Requests`,
  `Spoken`, `Left` and `Excused` say of each what the receiver's handler has then been
  told, or what the sender may be told when the EOFACK comes.

* **ContractKept**: `Spec => HandlerContract`, the refinement of FileDelivery.  Every move of
  a receiver opens a file, lengthens one, ends one or does none of this
  (`ReceiveMove`), and `MoveContract` makes the first two Accept and Write; every
  call of the sender's handlers in a step and the receiver's end together are one
  Settle (`SettleContract`).  What each action of FileDelivery asks for comes from the
  invariants above: that a file's turn has come from the order of the
  announcements and `Level` (`NewTurn`), that the sender hears in the order of
  its offers from `Ledger` (in the state after the step, since one pass may pull
  several), that what it hears fits from `VerdictInv`, that a file ended
  with nil is whole from `DataInv`.  `AcceptedInv` adds the two facts these leave out:
  an open writer belongs to a file `AcceptFile` accepted, and a receiver knows
  nothing of a file its sender rejected.

All six suppose `Patient`: no FINFO timer expires while the answer is under way.
It is the condition under which the phases exist at all: without it a receiver
answers twice, the second FINFOACK is taken for the answer to the next file's
FINFO, and StaleAck shows what follows.  Every other timer may expire early.

`HydraSessionProofs`, for any set of goroutines and any limits:

* **TypeCorrect** (TypeOK), with the limits of inbox, device queue and drain.
* **SoleEngineHolds**: `EngineInv`, a Run past its claim implies `runActive`.  One lemma
  (`RunMoves`) says where each step of Run may take `pc`; everything below uses it.
* **NoLostWakeupHolds**: `WakeInv` extends the property to the moment before `select`:
  between an empty or exhausted drain and the `select`, a packet can only have
  come with a signal raised or about to be.
* **FeedImplemented**: `Spec => InOrder`, the refinement of PacketFeed.  Its invariant,
  `StartInv`, is that the reader is off until the first Run spawns it and no
  other Run does; each step is then mapped to one step of the feed or to a stutter.
* **NoTailTrafficHolds**: `TailInv` orders the numbers in the inbox, so that all that
  is enqueued after the reset lies above `floor`, the packet in the reader's hand
  included.
* **ErrorShutsHolds**: `CloseInv`, three facts: a spent `closeOnce` has closed or was blind; an
  abort is followed by a close or by someone on the way to it; so is an error.
* **DevVerdictHolds**: `VerdictInv`, which has the calls between their two reads.

`BlockSizerProofs`: **CapHolds** and **GrowthEarned**, for every set of line speeds, maxima
and rests.  `SizeInv` has the ladder, the receiver's estimate and the proposals
in flight; `CountInv` ties `goodBytes` to the bytes counted by the observer, which is
what an RPOS must not leave behind.

`PacketProofs`, about Encoding and Packet, for every body and every packet:

* **HexRoundTrip**, **AscRoundTrip**, **UueRoundTrip**: each decoder undoes its encoder, for
  bodies of any length, and bounds what the encoder adds.
* **Parses**: every packet is parsed as it was marshalled, negative offsets and the
  10-byte RPOS included.
* **Crc16Good**, **Crc32Good**: a body with its complemented CRC passes the magic-value
  test.  The register after body and trailer does not depend on the body
  (`FoldStep`, `CrcTail`): each byte of the trailer cancels the one of the register it was
  taken from, all but its complement, so that a handful of table entries
  (`Entry16a` ... `Entry32d`), computed bit by bit, decide.

The definitions are folds and recursive functions over the body.  The induction is
written out: of the lengths for which a fact fails there would be a least
(`LeastNumber`, from the well-foundedness of `<` on Nat; `UpTo` is how it is used),
and a recursive function is where a history of its steps ends (`HistoryExists`).

`HydraLinkProofs`: **OneOptionSet** and **EveryWindowServed** are statements about any two
configurations, whatever codes and windows they list; **OptionsAlwaysAgree** and
**WindowsAlwaysServed** carry them to every state of the link, through `AgreedInv` (an end's
options are the negotiated ones once it has agreed).  They use `LinkAssumption` and
`NegotiationAssumption`: the ends' configurations are Configs, what is sent are packets
that fit `maxPayloadSize`, and the reader's buffer has room for three bytes a byte
(6183 = 3 * 2061 in the code).

* **Encodes**, **Written**: what a frame looks like on the line.  `Spelled` says where each
  byte of the text lies in it, alone or behind a DLE; what follows a DLE there is
  never one that the reader takes for a marker, for another DLE or for noise.  HEX
  frames are spelled for a reader with any options, the other formats for one
  with the writer's, which is why the reader may change its options in the middle of one
  of the first and never meets the second before it has changed them.
* **CancelExactHolds**: `Spec => []CancelExact`.
* **UndamagedDelivered**: `Spec => [](hit = 0 => Delivered)`.
* **OthersAlwaysDelivered**: whatever a damaged byte became, every packet but the one it
  was in is understood, in order (`OthersDelivered`).

The three rest on one inductive invariant,

    LinkInv == AgreedInv /\ LinkTypes /\ (Open(Len(sent)) \/ Closed(Len(sent)))

`Closed` is a cancel sequence partly read.  `Open` is a reader between two frames, or
one that has read the first k bytes of a frame (`Sound`, `Midway`).  `Bound` limits
the DLEs it has counted there: at most two, or four once a byte is damaged.  The
difference (`Slack`) is what that byte may add, by becoming a DLE itself or by being
one that would have ended a run.  As in the code an end marker does not reset
the count (`reader.go:85`), which is why `Bound` has to follow it out of one frame and
into the next.  `Clean` says what an
undamaged reader has collected: the text up to place k, and before its start marker
nothing that an end marker could make a packet of (`Quiet`).  `Keeps` says what has been understood: all that
was sent, but for what became of the damaged packet.  Neither property is
inductive without all of these: a cancel falsely heard ends the reading, and a
reader that has swallowed a marker in a damaged frame must lose what it has
collected when the next frame begins, not when it ends.

`Modest` says that no prefix that a peer asked for contains DLE.  It is needed: a
configured prefix of five DLEs is written in front of every packet as it is
(`putPrefix`) and is a cancel sequence.  The prefixes of the run Link satisfy it.

Only model-checked: all liveness (Termination, Success, Unwedged, Regrows), which is
out of the prover's reach; and Delivered once a byte has been damaged, that is, that
the damaged frame yields the packet it was or none.  That is no property of all
damage to all packets: a byte that becomes a marker cuts the frame, and which bytes
in front of it pass a CRC of 16 bits depends on them.  The theorems
under `Patient` say nothing of a FINFO timer that beats its answer, where EndAgreement
and what builds on it do not hold (StaleAck).

## What is not modelled

* The clock of the braindead watchdog: it is one of the causes that may end a
  batch at any time, so no property depends on when it is fed.
* The text of INIT and FINFO, file name sanitising, logging: formatting.
* Branches that no go-hydra peer leads to: a FINFO that does not parse or
  announces a size beyond `SafeMaxOffset` (`rx.go:124`, `rx.go:150`; `sendFinfo` rejects such
  an offer), and a position beyond it at the receiver (`rx.go:240`; `sendData` checks
  before it sends).  The sender's side of the range is modelled (`Held` in Refusals).
  For the same reason offsets in Packet are 32-bit: `marshalData` is never given more.
* A device name too long for a frame: `SendDevice` clamps the payload and not the
  name, which its comment says has 3 characters; LinkAssumption supposes it.
* Error detection of the CRCs beyond one damaged byte.
* A FINFO sent for a second file that is announced exactly like the first, and
  what follows from a stale FINFOACK (see StaleAck).
* A transport that cannot be closed: Run refuses it before doing anything.
