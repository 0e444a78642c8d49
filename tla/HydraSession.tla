---------------------------- MODULE HydraSession ----------------------------
(***************************************************************************)
(* The lifecycle of a Session (session.go): goroutines that call Run, Abort*)
(* Close and SendDevice, the reader goroutine and the inbox between it and *)
(* the event loop.  Every access to something two goroutines share is a    *)
(* step.  What a batch does with its packets is HydraBatch's subject: here *)
(* it is only busy, then ending (its transfers are over and the END        *)
(* exchange is left), then done.                                           *)
(***************************************************************************)
EXTENDS Integers, PktInbox

CONSTANTS
    Runner,       \* goroutines that call Run
    Aborter,      \* goroutines that call Abort, once each
    Releaser,     \* goroutines that call Close, once each
    Sender,       \* goroutines that call SendDevice
    DrainBudget,  \* steps of one drain, 256 in the code
    DevCap,       \* capacity of devQ, 8 in the code
    DevOffers,    \* whether a peer's INIT agrees to DEV: the possible outcomes
    CloseStops,   \* what closing the transport unblocks: "read", "write"
    MaxRuns,      \* bound: calls of Run
    MaxPackets,   \* bound: packets the peer sends
    MaxDevice     \* bound: calls of SendDevice that are queued

ASSUME SessionAssumption ==
    /\ DrainBudget \in Nat \ {0} /\ DevCap \in Nat
    /\ DevOffers \subseteq BOOLEAN /\ CloseStops \subseteq {"read", "write"}
    /\ MaxRuns \in Nat /\ MaxPackets \in Nat /\ MaxDevice \in Nat
    /\ Aborter \cap Releaser = {}

Ender == Aborter \cup Releaser

VARIABLES
    runActive,     \* s.runActive
    closer,        \* s.closer: "nil", "private" (stored, but not yet visible to
                   \* other goroutines) or "public"
    err,           \* s.err, behind errOnce
    aborted,       \* abortCh is closed
    closeUsed,     \* closeOnce is consumed
    shut,          \* the transport has been closed
    started,       \* s.started
    writerReady,   \* s.writerReady
    readerStarted, \* s.readerStarted
    negotiated,    \* s.negotiated
    effDev,        \* the DEV bit of s.effOpts
    devQ,          \* datagrams in s.devQ
    readErr,       \* what the one slot of s.readErr holds
    phase,         \* of the batch: "busy", "ending" or "done"
    budget,        \* steps the current drain may still take
    second,        \* whether it is the drain after select
    pc,            \* where each Run call is
    res,           \* what each runner's last Run returned
    rpc,           \* where the reader goroutine is
    epc,           \* where each Abort or Close call is
    spc,           \* where each SendDevice call is
    peerGone,      \* the peer has hung up
    nread,         \* packets read so far; the last one may be in the reader's hand
    runs, sent,    \* calls of Run and of SendDevice so far
    floor,         \* packets the inbox had been given when the batch began
    straddled,     \* senders whose call saw Run begin to reset the negotiation
    unsupported,   \* senders whose last call was answered ErrDevUnsupported
    lacking,       \* some peer negotiated a batch without DEV
    blind          \* a close found no closer

flags == <<runActive, closer, err, aborted, closeUsed, shut, started, writerReady, readerStarted>>
device == <<negotiated, effDev, devQ, spc, sent, straddled, unsupported, lacking>>
batch == <<phase, budget, second>>
reader == <<rpc, nread, peerGone>>
callers == <<pc, res, runs, floor>>
vars == <<flags, device, batch, reader, callers, readErr, epc, blind, inbox>>

-----------------------------------------------------------------------------
(* Errors.  "Gone" is what isTransportErr accepts; "Local" is any other    *)
(* failure of the transport, net.ErrClosed and deadlines among them;       *)
(* "Batch" is one of the batch's own (retries, brain-dead, cancelled ctx). *)

Errors == {"Aborted", "Closed", "Gone", "Local", "PeerCancel", "Overflow", "Batch"}
NoError == "none"

isTransportErr(e) == e = "Gone"

Waiting == {"act", "stalled", "drain", "init", "pumped", "select"}
Preparing == {"closer", "check", "publish", "spawn", "reset", "reset2", "reset3"}
Stopping == {"cancelling", "closing"}
RunLoc == {"idle"} \cup Preparing \cup Waiting \cup Stopping
EndLoc == {"idle", "cancelling", "closing", "joining", "done"}
ReadLoc == {"off", "read", "push", "signal", "overrun", "done"}

readerDone == rpc \in {"done", "overrun"}

\* recordError and triggerAbort, which every caller runs back to back.
abandon(e) ==
    /\ err' = IF err = NoError THEN e ELSE err
    /\ aborted' = TRUE

\* s.close(), by a goroutine that finds s.closer set or not.
close(seen) ==
    /\ closeUsed' = TRUE
    /\ shut' = (shut \/ (~closeUsed /\ seen))
    /\ blind' = (blind \/ (~closeUsed /\ ~seen))

\* What a goroutine other than the one in Run finds in s.closer: the field
\* is stored without synchronisation, and until Run's next atomic store the
\* other may find either value.
closerSeen ==
    CASE closer = "nil" -> {FALSE} [] closer = "private" -> BOOLEAN [] OTHER -> {TRUE}

\* writeCancel gets the writer's mutex: no write of the event loop is stuck.
writerFree == \A r \in Runner : pc[r] # "stalled"

\* (faulty variant) The cancel sequence is waited for, however long it takes.
cancelOverWaits(expired) == ~writerReady \/ writerFree

\* courtesyCancel returns: no writer yet, the sequence is out, or
\* cancelGraceTimeout has expired.
cancelOver(expired) == ~writerReady \/ writerFree \/ expired

goto(r, l) == pc' = [pc EXCEPT ![r] = l]

return(r, v) ==
    /\ goto(r, "idle")
    /\ res' = [res EXCEPT ![r] = v]
    /\ runActive' = FALSE

\* (faulty variant) The peer has hung up: there is nothing left to close.
failUnclosed(r, e) ==
    /\ abandon(e)
    /\ \/ isTransportErr(e) /\ return(r, e)
       \/ ~isTransportErr(e) /\ goto(r, "cancelling") /\ UNCHANGED <<res, runActive>>

\* The batch returns e: endPhaseHangup turns a hangup in the END exchange
\* into a clean return, anything else is recorded and the session torn down.
endPhaseHangup(e) == phase # "busy" /\ isTransportErr(e)

fail(r, e) ==
    \/ /\ endPhaseHangup(e)
       /\ return(r, NoError)
       /\ UNCHANGED <<err, aborted>>
    \/ /\ ~endPhaseHangup(e)
       /\ abandon(e)
       /\ goto(r, IF e = "PeerCancel" \/ isTransportErr(e) THEN "closing" ELSE "cancelling")
       /\ UNCHANGED <<res, runActive>>

-----------------------------------------------------------------------------
Init ==
    /\ runActive = FALSE /\ closer = "nil" /\ err = NoError
    /\ aborted = FALSE /\ closeUsed = FALSE /\ shut = FALSE
    /\ started = FALSE /\ writerReady = FALSE /\ readerStarted = FALSE
    /\ negotiated = FALSE /\ effDev = FALSE /\ devQ = 0
    /\ spc = [s \in Sender |-> "idle"] /\ sent = 0
    /\ straddled = {} /\ unsupported = {} /\ lacking = FALSE
    /\ phase = "done" /\ budget = 0 /\ second = FALSE
    /\ rpc = "off" /\ nread = 0 /\ peerGone = FALSE
    /\ pc = [r \in Runner |-> "idle"] /\ res = [r \in Runner |-> NoError]
    /\ runs = 0 /\ floor = 0
    /\ readErr = NoError /\ blind = FALSE
    /\ epc = [e \in Ender |-> "idle"]
    /\ InboxInit

-----------------------------------------------------------------------------
(* Run, up to the batch.                                                   *)

\* (faulty variant) A rejected call runs the deferred runActive.Store(false).
claimDeferred(r) ==
    \/ /\ ~runActive /\ runActive' = TRUE
       /\ goto(r, "closer") /\ UNCHANGED res
    \/ /\ runActive /\ runActive' = FALSE
       /\ res' = [res EXCEPT ![r] = "RunActive"] /\ UNCHANGED pc

\* runActive.CompareAndSwap(false, true).
claim(r) ==
    \/ /\ ~runActive /\ runActive' = TRUE
       /\ goto(r, "closer") /\ UNCHANGED res
    \/ /\ runActive /\ UNCHANGED runActive
       /\ res' = [res EXCEPT ![r] = "RunActive"] /\ UNCHANGED pc

Run(r) ==
    /\ pc[r] = "idle" /\ runs < MaxRuns
    /\ runs' = runs + 1
    /\ claim(r)
    /\ UNCHANGED <<closer, err, aborted, closeUsed, shut, started, writerReady, readerStarted,
                   device, batch, reader, floor, readErr, epc, blind, inbox>>

StoreCloser(r) ==
    /\ pc[r] = "closer"
    /\ closer' = IF closer = "nil" THEN "private" ELSE closer
    /\ goto(r, "check")
    /\ UNCHANGED <<runActive, err, aborted, closeUsed, shut, started, writerReady, readerStarted,
                   device, batch, reader, res, runs, floor, readErr, epc, blind, inbox>>

CheckAbort(r) ==
    /\ pc[r] = "check"
    /\ \/ /\ aborted
          /\ return(r, err) /\ closer' = "public"
       \/ /\ ~aborted
          /\ goto(r, IF started THEN "reset" ELSE "publish")
          /\ UNCHANGED <<res, runActive, closer>>
    /\ UNCHANGED <<err, aborted, closeUsed, shut, started, writerReady, readerStarted,
                   device, batch, reader, runs, floor, readErr, epc, blind, inbox>>

\* started, writer, reader, rxOpts.Store, writerReady.Store.
Publish(r) ==
    /\ pc[r] = "publish"
    /\ started' = TRUE /\ writerReady' = TRUE /\ closer' = "public"
    /\ goto(r, "spawn")
    /\ UNCHANGED <<runActive, err, aborted, closeUsed, shut, readerStarted,
                   device, batch, reader, res, runs, floor, readErr, epc, blind, inbox>>

SpawnReader(r) ==
    /\ pc[r] = "spawn"
    /\ readerStarted' = TRUE /\ rpc' = "read"
    /\ goto(r, "reset")
    /\ UNCHANGED <<runActive, closer, err, aborted, closeUsed, shut, started, writerReady,
                   device, batch, nread, peerGone, res, runs, floor, readErr, epc, blind, inbox>>

forgetNegotiated ==
    /\ negotiated' = FALSE
    /\ straddled' = straddled \cup {s \in Sender : spc[s] = "second"}
    /\ UNCHANGED effDev
forgetOptions == effDev' = FALSE /\ UNCHANGED <<negotiated, straddled>>

\* (faulty variant) effOpts is cleared before negotiated.
resetOptionsFirst(l) ==
    IF l = "reset" THEN forgetOptions ELSE forgetNegotiated

\* negotiated.Store(false), then effOpts.Store(0).
resetOptions(l) ==
    IF l = "reset" THEN forgetNegotiated ELSE forgetOptions

ResetOptions(r) ==
    /\ pc[r] \in {"reset", "reset2"}
    /\ resetOptions(pc[r])
    /\ goto(r, IF pc[r] = "reset" THEN "reset2" ELSE "reset3")
    /\ UNCHANGED <<flags, devQ, spc, sent, unsupported, lacking, batch, reader,
                   res, runs, floor, readErr, epc, blind, inbox>>

\* (faulty variant) The inbox is cleared for the first batch only.
freshInboxOnce == IF runs = 1 THEN reset ELSE UNCHANGED inbox

freshInbox == reset

\* inbox.reset and newBatch.
NewBatch(r) ==
    /\ pc[r] = "reset3"
    /\ freshInbox
    /\ floor' = IF rpc = "push" THEN nread - 1 ELSE nread
    /\ phase' = "busy" /\ budget' = 0 /\ second' = FALSE
    /\ goto(r, "act")
    /\ UNCHANGED <<flags, device, reader, res, runs, readErr, epc, blind>>

-----------------------------------------------------------------------------
(* The event loop: run, pump and drain.                                    *)

\* What fail, return and goto leave alone.
loopFrame == UNCHANGED <<closer, closeUsed, shut, started, writerReady, readerStarted,
                         reader, runs, floor, epc, blind>>

writeBreaks == (shut /\ "write" \in CloseStops) \/ peerGone

startDrain(r, again) ==
    /\ goto(r, "drain")
    /\ budget' = DrainBudget /\ second' = again
    /\ UNCHANGED <<res, runActive, err, aborted, phase>>

\* A write of the event loop fails.
writeFails(r) == writeBreaks /\ \E e \in {"Gone", "Local"} : fail(r, e)

\* devAction and txAction: nothing to write, written, stuck in Write (which
\* the peer's reading ends), or failed.
Act(r) ==
    /\ pc[r] = "act"
    /\ \/ startDrain(r, FALSE)
       \/ /\ ~writeBreaks /\ goto(r, "stalled")
          /\ budget' = DrainBudget /\ second' = FALSE
          /\ UNCHANGED <<res, runActive, err, aborted, phase>>
       \/ writeFails(r) /\ UNCHANGED batch
    /\ loopFrame /\ UNCHANGED <<device, readErr, inbox>>

PeerReads(r) ==
    /\ pc[r] = "stalled" /\ goto(r, "drain")
    /\ loopFrame /\ UNCHANGED <<runActive, err, aborted, res, device, batch, readErr, inbox>>

WriteBroken(r) ==
    /\ pc[r] = "stalled" /\ writeFails(r)
    /\ loopFrame /\ UNCHANGED <<device, batch, readErr, inbox>>

\* How far one packet, or one timer, may take the batch.
Progress == [busy |-> {"busy", "ending"}, ending |-> {"ending", "done"}, done |-> {"done"}]

HandlePacket(r) ==
    /\ pc[r] = "drain" /\ budget > 0
    /\ \E p \in 1..MaxPackets : tryPop(p)
    /\ budget' = budget - 1
    /\ \/ /\ phase' \in Progress[phase]
          /\ \/ UNCHANGED pc
             \/ ~writeBreaks /\ goto(r, "stalled")               \* an answer
          /\ UNCHANGED <<res, runActive, err, aborted, effDev, lacking>>
       \/ /\ phase = "busy" /\ ~negotiated                        \* rxInit
          /\ effDev' \in DevOffers /\ lacking' = (lacking \/ ~effDev')
          /\ goto(r, "init")
          /\ UNCHANGED <<res, runActive, err, aborted, phase>>
       \/ (fail(r, "Batch") \/ writeFails(r)) /\ UNCHANGED <<phase, effDev, lacking>>
    /\ loopFrame
    /\ UNCHANGED <<negotiated, devQ, spc, sent, straddled, unsupported, second, readErr>>

\* negotiate's last store, and the INITACK.
Negotiated(r) ==
    /\ pc[r] = "init"
    /\ negotiated' = TRUE
    /\ \/ /\ goto(r, "drain") \/ (~writeBreaks /\ goto(r, "stalled"))
          /\ UNCHANGED <<runActive, err, aborted, res>>
       \/ writeFails(r)
    /\ loopFrame
    /\ UNCHANGED <<effDev, devQ, spc, sent, straddled, unsupported, lacking, batch, readErr,
                   inbox>>

\* drain takes a SendDevice request once no packet is left.
DrainDevice(r) ==
    /\ pc[r] = "drain" /\ budget > 0 /\ q = <<>> /\ devQ > 0
    /\ devQ' = devQ - 1 /\ budget' = budget - 1
    /\ loopFrame
    /\ UNCHANGED <<runActive, err, aborted, negotiated, effDev, spc, sent, straddled, unsupported,
                   lacking, phase, second, pc, res, readErr, inbox>>

\* drain returns; a finished batch ends Run.
EndDrain(r) ==
    /\ pc[r] = "drain"
    /\ \/ budget > 0 /\ q = <<>> /\ devQ = 0 /\ UNCHANGED inbox
       \/ budget = 0 /\ kick
    /\ \/ phase = "done" /\ return(r, NoError)
       \/ /\ phase # "done"
          /\ goto(r, IF second THEN "act" ELSE "pumped")
          /\ UNCHANGED <<res, runActive>>
    /\ loopFrame /\ UNCHANGED <<err, aborted, device, batch, readErr>>

\* A timer: it sends something, completes an END exchange nobody answers, or
\* ends the batch.
timer(r) ==
    \/ goto(r, "act") /\ UNCHANGED <<res, runActive, err, aborted, batch>>
    \/ /\ phase = "ending" /\ phase' = "done" /\ return(r, NoError)
       /\ UNCHANGED <<err, aborted, budget, second>>
    \/ fail(r, "Batch") /\ UNCHANGED <<phase, budget, second>>

\* The rest of a pump that does not block: the stream goes on, a timer
\* fired, or ctx is cancelled.
Pump(r) ==
    /\ pc[r] = "pumped" /\ timer(r)
    /\ loopFrame /\ UNCHANGED <<device, readErr, inbox>>

Park(r) ==
    /\ pc[r] = "pumped" /\ goto(r, "select")
    /\ loopFrame /\ UNCHANGED <<runActive, err, aborted, res, device, batch, readErr, inbox>>

\* select: the inbox signal, a device request, a timer or ctx, a read error.
Wake(r) ==
    /\ pc[r] = "select"
    /\ \/ takeToken /\ startDrain(r, TRUE) /\ UNCHANGED <<device, readErr>>
       \/ /\ devQ > 0 /\ devQ' = devQ - 1
          /\ goto(r, "act")
          /\ UNCHANGED <<runActive, err, aborted, negotiated, effDev, spc, sent, straddled,
                         unsupported, lacking, batch, res, readErr, inbox>>
       \/ timer(r) /\ UNCHANGED <<device, readErr, inbox>>
       \/ /\ readErr # NoError /\ readErr' = NoError
          /\ fail(r, readErr)
          /\ UNCHANGED <<phase, budget, second, device, inbox>>
    /\ loopFrame

WakeAborted(r) ==
    /\ pc[r] = "select" /\ aborted
    /\ fail(r, err)
    /\ loopFrame /\ UNCHANGED <<phase, budget, second, device, readErr, inbox>>

\* courtesyCancel and close, after an error.
CancelRun(r) ==
    /\ pc[r] = "cancelling"
    /\ \E expired \in BOOLEAN : cancelOver(expired)
    /\ goto(r, "closing")
    /\ UNCHANGED <<flags, device, batch, reader, res, runs, floor, readErr, epc, blind, inbox>>

CloseRun(r) ==
    /\ pc[r] = "closing"
    /\ close(closer # "nil")
    /\ return(r, err)
    /\ UNCHANGED <<closer, err, aborted, started, writerReady, readerStarted, device, batch,
                   reader, runs, floor, readErr, epc, inbox>>

-----------------------------------------------------------------------------
(* Abort, Close, SendDevice.                                               *)

enderFrame == UNCHANGED <<runActive, closer, started, writerReady, readerStarted, device, batch,
                          reader, callers, readErr, inbox>>

end(e, l) == epc' = [epc EXCEPT ![e] = l]

\* Abort and Close record their error and trigger the abort first.
CallEnd(e) ==
    /\ epc[e] = "idle"
    /\ \/ e \in Aborter /\ abandon("Aborted") /\ end(e, "cancelling")
       \/ e \in Releaser /\ abandon("Closed") /\ end(e, "closing")
    /\ enderFrame /\ UNCHANGED <<closeUsed, shut, blind>>

CancelEnd(e) ==
    /\ epc[e] = "cancelling"
    /\ \E expired \in BOOLEAN : cancelOver(expired)
    /\ end(e, "closing")
    /\ enderFrame /\ UNCHANGED <<err, aborted, closeUsed, shut, blind>>

CloseEnd(e) ==
    /\ epc[e] = "closing"
    /\ \E seen \in closerSeen : close(seen)
    /\ end(e, IF e \in Releaser THEN "joining" ELSE "done")
    /\ enderFrame /\ UNCHANGED <<err, aborted>>

readUnblocked == shut /\ "read" \in CloseStops

\* Close waits for the reader, if it sees one, or for readerJoinTimeout,
\* which only a Read that nothing unblocks outlasts.
JoinReader(e) ==
    /\ epc[e] = "joining"
    /\ ~readerStarted \/ readerDone \/ ~readUnblocked
    /\ end(e, "done")
    /\ enderFrame /\ UNCHANGED <<err, aborted, closeUsed, shut, blind>>

senderFrame == UNCHANGED <<flags, batch, reader, callers, readErr, epc, blind, inbox,
                           negotiated, effDev, lacking>>

send(s, l) == spc' = [spc EXCEPT ![s] = l]

\* SendDevice reads negotiated.
SendDevice(s) ==
    /\ spc[s] = "idle" /\ sent < MaxDevice
    /\ sent' = sent + 1
    /\ send(s, IF negotiated THEN "second" ELSE "queue")
    /\ straddled' = straddled \ {s} /\ unsupported' = unsupported \ {s}
    /\ senderFrame /\ UNCHANGED devQ

\* It reads effOpts.
AskDev(s) ==
    /\ spc[s] = "second"
    /\ send(s, IF effDev THEN "queue" ELSE "idle")
    /\ unsupported' = IF effDev THEN unsupported ELSE unsupported \cup {s}
    /\ senderFrame /\ UNCHANGED <<devQ, sent, straddled>>

\* It returns ErrSessionAborted, queues the datagram or returns ErrDevBusy.
QueueDev(s) ==
    /\ spc[s] = "queue"
    /\ devQ' = IF ~aborted /\ devQ < DevCap THEN devQ + 1 ELSE devQ
    /\ send(s, "idle")
    /\ senderFrame /\ UNCHANGED <<sent, straddled, unsupported>>

-----------------------------------------------------------------------------
(* readerLoop, and the peer.                                               *)

readerFrame == UNCHANGED <<flags, device, batch, callers, epc, blind, peerGone>>

offerErr(e) == readErr' = IF readErr = NoError THEN e ELSE readErr

Receive ==
    /\ rpc = "read" /\ nread < MaxPackets
    /\ nread' = nread + 1 /\ rpc' = "push"
    /\ readerFrame /\ UNCHANGED <<readErr, inbox>>

ReadFails ==
    /\ rpc = "read"
    /\ \E e \in {"Gone", "Local"} :
        /\ (peerGone /\ e = "Gone") \/ readUnblocked
        /\ offerErr(e)
    /\ rpc' = "done"
    /\ readerFrame /\ UNCHANGED <<nread, inbox>>

\* The peer's cancel sequence.
CancelHeard ==
    /\ rpc = "read"
    /\ offerErr("PeerCancel") /\ rpc' = "done"
    /\ readerFrame /\ UNCHANGED <<nread, inbox>>

\* (faulty variant) A packet that does not fit is dropped, the rest are read.
overrunDropped == rpc' = "read" /\ UNCHANGED readErr

\* push reports false: the reader gives up.
overrun == rpc' = "overrun" /\ offerErr("Overflow")

Push ==
    /\ rpc = "push"
    /\ \/ enqueue(nread) /\ rpc' = "signal" /\ UNCHANGED readErr
       \/ full /\ overrun /\ UNCHANGED inbox
    /\ readerFrame /\ UNCHANGED nread

Signal ==
    /\ rpc = "signal"
    /\ raise /\ rpc' = "read"
    /\ readerFrame /\ UNCHANGED <<nread, readErr>>

HangUp ==
    /\ ~peerGone /\ peerGone' = TRUE
    /\ UNCHANGED <<flags, device, batch, callers, rpc, nread, readErr, epc, blind, inbox>>

-----------------------------------------------------------------------------
\* A step of a Run call that neither waits for the peer nor starts one.
RunStep(r) ==
    \/ StoreCloser(r) \/ CheckAbort(r) \/ Publish(r) \/ SpawnReader(r) \/ ResetOptions(r)
    \/ NewBatch(r) \/ Act(r) \/ WriteBroken(r) \/ HandlePacket(r) \/ Negotiated(r) \/ DrainDevice(r)
    \/ EndDrain(r) \/ Pump(r) \/ Park(r) \/ Wake(r) \/ WakeAborted(r)
    \/ CancelRun(r) \/ CloseRun(r)

EndStep(e) == CancelEnd(e) \/ CloseEnd(e) \/ JoinReader(e)
ReaderStep == ReadFails \/ Push \/ Signal
SendStep(s) == AskDev(s) \/ QueueDev(s)

Next ==
    \/ \E r \in Runner : Run(r) \/ RunStep(r) \/ PeerReads(r)
    \/ \E e \in Ender : CallEnd(e) \/ EndStep(e)
    \/ \E s \in Sender : SendDevice(s) \/ SendStep(s)
    \/ ReaderStep \/ Receive \/ CancelHeard \/ HangUp

Spec == Init /\ [][Next]_vars

\* Goroutines that can run do.  Nothing is assumed of the peer.  The stream
\* of a batch and its timers leave room for the loop to block now and then,
\* and select, which picks among the ready cases at random, does not pass
\* over abortCh for ever.
Fairness ==
    /\ \A r \in Runner : WF_vars(RunStep(r)) /\ SF_vars(Park(r)) /\ SF_vars(WakeAborted(r))
    /\ \A e \in Ender : WF_vars(EndStep(e))
    /\ WF_vars(ReaderStep)

FairSpec == Spec /\ Fairness

-----------------------------------------------------------------------------
(* Properties.                                                             *)

FlagsOK ==
    /\ runActive \in BOOLEAN /\ aborted \in BOOLEAN /\ closeUsed \in BOOLEAN /\ shut \in BOOLEAN
    /\ started \in BOOLEAN /\ writerReady \in BOOLEAN /\ readerStarted \in BOOLEAN
    /\ blind \in BOOLEAN
    /\ closer \in {"nil", "private", "public"}
    /\ err \in Errors \cup {NoError} /\ readErr \in Errors \cup {NoError}
DeviceOK ==
    /\ negotiated \in BOOLEAN /\ effDev \in BOOLEAN /\ lacking \in BOOLEAN
    /\ devQ \in 0..DevCap /\ sent \in 0..MaxDevice
    /\ spc \in [Sender -> {"idle", "second", "queue"}]
    /\ straddled \subseteq Sender /\ unsupported \subseteq Sender
CallersOK ==
    /\ pc \in [Runner -> RunLoc] /\ epc \in [Ender -> EndLoc]
    /\ res \in [Runner -> Errors \cup {NoError, "RunActive"}]
    /\ runs \in 0..MaxRuns
    /\ phase \in {"busy", "ending", "done"} /\ second \in BOOLEAN /\ budget \in 0..DrainBudget
PacketsOK ==
    /\ rpc \in ReadLoc /\ peerGone \in BOOLEAN
    /\ nread \in 0..MaxPackets /\ floor \in -1..MaxPackets
    /\ q \in Seq(Nat) /\ Len(q) <= InboxCap /\ sig \in BOOLEAN

\* Types; and the inbox stays within inboxCap, device requests within the
\* capacity of devQ and a drain within its budget.
TypeOK == FlagsOK /\ DeviceOK /\ CallersOK /\ PacketsOK

\* At most one Run at a time prepares or drives a batch, however calls that
\* are rejected with ErrRunActive interleave: the machines of a batch and
\* the consumer side of the inbox have no lock of their own.
SoleEngine == \A r, r2 \in Runner : pc[r] # "idle" /\ pc[r2] # "idle" => r = r2

\* An event loop blocked in select has a signal coming for every packet in
\* the inbox: the one-slot signal, consumed by one drain and shared by all
\* pushes, is never lost while packets are queued (pktInbox, drain).
NoLostWakeup ==
    \A r \in Runner : pc[r] = "select" /\ q # <<>> => sig \/ rpc = "signal"

\* The reader, the inbox and the drains together implement the abstract
\* feed of packets.
Feed == INSTANCE PacketFeed WITH
    arrived <- nread,
    pending <- IF rpc = "push" THEN Append(q, nread) ELSE q,
    open <- rpc # "overrun"
InOrder == Feed!FeedSpec

\* A packet that reached the inbox before a Run reset it is not handled by
\* that Run ("tail traffic of the previous batch", pktInbox.reset).
NoTailTraffic == \A r \in Runner : pc[r] \in Waiting => \A i \in 1..Len(q) : q[i] > floor

\* A Run has returned an error, and no Abort or Close is on its way to close().
Settled ==
    /\ \E r \in Runner : res[r] \in Errors
    /\ \A e \in Ender : epc[e] \in {"idle", "joining", "done"}

\* "the terminal error (transport closed)" (Run); "It is closed on error, on
\* Abort, and by Close" (NewSession).
ErrorCloses == Settled => shut

\* ErrorCloses fails in one way only: a close() that found no closer, because
\* it ran before Run had published it, has spent closeOnce.  However Runs,
\* Aborts, hangups and the peer's cancel interleave, an error otherwise leaves
\* the transport closed.
ErrorShuts == Settled => shut \/ blind

\* "negotiated flips first so a concurrent SendDevice never pairs a stale
\* `negotiated' with a cleared option set" (Run): SendDevice answers
\* ErrDevUnsupported only if some peer negotiated a batch without DEV.
VerdictCurrent == lacking \/ unsupported = {}

\* VerdictCurrent fails in one way only: the call was already between its two
\* reads when Run began to reset the negotiation.  The order of Run's stores
\* does protect every call that begins later.
DevVerdict == lacking \/ unsupported \subseteq straddled

\* Once Abort or Close is called, it returns, the Run in progress returns
\* and the reader exits, even if the peer has stopped reading and the event
\* loop is stuck in a write that holds the writer's mutex -- on a transport
\* whose Close unblocks reads and writes, and whose closer was found.
TornDown ==
    /\ \A r \in Runner : pc[r] = "idle"
    /\ \A e \in Ender : epc[e] \in {"idle", "done"}
    /\ rpc \in {"off", "done", "overrun"}
Unwedged == (\E e \in Ender : epc[e] # "idle") ~> (TornDown \/ blind)

\* "Close is the teardown BARRIER: it does not return until the reader
\* goroutine has exited (bounded by readerJoinTimeout)" (Close).
CloseBarrier ==
    \A e \in Releaser : epc[e] = "done" /\ readUnblocked => rpc = "off" \/ readerDone

=============================================================================
