------------------------- MODULE HydraSessionProofs -------------------------
(***************************************************************************)
(* Theorems about HydraSession, for any goroutines and any bounds.         *)
(***************************************************************************)
EXTENDS HydraSession, SequenceTheorems, TLAPS

\* A step of Run moves its own program counter alone, and clears runActive
\* exactly when it returns.
Moves(r, l) ==
    /\ pc[r] # "idle"
    /\ l \in RunLoc /\ pc' = [pc EXCEPT ![r] = l]
    /\ runActive' = IF l = "idle" THEN FALSE ELSE runActive

\* A batch that fails ends Run, or takes it on to the courtesy cancel or to
\* close().
LEMMA FailMoves ==
    ASSUME NEW r \in Runner, NEW e, pc[r] # "idle", fail(r, e)
    PROVE \E l \in RunLoc : Moves(r, l)
<1>1. CASE endPhaseHangup(e) /\ return(r, NoError)
  <2>1. Moves(r, "idle") BY <1>1 DEF Moves, return, goto, RunLoc
  <2>2. "idle" \in RunLoc BY DEF RunLoc
  <2> QED BY <2>1, <2>2
<1>2. CASE goto(r, IF e = "PeerCancel" \/ isTransportErr(e) THEN "closing" ELSE "cancelling")
           /\ UNCHANGED runActive
  <2>1. Moves(r, "closing") \/ Moves(r, "cancelling")
    BY <1>2 DEF Moves, goto, RunLoc, Stopping
  <2>2. "closing" \in RunLoc /\ "cancelling" \in RunLoc BY DEF RunLoc, Stopping
  <2> QED BY <2>1, <2>2
<1> QED BY <1>1, <1>2 DEF fail

\* So does a timer, if it does not go on with the batch.
LEMMA TimerMoves ==
    ASSUME NEW r \in Runner, pc[r] # "idle", timer(r)
    PROVE \E l \in RunLoc : Moves(r, l)
<1>1. CASE goto(r, "act") /\ UNCHANGED runActive
  <2>1. Moves(r, "act") BY <1>1 DEF Moves, goto, RunLoc, Waiting
  <2>2. "act" \in RunLoc BY DEF RunLoc, Waiting
  <2> QED BY <2>1, <2>2
<1>2. CASE return(r, NoError)
  <2>1. Moves(r, "idle") BY <1>2 DEF Moves, return, goto, RunLoc
  <2>2. "idle" \in RunLoc BY DEF RunLoc
  <2> QED BY <2>1, <2>2
<1>3. CASE fail(r, "Batch") BY <1>3, FailMoves
<1> QED BY <1>1, <1>2, <1>3 DEF timer

\* A failed write is a failed batch.
LEMMA WriteFailsMoves ==
    ASSUME NEW r \in Runner, pc[r] # "idle", writeFails(r)
    PROVE \E l \in RunLoc : Moves(r, l)
<1>1. PICK e : fail(r, e) BY DEF writeFails
<1> QED BY <1>1, FailMoves

\* Every step of a Run moves it as Moves says.
LEMMA RunMoves ==
    ASSUME CallersOK, NEW r \in Runner, RunStep(r) \/ PeerReads(r)
    PROVE \E l \in RunLoc : Moves(r, l)
<1> USE DEF RunLoc, Preparing, Waiting, Stopping
<1> DEFINE here(l) == pc[r] # "idle" /\ goto(r, l) /\ UNCHANGED runActive
<1>0. ASSUME NEW l \in RunLoc \ {"idle"}, here(l) PROVE \E k \in RunLoc : Moves(r, k)
  <2>1. Moves(r, l) BY <1>0 DEF Moves, goto
  <2> QED BY <2>1
<1>00. ASSUME NEW v, pc[r] # "idle", return(r, v) PROVE \E k \in RunLoc : Moves(r, k)
  <2>1. Moves(r, "idle") BY <1>00 DEF Moves, return, goto
  <2> QED BY <2>1
<1>000. ASSUME pc[r] # "idle", UNCHANGED <<pc, runActive>> PROVE \E k \in RunLoc : Moves(r, k)
  <2>1. pc' = [pc EXCEPT ![r] = pc[r]] /\ pc[r] \in RunLoc BY <1>000 DEF CallersOK
  <2>2. Moves(r, pc[r]) BY <2>1, <1>000 DEF Moves
  <2> QED BY <2>1, <2>2
<1> HIDE DEF here
<1>1. CASE StoreCloser(r)
  <2>1. here("check") BY <1>1 DEF StoreCloser, here
  <2> QED BY <2>1, <1>0
<1>2. CASE CheckAbort(r)
  <2>1. CASE aborted
    <3>1. pc[r] # "idle" /\ return(r, err) BY <2>1, <1>2 DEF CheckAbort
    <3> QED BY <3>1, <1>00
  <2>2. CASE ~aborted
    <3>1. here("reset") \/ here("publish") BY <2>2, <1>2 DEF CheckAbort, here
    <3> QED BY <3>1, <1>0
  <2> QED BY <2>1, <2>2
<1>3. CASE Publish(r)
  <2>1. here("spawn") BY <1>3 DEF Publish, here
  <2> QED BY <2>1, <1>0
<1>4. CASE SpawnReader(r)
  <2>1. here("reset") BY <1>4 DEF SpawnReader, here
  <2> QED BY <2>1, <1>0
<1>5. CASE ResetOptions(r)
  <2>1. here("reset2") \/ here("reset3") BY <1>5 DEF ResetOptions, here, flags
  <2> QED BY <2>1, <1>0
<1>6. CASE NewBatch(r)
  <2>1. here("act") BY <1>6 DEF NewBatch, here, flags
  <2> QED BY <2>1, <1>0
<1>7. CASE Act(r)
  <2>1. pc[r] = "act" BY <1>7 DEF Act
  <2>2. CASE writeFails(r) BY <2>1, <2>2, WriteFailsMoves
  <2>3. CASE ~writeFails(r)
    <3>1. here("drain") \/ here("stalled") BY <2>1, <2>3, <1>7 DEF Act, startDrain, here
    <3> QED BY <3>1, <1>0
  <2> QED BY <2>2, <2>3
<1>8. CASE WriteBroken(r) BY <1>8, WriteFailsMoves DEF WriteBroken
<1>9. CASE HandlePacket(r)
  <2>1. pc[r] = "drain" BY <1>9 DEF HandlePacket
  <2>2. CASE writeFails(r) BY <2>1, <2>2, WriteFailsMoves
  <2>3. CASE fail(r, "Batch") BY <2>1, <2>3, FailMoves
  <2>4. CASE ~writeFails(r) /\ ~fail(r, "Batch")
    <3>1. here("init") \/ here("stalled") \/ UNCHANGED <<pc, runActive>>
      BY <2>1, <2>4, <1>9 DEF HandlePacket, here
    <3> QED BY <2>1, <3>1, <1>0, <1>000
  <2> QED BY <2>2, <2>3, <2>4
<1>10. CASE Negotiated(r)
  <2>1. pc[r] = "init" BY <1>10 DEF Negotiated
  <2>2. CASE writeFails(r) BY <2>1, <2>2, WriteFailsMoves
  <2>3. CASE ~writeFails(r)
    <3>1. here("drain") \/ here("stalled") BY <2>1, <2>3, <1>10 DEF Negotiated, here
    <3> QED BY <2>1, <3>1, <1>0
  <2> QED BY <2>2, <2>3
<1>11. CASE DrainDevice(r)
  <2>1. pc[r] # "idle" /\ UNCHANGED <<pc, runActive>> BY <1>11 DEF DrainDevice
  <2> QED BY <2>1, <1>000
<1>12. CASE EndDrain(r)
  <2>1. pc[r] # "idle" BY <1>12 DEF EndDrain
  <2>2. return(r, NoError) \/ here("act") \/ here("pumped")
    BY <1>12 DEF EndDrain, here
  <2> QED BY <2>1, <2>2, <1>0, <1>00
<1>13. CASE Pump(r) BY <1>13, TimerMoves DEF Pump
<1>14. CASE Park(r)
  <2>1. here("select") BY <1>14 DEF Park, here
  <2> QED BY <2>1, <1>0
<1>15. CASE Wake(r)
  <2>1. pc[r] = "select" BY <1>15 DEF Wake
  <2>2. CASE timer(r) BY <2>1, <2>2, TimerMoves
  <2>3. CASE fail(r, readErr) BY <2>1, <2>3, FailMoves
  <2>4. CASE ~timer(r) /\ ~fail(r, readErr)
    <3>1. here("drain") \/ here("act") BY <2>1, <2>4, <1>15 DEF Wake, startDrain, here
    <3> QED BY <3>1, <1>0
  <2> QED BY <2>2, <2>3, <2>4
<1>16. CASE WakeAborted(r) BY <1>16, FailMoves DEF WakeAborted
<1>17. CASE CancelRun(r)
  <2>1. here("closing") BY <1>17 DEF CancelRun, here, flags
  <2> QED BY <2>1, <1>0
<1>18. CASE CloseRun(r)
  <2>1. pc[r] # "idle" /\ return(r, err) BY <1>18 DEF CloseRun
  <2> QED BY <2>1, <1>00
<1>19. CASE PeerReads(r)
  <2>1. here("drain") BY <1>19 DEF PeerReads, here
  <2> QED BY <2>1, <1>0
<1> QED
  BY <1>1, <1>2, <1>3, <1>4, <1>5, <1>6, <1>7, <1>8, <1>9, <1>10, <1>11, <1>12, <1>13, <1>14,
     <1>15, <1>16, <1>17, <1>18, <1>19 DEF RunStep

-----------------------------------------------------------------------------
(* Types.                                                                  *)

ResOK == res \in [Runner -> Errors \cup {NoError, "RunActive"}]
BatchOK == phase \in {"busy", "ending", "done"} /\ second \in BOOLEAN /\ budget \in 0..DrainBudget

\* The session's flags keep their types.
LEMMA FlagsStep ==
    ASSUME TypeOK, Next
    PROVE FlagsOK'
<1> USE DEF TypeOK, FlagsOK, flags, device, batch, reader, callers, inbox, Errors, NoError
<1>1. ASSUME NEW r \in Runner, Run(r) PROVE FlagsOK'
  <2>1. runActive' \in BOOLEAN
    BY <1>1, Zenon DEF Run, claim, goto
  <2>2. aborted' \in BOOLEAN
    BY <1>1, Zenon DEF Run, claim, goto
  <2> QED BY <2>1, <2>2, <1>1 DEF Run, claim, goto
<1>2. ASSUME NEW r \in Runner, StoreCloser(r) PROVE FlagsOK'
  BY <1>2 DEF StoreCloser, goto
<1>3. ASSUME NEW r \in Runner, CheckAbort(r) PROVE FlagsOK'
  <2>1. runActive' \in BOOLEAN
    BY <1>3, Zenon DEF CheckAbort, goto, return
  <2>2. aborted' \in BOOLEAN
    BY <1>3, Zenon DEF CheckAbort, goto, return
  <2> QED BY <2>1, <2>2, <1>3 DEF CheckAbort, goto, return
<1>4. ASSUME NEW r \in Runner, Publish(r) PROVE FlagsOK'
  BY <1>4 DEF Publish, goto
<1>5. ASSUME NEW r \in Runner, SpawnReader(r) PROVE FlagsOK'
  BY <1>5 DEF SpawnReader, goto
<1>6. ASSUME NEW r \in Runner, ResetOptions(r) PROVE FlagsOK'
  BY <1>6 DEF ResetOptions, goto, resetOptions, forgetNegotiated, forgetOptions
<1>7. ASSUME NEW r \in Runner, NewBatch(r) PROVE FlagsOK'
  BY <1>7 DEF NewBatch, goto, freshInbox, reset
<1>8. ASSUME NEW r \in Runner, Act(r) PROVE FlagsOK'
  <2>1. runActive' \in BOOLEAN
    BY <1>8, Zenon DEF Act, writeFails, startDrain, goto, loopFrame, fail, abandon, return
  <2>2. aborted' \in BOOLEAN
    BY <1>8, Zenon DEF Act, writeFails, startDrain, goto, loopFrame, fail, abandon, return
  <2> QED BY <2>1, <2>2, <1>8
    DEF Act, writeFails, startDrain, goto, loopFrame, fail, abandon, return
<1>9. ASSUME NEW r \in Runner, PeerReads(r) PROVE FlagsOK'
  BY <1>9 DEF PeerReads, goto, loopFrame
<1>10. ASSUME NEW r \in Runner, WriteBroken(r) PROVE FlagsOK'
  <2>1. runActive' \in BOOLEAN
    BY <1>10, Zenon DEF WriteBroken, writeFails, loopFrame, fail, abandon, return, goto
  <2>2. aborted' \in BOOLEAN
    BY <1>10, Zenon DEF WriteBroken, writeFails, loopFrame, fail, abandon, return, goto
  <2> QED BY <2>1, <2>2, <1>10 DEF WriteBroken, writeFails, loopFrame, fail, abandon, return, goto
<1>11. ASSUME NEW r \in Runner, HandlePacket(r) PROVE FlagsOK'
  <2>1. runActive' \in BOOLEAN
    BY <1>11, Zenon DEF HandlePacket, tryPop, writeFails, goto, loopFrame, Progress, fail,
        abandon, return
  <2>2. aborted' \in BOOLEAN
    BY <1>11, Zenon DEF HandlePacket, tryPop, writeFails, goto, loopFrame, Progress, fail,
        abandon, return
  <2> QED BY <2>1, <2>2, <1>11
    DEF HandlePacket, tryPop, writeFails, goto, loopFrame, Progress, fail, abandon, return
<1>12. ASSUME NEW r \in Runner, Negotiated(r) PROVE FlagsOK'
  <2>1. runActive' \in BOOLEAN
    BY <1>12, Zenon DEF Negotiated, writeFails, loopFrame, fail, abandon, return, goto
  <2>2. aborted' \in BOOLEAN
    BY <1>12, Zenon DEF Negotiated, writeFails, loopFrame, fail, abandon, return, goto
  <2> QED BY <2>1, <2>2, <1>12 DEF Negotiated, writeFails, loopFrame, fail, abandon, return, goto
<1>13. ASSUME NEW r \in Runner, DrainDevice(r) PROVE FlagsOK'
  BY <1>13 DEF DrainDevice, loopFrame
<1>14. ASSUME NEW r \in Runner, EndDrain(r) PROVE FlagsOK'
  <2>1. runActive' \in BOOLEAN
    BY <1>14, Zenon DEF EndDrain, goto, return, loopFrame, kick, raise
  <2>2. aborted' \in BOOLEAN
    BY <1>14, Zenon DEF EndDrain, goto, return, loopFrame, kick, raise
  <2> QED BY <2>1, <2>2, <1>14 DEF EndDrain, goto, return, loopFrame, kick, raise
<1>15. ASSUME NEW r \in Runner, Pump(r) PROVE FlagsOK'
  <2>1. runActive' \in BOOLEAN
    BY <1>15, Zenon DEF Pump, timer, goto, loopFrame, fail, abandon, return
  <2>2. aborted' \in BOOLEAN
    BY <1>15, Zenon DEF Pump, timer, goto, loopFrame, fail, abandon, return
  <2> QED BY <2>1, <2>2, <1>15 DEF Pump, timer, goto, loopFrame, fail, abandon, return
<1>16. ASSUME NEW r \in Runner, Park(r) PROVE FlagsOK'
  BY <1>16 DEF Park, goto, loopFrame
<1>17. ASSUME NEW r \in Runner, Wake(r) PROVE FlagsOK'
  <2>1. runActive' \in BOOLEAN
    BY <1>17, Zenon DEF Wake, timer, goto, startDrain, takeToken, loopFrame, fail, abandon, return
  <2>2. aborted' \in BOOLEAN
    BY <1>17, Zenon DEF Wake, timer, goto, startDrain, takeToken, loopFrame, fail, abandon, return
  <2> QED BY <2>1, <2>2, <1>17
    DEF Wake, timer, goto, startDrain, takeToken, loopFrame, fail, abandon, return
<1>18. ASSUME NEW r \in Runner, WakeAborted(r) PROVE FlagsOK'
  <2>1. runActive' \in BOOLEAN
    BY <1>18, Zenon DEF WakeAborted, loopFrame, fail, abandon, return, goto
  <2>2. aborted' \in BOOLEAN
    BY <1>18, Zenon DEF WakeAborted, loopFrame, fail, abandon, return, goto
  <2>3. fail(r, err) /\ loopFrame /\ UNCHANGED readErr BY <1>18 DEF WakeAborted
  <2> QED BY <2>1, <2>2, <2>3 DEF loopFrame, fail, abandon, return, goto
<1>19. ASSUME NEW r \in Runner, CancelRun(r) PROVE FlagsOK'
  BY <1>19 DEF CancelRun, goto
<1>20. ASSUME NEW r \in Runner, CloseRun(r) PROVE FlagsOK'
  BY <1>20 DEF CloseRun, return, goto, close
<1>21. ASSUME NEW e \in Ender, CallEnd(e) PROVE FlagsOK'
  <2>1. runActive' \in BOOLEAN
    BY <1>21, Zenon DEF CallEnd, abandon, end, enderFrame
  <2>2. aborted' \in BOOLEAN
    BY <1>21, Zenon DEF CallEnd, abandon, end, enderFrame
  <2> QED BY <2>1, <2>2, <1>21 DEF CallEnd, abandon, end, enderFrame
<1>22. ASSUME NEW e \in Ender, CancelEnd(e) PROVE FlagsOK'
  BY <1>22 DEF CancelEnd, end, enderFrame
<1>23. ASSUME NEW e \in Ender, CloseEnd(e) PROVE FlagsOK'
  BY <1>23 DEF CloseEnd, end, enderFrame, close
<1>24. ASSUME NEW e \in Ender, JoinReader(e) PROVE FlagsOK'
  BY <1>24 DEF JoinReader, end, enderFrame
<1>25. ASSUME NEW s \in Sender, SendDevice(s) PROVE FlagsOK'
  BY <1>25 DEF SendDevice, send, senderFrame
<1>26. ASSUME NEW s \in Sender, AskDev(s) PROVE FlagsOK'
  BY <1>26 DEF AskDev, send, senderFrame
<1>27. ASSUME NEW s \in Sender, QueueDev(s) PROVE FlagsOK'
  BY <1>27 DEF QueueDev, send, senderFrame
<1>28. ASSUME Receive PROVE FlagsOK'
  BY <1>28 DEF Receive, readerFrame
<1>29. ASSUME ReadFails PROVE FlagsOK'
  BY <1>29 DEF ReadFails, offerErr, readerFrame
<1>30. ASSUME CancelHeard PROVE FlagsOK'
  BY <1>30 DEF CancelHeard, offerErr, readerFrame
<1>31. ASSUME Push PROVE FlagsOK'
  BY <1>31 DEF Push, enqueue, overrun, offerErr, readerFrame
<1>32. ASSUME Signal PROVE FlagsOK'
  BY <1>32 DEF Signal, raise, readerFrame
<1>33. ASSUME HangUp PROVE FlagsOK'
  BY <1>33 DEF HangUp
<1> QED
  BY <1>1, <1>2, <1>3, <1>4, <1>5, <1>6, <1>7, <1>8, <1>9, <1>10, <1>11, <1>12, <1>13,
     <1>14, <1>15, <1>16, <1>17, <1>18, <1>19, <1>20, <1>21, <1>22, <1>23, <1>24, <1>25,
     <1>26, <1>27, <1>28, <1>29, <1>30, <1>31, <1>32, <1>33
     DEF Next, RunStep, EndStep, SendStep, ReaderStep

\* So does what SendDevice shares with Run; devQ stays within its capacity.
LEMMA DeviceStep ==
    ASSUME TypeOK, SessionAssumption, Next
    PROVE DeviceOK'
<1> USE DEF TypeOK, DeviceOK, SessionAssumption, flags, device, batch, reader, callers, inbox
<1>1. ASSUME NEW r \in Runner, Run(r) PROVE DeviceOK'
  BY <1>1 DEF Run, claim, goto
<1>2. ASSUME NEW r \in Runner, StoreCloser(r) PROVE DeviceOK'
  BY <1>2 DEF StoreCloser, goto
<1>3. ASSUME NEW r \in Runner, CheckAbort(r) PROVE DeviceOK'
  BY <1>3 DEF CheckAbort, goto, return
<1>4. ASSUME NEW r \in Runner, Publish(r) PROVE DeviceOK'
  BY <1>4 DEF Publish, goto
<1>5. ASSUME NEW r \in Runner, SpawnReader(r) PROVE DeviceOK'
  BY <1>5 DEF SpawnReader, goto
<1>6. ASSUME NEW r \in Runner, ResetOptions(r) PROVE DeviceOK'
  BY <1>6 DEF ResetOptions, goto, resetOptions, forgetNegotiated, forgetOptions
<1>7. ASSUME NEW r \in Runner, NewBatch(r) PROVE DeviceOK'
  BY <1>7 DEF NewBatch, goto, freshInbox, reset
<1>8. ASSUME NEW r \in Runner, Act(r) PROVE DeviceOK'
  BY <1>8 DEF Act, writeFails, startDrain, goto, loopFrame, fail, abandon, return
<1>9. ASSUME NEW r \in Runner, PeerReads(r) PROVE DeviceOK'
  BY <1>9 DEF PeerReads, goto, loopFrame
<1>10. ASSUME NEW r \in Runner, WriteBroken(r) PROVE DeviceOK'
  BY <1>10 DEF WriteBroken, writeFails, loopFrame, fail, abandon, return, goto
<1>11. ASSUME NEW r \in Runner, HandlePacket(r) PROVE DeviceOK'
  BY <1>11 DEF HandlePacket, tryPop, writeFails, goto, loopFrame, Progress, fail, abandon, return
<1>12. ASSUME NEW r \in Runner, Negotiated(r) PROVE DeviceOK'
  BY <1>12 DEF Negotiated, writeFails, loopFrame, fail, abandon, return, goto
<1>13. ASSUME NEW r \in Runner, DrainDevice(r) PROVE DeviceOK'
  BY <1>13 DEF DrainDevice, loopFrame
<1>14. ASSUME NEW r \in Runner, EndDrain(r) PROVE DeviceOK'
  BY <1>14 DEF EndDrain, goto, return, loopFrame, kick, raise
<1>15. ASSUME NEW r \in Runner, Pump(r) PROVE DeviceOK'
  BY <1>15 DEF Pump, timer, goto, loopFrame, fail, abandon, return
<1>16. ASSUME NEW r \in Runner, Park(r) PROVE DeviceOK'
  BY <1>16 DEF Park, goto, loopFrame
<1>17. ASSUME NEW r \in Runner, Wake(r) PROVE DeviceOK'
  BY <1>17 DEF Wake, timer, goto, startDrain, takeToken, loopFrame, fail, abandon, return
<1>18. ASSUME NEW r \in Runner, WakeAborted(r) PROVE DeviceOK'
  BY <1>18 DEF WakeAborted, loopFrame, fail, abandon, return, goto
<1>19. ASSUME NEW r \in Runner, CancelRun(r) PROVE DeviceOK'
  BY <1>19 DEF CancelRun, goto
<1>20. ASSUME NEW r \in Runner, CloseRun(r) PROVE DeviceOK'
  BY <1>20 DEF CloseRun, return, goto, close
<1>21. ASSUME NEW e \in Ender, CallEnd(e) PROVE DeviceOK'
  BY <1>21 DEF CallEnd, abandon, end, enderFrame
<1>22. ASSUME NEW e \in Ender, CancelEnd(e) PROVE DeviceOK'
  BY <1>22 DEF CancelEnd, end, enderFrame
<1>23. ASSUME NEW e \in Ender, CloseEnd(e) PROVE DeviceOK'
  BY <1>23 DEF CloseEnd, end, enderFrame, close
<1>24. ASSUME NEW e \in Ender, JoinReader(e) PROVE DeviceOK'
  BY <1>24 DEF JoinReader, end, enderFrame
<1>25. ASSUME NEW s \in Sender, SendDevice(s) PROVE DeviceOK'
  BY <1>25 DEF SendDevice, send, senderFrame
<1>26. ASSUME NEW s \in Sender, AskDev(s) PROVE DeviceOK'
  BY <1>26 DEF AskDev, send, senderFrame
<1>27. ASSUME NEW s \in Sender, QueueDev(s) PROVE DeviceOK'
  BY <1>27 DEF QueueDev, send, senderFrame
<1>28. ASSUME Receive PROVE DeviceOK'
  BY <1>28 DEF Receive, readerFrame
<1>29. ASSUME ReadFails PROVE DeviceOK'
  BY <1>29 DEF ReadFails, offerErr, readerFrame
<1>30. ASSUME CancelHeard PROVE DeviceOK'
  BY <1>30 DEF CancelHeard, offerErr, readerFrame
<1>31. ASSUME Push PROVE DeviceOK'
  BY <1>31 DEF Push, enqueue, overrun, offerErr, readerFrame
<1>32. ASSUME Signal PROVE DeviceOK'
  BY <1>32 DEF Signal, raise, readerFrame
<1>33. ASSUME HangUp PROVE DeviceOK'
  BY <1>33 DEF HangUp
<1> QED
  BY <1>1, <1>2, <1>3, <1>4, <1>5, <1>6, <1>7, <1>8, <1>9, <1>10, <1>11, <1>12, <1>13,
     <1>14, <1>15, <1>16, <1>17, <1>18, <1>19, <1>20, <1>21, <1>22, <1>23, <1>24, <1>25,
     <1>26, <1>27, <1>28, <1>29, <1>30, <1>31, <1>32, <1>33
     DEF Next, RunStep, EndStep, SendStep, ReaderStep

\* Every Run call stays at a place of Run.
LEMMA PcStep ==
    ASSUME TypeOK, Next
    PROVE pc' \in [Runner -> RunLoc]
<1>1. pc \in [Runner -> RunLoc] /\ CallersOK BY DEF TypeOK, CallersOK
<1>2. ASSUME NEW r \in Runner, RunStep(r) \/ PeerReads(r) PROVE pc' \in [Runner -> RunLoc]
  <2>1. PICK l \in RunLoc : Moves(r, l) BY <1>1, <1>2, RunMoves
  <2> QED BY <1>1, <2>1 DEF Moves
<1>3. ASSUME NEW r \in Runner, Run(r) PROVE pc' \in [Runner -> RunLoc]
  <2>1. "closer" \in RunLoc BY DEF RunLoc, Preparing
  <2> QED BY <1>1, <1>3, <2>1 DEF Run, claim, goto
<1>4. ASSUME NEW e \in Ender, CallEnd(e) \/ EndStep(e) PROVE pc' = pc
  BY <1>4 DEF CallEnd, EndStep, CancelEnd, CloseEnd, JoinReader, enderFrame, callers
<1>5. ASSUME NEW s \in Sender, SendDevice(s) \/ SendStep(s) PROVE pc' = pc
  BY <1>5 DEF SendDevice, SendStep, AskDev, QueueDev, senderFrame, callers
<1>6. ASSUME ReaderStep \/ Receive \/ CancelHeard \/ HangUp PROVE pc' = pc
  BY <1>6 DEF ReaderStep, ReadFails, Push, Signal, Receive, CancelHeard, HangUp, readerFrame,
      callers
<1> QED BY <1>1, <1>2, <1>3, <1>4, <1>5, <1>6 DEF Next

\* A Run returns an error, no error or ErrRunActive.
LEMMA ResStep ==
    ASSUME TypeOK, ResOK, Next
    PROVE ResOK'
<1> USE DEF TypeOK, FlagsOK, ResOK, flags, device, batch, reader, callers, inbox
<1>1. ASSUME NEW r \in Runner, Run(r) PROVE ResOK'
  BY <1>1 DEF Run, claim, goto
<1>2. ASSUME NEW r \in Runner, StoreCloser(r) PROVE ResOK'
  BY <1>2 DEF StoreCloser, goto
<1>3. ASSUME NEW r \in Runner, CheckAbort(r) PROVE ResOK'
  BY <1>3 DEF CheckAbort, goto, return
<1>4. ASSUME NEW r \in Runner, Publish(r) PROVE ResOK'
  BY <1>4 DEF Publish, goto
<1>5. ASSUME NEW r \in Runner, SpawnReader(r) PROVE ResOK'
  BY <1>5 DEF SpawnReader, goto
<1>6. ASSUME NEW r \in Runner, ResetOptions(r) PROVE ResOK'
  BY <1>6 DEF ResetOptions, goto, resetOptions, forgetNegotiated, forgetOptions
<1>7. ASSUME NEW r \in Runner, NewBatch(r) PROVE ResOK'
  BY <1>7 DEF NewBatch, goto, freshInbox, reset
<1>8. ASSUME NEW r \in Runner, Act(r) PROVE ResOK'
  BY <1>8 DEF Act, writeFails, startDrain, goto, loopFrame, fail, abandon, return
<1>9. ASSUME NEW r \in Runner, PeerReads(r) PROVE ResOK'
  BY <1>9 DEF PeerReads, goto, loopFrame
<1>10. ASSUME NEW r \in Runner, WriteBroken(r) PROVE ResOK'
  BY <1>10 DEF WriteBroken, writeFails, loopFrame, fail, abandon, return, goto
<1>11. ASSUME NEW r \in Runner, HandlePacket(r) PROVE ResOK'
  BY <1>11 DEF HandlePacket, tryPop, writeFails, goto, loopFrame, Progress, fail, abandon, return
<1>12. ASSUME NEW r \in Runner, Negotiated(r) PROVE ResOK'
  BY <1>12 DEF Negotiated, writeFails, loopFrame, fail, abandon, return, goto
<1>13. ASSUME NEW r \in Runner, DrainDevice(r) PROVE ResOK'
  BY <1>13 DEF DrainDevice, loopFrame
<1>14. ASSUME NEW r \in Runner, EndDrain(r) PROVE ResOK'
  BY <1>14 DEF EndDrain, goto, return, loopFrame, kick, raise
<1>15. ASSUME NEW r \in Runner, Pump(r) PROVE ResOK'
  BY <1>15 DEF Pump, timer, goto, loopFrame, fail, abandon, return
<1>16. ASSUME NEW r \in Runner, Park(r) PROVE ResOK'
  BY <1>16 DEF Park, goto, loopFrame
<1>17. ASSUME NEW r \in Runner, Wake(r) PROVE ResOK'
  BY <1>17 DEF Wake, timer, goto, startDrain, takeToken, loopFrame, fail, abandon, return
<1>18. ASSUME NEW r \in Runner, WakeAborted(r) PROVE ResOK'
  BY <1>18 DEF WakeAborted, loopFrame, fail, abandon, return, goto
<1>19. ASSUME NEW r \in Runner, CancelRun(r) PROVE ResOK'
  BY <1>19 DEF CancelRun, goto
<1>20. ASSUME NEW r \in Runner, CloseRun(r) PROVE ResOK'
  BY <1>20 DEF CloseRun, return, goto, close
<1>21. ASSUME NEW e \in Ender, CallEnd(e) PROVE ResOK'
  BY <1>21 DEF CallEnd, abandon, end, enderFrame
<1>22. ASSUME NEW e \in Ender, CancelEnd(e) PROVE ResOK'
  BY <1>22 DEF CancelEnd, end, enderFrame
<1>23. ASSUME NEW e \in Ender, CloseEnd(e) PROVE ResOK'
  BY <1>23 DEF CloseEnd, end, enderFrame, close
<1>24. ASSUME NEW e \in Ender, JoinReader(e) PROVE ResOK'
  BY <1>24 DEF JoinReader, end, enderFrame
<1>25. ASSUME NEW s \in Sender, SendDevice(s) PROVE ResOK'
  BY <1>25 DEF SendDevice, send, senderFrame
<1>26. ASSUME NEW s \in Sender, AskDev(s) PROVE ResOK'
  BY <1>26 DEF AskDev, send, senderFrame
<1>27. ASSUME NEW s \in Sender, QueueDev(s) PROVE ResOK'
  BY <1>27 DEF QueueDev, send, senderFrame
<1>28. ASSUME Receive PROVE ResOK'
  BY <1>28 DEF Receive, readerFrame
<1>29. ASSUME ReadFails PROVE ResOK'
  BY <1>29 DEF ReadFails, offerErr, readerFrame
<1>30. ASSUME CancelHeard PROVE ResOK'
  BY <1>30 DEF CancelHeard, offerErr, readerFrame
<1>31. ASSUME Push PROVE ResOK'
  BY <1>31 DEF Push, enqueue, overrun, offerErr, readerFrame
<1>32. ASSUME Signal PROVE ResOK'
  BY <1>32 DEF Signal, raise, readerFrame
<1>33. ASSUME HangUp PROVE ResOK'
  BY <1>33 DEF HangUp
<1> QED
  BY <1>1, <1>2, <1>3, <1>4, <1>5, <1>6, <1>7, <1>8, <1>9, <1>10, <1>11, <1>12, <1>13,
     <1>14, <1>15, <1>16, <1>17, <1>18, <1>19, <1>20, <1>21, <1>22, <1>23, <1>24, <1>25,
     <1>26, <1>27, <1>28, <1>29, <1>30, <1>31, <1>32, <1>33
     DEF Next, RunStep, EndStep, SendStep, ReaderStep

\* A drain stays within its budget.
LEMMA BatchStep ==
    ASSUME TypeOK, SessionAssumption, BatchOK, Next
    PROVE BatchOK'
<1> USE DEF SessionAssumption, BatchOK, flags, device, batch, reader, callers, inbox
<1>1. ASSUME NEW r \in Runner, Run(r) PROVE BatchOK'
  BY <1>1 DEF Run, claim, goto
<1>2. ASSUME NEW r \in Runner, StoreCloser(r) PROVE BatchOK'
  BY <1>2 DEF StoreCloser, goto
<1>3. ASSUME NEW r \in Runner, CheckAbort(r) PROVE BatchOK'
  BY <1>3 DEF CheckAbort, goto, return
<1>4. ASSUME NEW r \in Runner, Publish(r) PROVE BatchOK'
  BY <1>4 DEF Publish, goto
<1>5. ASSUME NEW r \in Runner, SpawnReader(r) PROVE BatchOK'
  BY <1>5 DEF SpawnReader, goto
<1>6. ASSUME NEW r \in Runner, ResetOptions(r) PROVE BatchOK'
  BY <1>6 DEF ResetOptions, goto, resetOptions, forgetNegotiated, forgetOptions
<1>7. ASSUME NEW r \in Runner, NewBatch(r) PROVE BatchOK'
  <2>1. second' \in BOOLEAN
    BY <1>7, Zenon DEF NewBatch, goto, freshInbox, reset
  <2> QED BY <2>1, <1>7 DEF NewBatch, goto, freshInbox, reset
<1>8. ASSUME NEW r \in Runner, Act(r) PROVE BatchOK'
  <2>1. second' \in BOOLEAN
    BY <1>8, Zenon DEF Act, writeFails, startDrain, goto, loopFrame, fail, abandon, return
  <2> QED BY <2>1, <1>8 DEF Act, writeFails, startDrain, goto, loopFrame, fail, abandon, return
<1>9. ASSUME NEW r \in Runner, PeerReads(r) PROVE BatchOK'
  BY <1>9 DEF PeerReads, goto, loopFrame
<1>10. ASSUME NEW r \in Runner, WriteBroken(r) PROVE BatchOK'
  BY <1>10 DEF WriteBroken, writeFails, loopFrame, fail, abandon, return, goto
<1>11. ASSUME NEW r \in Runner, HandlePacket(r) PROVE BatchOK'
  BY <1>11 DEF HandlePacket, tryPop, writeFails, goto, loopFrame, Progress, fail, abandon, return
<1>12. ASSUME NEW r \in Runner, Negotiated(r) PROVE BatchOK'
  BY <1>12 DEF Negotiated, writeFails, loopFrame, fail, abandon, return, goto
<1>13. ASSUME NEW r \in Runner, DrainDevice(r) PROVE BatchOK'
  BY <1>13 DEF DrainDevice, loopFrame
<1>14. ASSUME NEW r \in Runner, EndDrain(r) PROVE BatchOK'
  BY <1>14 DEF EndDrain, goto, return, loopFrame, kick, raise
<1>15. ASSUME NEW r \in Runner, Pump(r) PROVE BatchOK'
  BY <1>15 DEF Pump, timer, goto, loopFrame, fail, abandon, return
<1>16. ASSUME NEW r \in Runner, Park(r) PROVE BatchOK'
  BY <1>16 DEF Park, goto, loopFrame
<1>17. ASSUME NEW r \in Runner, Wake(r) PROVE BatchOK'
  <2>1. second' \in BOOLEAN
    BY <1>17, Zenon DEF Wake, timer, goto, startDrain, takeToken, loopFrame, fail, abandon, return
  <2> QED BY <2>1, <1>17
    DEF Wake, timer, goto, startDrain, takeToken, loopFrame, fail, abandon, return
<1>18. ASSUME NEW r \in Runner, WakeAborted(r) PROVE BatchOK'
  BY <1>18 DEF WakeAborted, loopFrame, fail, abandon, return, goto
<1>19. ASSUME NEW r \in Runner, CancelRun(r) PROVE BatchOK'
  BY <1>19 DEF CancelRun, goto
<1>20. ASSUME NEW r \in Runner, CloseRun(r) PROVE BatchOK'
  BY <1>20 DEF CloseRun, return, goto, close
<1>21. ASSUME NEW e \in Ender, CallEnd(e) PROVE BatchOK'
  BY <1>21 DEF CallEnd, abandon, end, enderFrame
<1>22. ASSUME NEW e \in Ender, CancelEnd(e) PROVE BatchOK'
  BY <1>22 DEF CancelEnd, end, enderFrame
<1>23. ASSUME NEW e \in Ender, CloseEnd(e) PROVE BatchOK'
  BY <1>23 DEF CloseEnd, end, enderFrame, close
<1>24. ASSUME NEW e \in Ender, JoinReader(e) PROVE BatchOK'
  BY <1>24 DEF JoinReader, end, enderFrame
<1>25. ASSUME NEW s \in Sender, SendDevice(s) PROVE BatchOK'
  BY <1>25 DEF SendDevice, send, senderFrame
<1>26. ASSUME NEW s \in Sender, AskDev(s) PROVE BatchOK'
  BY <1>26 DEF AskDev, send, senderFrame
<1>27. ASSUME NEW s \in Sender, QueueDev(s) PROVE BatchOK'
  BY <1>27 DEF QueueDev, send, senderFrame
<1>28. ASSUME Receive PROVE BatchOK'
  BY <1>28 DEF Receive, readerFrame
<1>29. ASSUME ReadFails PROVE BatchOK'
  BY <1>29 DEF ReadFails, offerErr, readerFrame
<1>30. ASSUME CancelHeard PROVE BatchOK'
  BY <1>30 DEF CancelHeard, offerErr, readerFrame
<1>31. ASSUME Push PROVE BatchOK'
  BY <1>31 DEF Push, enqueue, overrun, offerErr, readerFrame
<1>32. ASSUME Signal PROVE BatchOK'
  BY <1>32 DEF Signal, raise, readerFrame
<1>33. ASSUME HangUp PROVE BatchOK'
  BY <1>33 DEF HangUp
<1> QED
  BY <1>1, <1>2, <1>3, <1>4, <1>5, <1>6, <1>7, <1>8, <1>9, <1>10, <1>11, <1>12, <1>13,
     <1>14, <1>15, <1>16, <1>17, <1>18, <1>19, <1>20, <1>21, <1>22, <1>23, <1>24, <1>25,
     <1>26, <1>27, <1>28, <1>29, <1>30, <1>31, <1>32, <1>33
     DEF Next, RunStep, EndStep, SendStep, ReaderStep

\* A Run call starts no other call and touches none of those that end the
\* session.
LEMMA RunKeeps ==
    ASSUME NEW r \in Runner, RunStep(r) \/ PeerReads(r)
    PROVE UNCHANGED <<runs, epc>>
BY DEF RunStep, StoreCloser, CheckAbort, Publish, SpawnReader, ResetOptions, NewBatch, Act,
       PeerReads, WriteBroken, HandlePacket, Negotiated, DrainDevice, EndDrain, Pump, Park, Wake,
       WakeAborted, CancelRun, CloseRun, loopFrame

\* Abort and Close stay at their places; the calls of Run are counted.
LEMMA EndersStep ==
    ASSUME SessionAssumption, epc \in [Ender -> EndLoc], runs \in 0..MaxRuns, Next
    PROVE epc' \in [Ender -> EndLoc] /\ runs' \in 0..MaxRuns
<1>1. ASSUME NEW r \in Runner, RunStep(r) \/ PeerReads(r) PROVE UNCHANGED <<runs, epc>>
  BY <1>1, RunKeeps
<1>2. ASSUME NEW r \in Runner, Run(r) PROVE runs' \in 0..MaxRuns /\ epc' = epc
  BY <1>2 DEF Run, SessionAssumption
<1>3. ASSUME NEW e \in Ender, CallEnd(e) \/ EndStep(e)
      PROVE runs' = runs /\ epc' \in [Ender -> EndLoc]
  <2>1. \E l \in EndLoc : end(e, l)
    BY <1>3 DEF CallEnd, EndStep, CancelEnd, CloseEnd, JoinReader, EndLoc
  <2>2. runs' = runs
    BY <1>3 DEF CallEnd, EndStep, CancelEnd, CloseEnd, JoinReader, enderFrame, callers
  <2> QED BY <2>1, <2>2 DEF end
<1>4. ASSUME NEW s \in Sender, SendDevice(s) \/ SendStep(s) PROVE UNCHANGED <<runs, epc>>
  BY <1>4 DEF SendDevice, SendStep, AskDev, QueueDev, senderFrame, callers
<1>5. ASSUME ReaderStep \/ Receive \/ CancelHeard \/ HangUp PROVE UNCHANGED <<runs, epc>>
  BY <1>5 DEF ReaderStep, ReadFails, Push, Signal, Receive, CancelHeard, HangUp, readerFrame,
      callers
<1> QED BY <1>1, <1>2, <1>3, <1>4, <1>5 DEF Next

\* The inbox stays within inboxCap.
LEMMA PacketsStep ==
    ASSUME TypeOK, SessionAssumption, Next
    PROVE PacketsOK'
<1> USE DEF TypeOK, PacketsOK, SessionAssumption, flags, device, batch, reader, callers, inbox
<1>1. ASSUME NEW r \in Runner, Run(r) PROVE PacketsOK'
  BY <1>1 DEF Run, claim, goto
<1>2. ASSUME NEW r \in Runner, StoreCloser(r) PROVE PacketsOK'
  BY <1>2 DEF StoreCloser, goto
<1>3. ASSUME NEW r \in Runner, CheckAbort(r) PROVE PacketsOK'
  BY <1>3 DEF CheckAbort, goto, return
<1>4. ASSUME NEW r \in Runner, Publish(r) PROVE PacketsOK'
  BY <1>4 DEF Publish, goto
<1>5. ASSUME NEW r \in Runner, SpawnReader(r) PROVE PacketsOK'
  BY <1>5 DEF SpawnReader, goto, ReadLoc
<1>6. ASSUME NEW r \in Runner, ResetOptions(r) PROVE PacketsOK'
  BY <1>6 DEF ResetOptions, goto, resetOptions, forgetNegotiated, forgetOptions
<1>7. ASSUME NEW r \in Runner, NewBatch(r) PROVE PacketsOK'
  <2>1. <<>> \in Seq(Nat) /\ Len(<<>>) = 0 OBVIOUS
  <2>2. q' = <<>> /\ sig' = sig /\ UNCHANGED reader BY <1>7 DEF NewBatch, freshInbox, reset
  <2>3. floor' = nread - 1 \/ floor' = nread BY <1>7 DEF NewBatch
  <2>4. floor' \in -1..MaxPackets BY <2>3
  <2> QED BY <2>1, <2>2, <2>4, InboxAssumption
<1>8. ASSUME NEW r \in Runner, Act(r) PROVE PacketsOK'
  BY <1>8 DEF Act, writeFails, startDrain, goto, loopFrame, fail, abandon, return
<1>9. ASSUME NEW r \in Runner, PeerReads(r) PROVE PacketsOK'
  BY <1>9 DEF PeerReads, goto, loopFrame
<1>10. ASSUME NEW r \in Runner, WriteBroken(r) PROVE PacketsOK'
  BY <1>10 DEF WriteBroken, writeFails, loopFrame, fail, abandon, return, goto
<1>11. ASSUME NEW r \in Runner, HandlePacket(r) PROVE PacketsOK'
  <2>1. q # <<>> /\ q' = Tail(q) /\ sig' = sig BY <1>11 DEF HandlePacket, tryPop
  <2>2. Tail(q) \in Seq(Nat) /\ Len(Tail(q)) = Len(q) - 1 BY <2>1, EmptySeq, HeadTailProperties
  <2>3. Len(q') <= InboxCap BY <2>1, <2>2, InboxAssumption
  <2>4. UNCHANGED <<rpc, peerGone, nread, floor>> BY <1>11 DEF HandlePacket, loopFrame
  <2> QED BY <2>1, <2>2, <2>3, <2>4
<1>12. ASSUME NEW r \in Runner, Negotiated(r) PROVE PacketsOK'
  BY <1>12 DEF Negotiated, writeFails, loopFrame, fail, abandon, return, goto
<1>13. ASSUME NEW r \in Runner, DrainDevice(r) PROVE PacketsOK'
  BY <1>13 DEF DrainDevice, loopFrame
<1>14. ASSUME NEW r \in Runner, EndDrain(r) PROVE PacketsOK'
  <2>1. sig' \in BOOLEAN /\ q' = q BY <1>14, Zenon DEF EndDrain, kick, raise
  <2>2. UNCHANGED <<rpc, peerGone, nread, floor>> BY <1>14 DEF EndDrain, loopFrame
  <2> QED BY <2>1, <2>2
<1>15. ASSUME NEW r \in Runner, Pump(r) PROVE PacketsOK'
  BY <1>15 DEF Pump, timer, goto, loopFrame, fail, abandon, return
<1>16. ASSUME NEW r \in Runner, Park(r) PROVE PacketsOK'
  BY <1>16 DEF Park, goto, loopFrame
<1>17. ASSUME NEW r \in Runner, Wake(r) PROVE PacketsOK'
  <2>1. sig' \in BOOLEAN /\ q' = q BY <1>17, Zenon DEF Wake, takeToken
  <2>2. UNCHANGED <<rpc, peerGone, nread, floor>> BY <1>17 DEF Wake, loopFrame
  <2> QED BY <2>1, <2>2
<1>18. ASSUME NEW r \in Runner, WakeAborted(r) PROVE PacketsOK'
  BY <1>18 DEF WakeAborted, loopFrame, fail, abandon, return, goto
<1>19. ASSUME NEW r \in Runner, CancelRun(r) PROVE PacketsOK'
  BY <1>19 DEF CancelRun, goto
<1>20. ASSUME NEW r \in Runner, CloseRun(r) PROVE PacketsOK'
  BY <1>20 DEF CloseRun, return, goto, close
<1>21. ASSUME NEW e \in Ender, CallEnd(e) PROVE PacketsOK'
  BY <1>21 DEF CallEnd, abandon, end, enderFrame
<1>22. ASSUME NEW e \in Ender, CancelEnd(e) PROVE PacketsOK'
  BY <1>22 DEF CancelEnd, end, enderFrame
<1>23. ASSUME NEW e \in Ender, CloseEnd(e) PROVE PacketsOK'
  BY <1>23 DEF CloseEnd, end, enderFrame, close
<1>24. ASSUME NEW e \in Ender, JoinReader(e) PROVE PacketsOK'
  BY <1>24 DEF JoinReader, end, enderFrame
<1>25. ASSUME NEW s \in Sender, SendDevice(s) PROVE PacketsOK'
  BY <1>25 DEF SendDevice, send, senderFrame
<1>26. ASSUME NEW s \in Sender, AskDev(s) PROVE PacketsOK'
  BY <1>26 DEF AskDev, send, senderFrame
<1>27. ASSUME NEW s \in Sender, QueueDev(s) PROVE PacketsOK'
  BY <1>27 DEF QueueDev, send, senderFrame
<1>28. ASSUME Receive PROVE PacketsOK'
  <2>1. nread' \in 0..MaxPackets BY <1>28 DEF Receive
  <2> QED BY <2>1, <1>28 DEF Receive, readerFrame, ReadLoc
<1>29. ASSUME ReadFails PROVE PacketsOK'
  BY <1>29 DEF ReadFails, offerErr, readerFrame, ReadLoc
<1>30. ASSUME CancelHeard PROVE PacketsOK'
  BY <1>30 DEF CancelHeard, offerErr, readerFrame, ReadLoc
<1>31. ASSUME Push PROVE PacketsOK'
  <2>1. CASE enqueue(nread) /\ rpc' = "signal"
    <3>1. q' = Append(q, nread) /\ sig' = sig /\ Len(q) < InboxCap BY <2>1, InboxAssumption
      DEF enqueue, full
    <3>2. q' \in Seq(Nat) /\ Len(q') = Len(q) + 1 BY <3>1
    <3>3. Len(q') <= InboxCap BY <3>1, <3>2, InboxAssumption
    <3> QED BY <2>1, <3>1, <3>2, <3>3, <1>31 DEF Push, readerFrame, ReadLoc
  <2>2. CASE overrun /\ UNCHANGED inbox
    BY <2>2, <1>31 DEF Push, overrun, readerFrame, ReadLoc
  <2> QED BY <2>1, <2>2, <1>31 DEF Push
<1>32. ASSUME Signal PROVE PacketsOK'
  <2>1. sig' \in BOOLEAN BY <1>32, Zenon DEF Signal, raise
  <2> QED BY <2>1, <1>32 DEF Signal, raise, readerFrame, ReadLoc
<1>33. ASSUME HangUp PROVE PacketsOK'
  <2>1. peerGone' \in BOOLEAN BY <1>33, Zenon DEF HangUp
  <2> QED BY <2>1, <1>33 DEF HangUp
<1> QED
  BY <1>1, <1>2, <1>3, <1>4, <1>5, <1>6, <1>7, <1>8, <1>9, <1>10, <1>11, <1>12, <1>13,
     <1>14, <1>15, <1>16, <1>17, <1>18, <1>19, <1>20, <1>21, <1>22, <1>23, <1>24, <1>25,
     <1>26, <1>27, <1>28, <1>29, <1>30, <1>31, <1>32, <1>33
     DEF Next, RunStep, EndStep, SendStep, ReaderStep

\* Session: every variable keeps its type, the inbox stays within inboxCap,
\* device requests within devQ's capacity and a drain within its budget, for
\* any number of goroutines and any capacities.
THEOREM TypeCorrect == Spec => []TypeOK
<1>1. Init => TypeOK
  <2> SUFFICES ASSUME Init PROVE TypeOK OBVIOUS
  <2>1. FlagsOK BY Zenon DEF Init, FlagsOK, NoError
  <2>2. DeviceOK
    <3>1. negotiated \in BOOLEAN /\ effDev \in BOOLEAN /\ lacking \in BOOLEAN BY Zenon DEF Init
    <3>2. devQ = 0 /\ sent = 0 /\ spc \in [Sender -> {"idle", "second", "queue"}]
          /\ straddled = {} /\ unsupported = {}
      BY DEF Init
    <3> QED BY <3>1, <3>2, SessionAssumption DEF DeviceOK, SessionAssumption
  <2>3. CallersOK
    <3>1. second \in BOOLEAN BY Zenon DEF Init
    <3>2. pc \in [Runner -> RunLoc] /\ epc \in [Ender -> EndLoc]
      BY Zenon DEF Init, RunLoc, EndLoc
    <3>3. res \in [Runner -> Errors \cup {NoError, "RunActive"}] BY Zenon DEF Init
    <3>4. runs = 0 /\ phase = "done" /\ budget = 0 BY DEF Init
    <3> QED BY <3>1, <3>2, <3>3, <3>4, SessionAssumption DEF CallersOK, SessionAssumption
  <2>4. <<>> \in Seq(Nat) /\ Len(<<>>) = 0 OBVIOUS
  <2>5. sig \in BOOLEAN /\ peerGone \in BOOLEAN BY Zenon DEF Init, InboxInit
  <2>6. rpc = "off" /\ nread = 0 /\ floor = 0 /\ q = <<>> BY DEF Init, InboxInit
  <2>7. PacketsOK
    BY <2>4, <2>5, <2>6, SessionAssumption, InboxAssumption
    DEF PacketsOK, SessionAssumption, ReadLoc
  <2> QED BY <2>1, <2>2, <2>3, <2>7 DEF TypeOK
<1>2. TypeOK /\ [Next]_vars => TypeOK'
  <2>1. ASSUME TypeOK, Next PROVE TypeOK'
    <3>1. FlagsOK' /\ DeviceOK' /\ PacketsOK'
      BY <2>1, SessionAssumption, FlagsStep, DeviceStep, PacketsStep
    <3>2. CallersOK /\ ResOK /\ BatchOK BY <2>1 DEF TypeOK, CallersOK, ResOK, BatchOK
    <3>3. ResOK' /\ BatchOK' /\ pc' \in [Runner -> RunLoc]
      BY <2>1, <3>2, SessionAssumption, PcStep, ResStep, BatchStep
    <3>4. epc' \in [Ender -> EndLoc] /\ runs' \in 0..MaxRuns
      BY <2>1, <3>2, SessionAssumption, EndersStep DEF CallersOK
    <3>5. CallersOK' BY <3>3, <3>4 DEF CallersOK, ResOK, BatchOK
    <3> QED BY <3>1, <3>5 DEF TypeOK
  <2>2. ASSUME TypeOK, UNCHANGED vars PROVE TypeOK'
    BY <2>2 DEF TypeOK, FlagsOK, DeviceOK, CallersOK, PacketsOK, vars, flags, device, batch,
                reader, callers, inbox
  <2> QED BY <2>1, <2>2
<1> QED BY <1>1, <1>2, PTL DEF Spec

-----------------------------------------------------------------------------
(* One engine at a time.                                                   *)

\* Whoever is inside Run has claimed runActive.
EngineInv == (\A r \in Runner : pc[r] # "idle" => runActive) /\ SoleEngine

\* A second Run is turned away while one is inside.
LEMMA EngineStep ==
    ASSUME TypeOK, EngineInv, Next
    PROVE EngineInv'
<1>1. pc \in [Runner -> RunLoc] /\ CallersOK BY DEF TypeOK, CallersOK
<1>2. ASSUME NEW r \in Runner, RunStep(r) \/ PeerReads(r) PROVE EngineInv'
  <2>1. PICK l \in RunLoc : Moves(r, l) BY <1>1, <1>2, RunMoves
  <2>2. \A r2 \in Runner : r2 # r => pc'[r2] = pc[r2] /\ pc[r2] = "idle"
    BY <1>1, <2>1 DEF Moves, EngineInv, SoleEngine
  <2>3. CASE l = "idle" BY <1>1, <2>1, <2>2, <2>3 DEF Moves, EngineInv, SoleEngine
  <2>4. CASE l # "idle"
    <3>1. runActive' = runActive /\ runActive BY <2>1, <2>4 DEF Moves, EngineInv
    <3> QED BY <2>2, <3>1 DEF EngineInv, SoleEngine
  <2> QED BY <2>3, <2>4
<1>3. ASSUME NEW r \in Runner, Run(r) PROVE EngineInv'
  <2>1. CASE ~runActive
    <3>1. \A r2 \in Runner : pc[r2] = "idle" BY <2>1 DEF EngineInv
    <3>2. runActive' /\ pc' = [pc EXCEPT ![r] = "closer"]
      BY <2>1, <1>3, Zenon DEF Run, claim, goto
    <3>3. \A r2 \in Runner : r2 # r => pc'[r2] = "idle" BY <1>1, <3>1, <3>2
    <3> QED BY <3>2, <3>3 DEF EngineInv, SoleEngine
  <2>2. CASE runActive
    <3>1. runActive' /\ pc' = pc BY <2>2, <1>3, Zenon DEF Run, claim
    <3> QED BY <3>1 DEF EngineInv, SoleEngine
  <2> QED BY <2>1, <2>2
<1>4. ASSUME NEW e \in Ender, CallEnd(e) \/ EndStep(e) PROVE UNCHANGED <<pc, runActive>>
  BY <1>4 DEF CallEnd, EndStep, CancelEnd, CloseEnd, JoinReader, enderFrame, callers
<1>5. ASSUME NEW s \in Sender, SendDevice(s) \/ SendStep(s) PROVE UNCHANGED <<pc, runActive>>
  BY <1>5 DEF SendDevice, SendStep, AskDev, QueueDev, senderFrame, callers, flags
<1>6. ASSUME ReaderStep \/ Receive \/ CancelHeard \/ HangUp PROVE UNCHANGED <<pc, runActive>>
  BY <1>6 DEF ReaderStep, ReadFails, Push, Signal, Receive, CancelHeard, HangUp, readerFrame,
              callers, flags
<1>7. CASE UNCHANGED <<pc, runActive>> BY <1>7 DEF EngineInv, SoleEngine
<1> QED BY <1>2, <1>3, <1>4, <1>5, <1>6, <1>7 DEF Next

\* Session.Run: of any number of goroutines that call Run, over and over, at
\* most one is inside it past the claim of runActive.
THEOREM SoleEngineHolds == Spec => []SoleEngine
<1>1. Init => EngineInv BY DEF Init, EngineInv, SoleEngine
<1>2. TypeOK /\ EngineInv /\ [Next]_vars => EngineInv'
  <2>1. CASE UNCHANGED vars BY <2>1 DEF EngineInv, SoleEngine, vars, flags, callers
  <2> QED BY <2>1, EngineStep
<1>3. EngineInv => SoleEngine BY DEF EngineInv
<1> QED BY <1>1, <1>2, <1>3, TypeCorrect, PTL DEF Spec

-----------------------------------------------------------------------------
(* No wakeup is lost.                                                      *)

Parked == {"pumped", "select"}

\* The loop comes to block, or stays there, by two ways only.
LEMMA ParkedAfter ==
    ASSUME CallersOK, NEW r \in Runner, RunStep(r) \/ PeerReads(r), pc'[r] \in Parked
    PROVE EndDrain(r) \/ Park(r)
<1> USE DEF CallersOK, Parked, flags
<1>1. CASE StoreCloser(r) BY <1>1 DEF StoreCloser, goto
<1>2. CASE CheckAbort(r) BY <1>2 DEF CheckAbort, goto, return
<1>3. CASE Publish(r) BY <1>3 DEF Publish, goto
<1>4. CASE SpawnReader(r) BY <1>4 DEF SpawnReader, goto
<1>5. CASE ResetOptions(r) BY <1>5
  DEF ResetOptions, goto, resetOptions, forgetNegotiated, forgetOptions
<1>6. CASE NewBatch(r) BY <1>6 DEF NewBatch, goto, freshInbox, reset
<1>7. CASE Act(r) BY <1>7 DEF Act, writeFails, startDrain, goto, loopFrame, fail, abandon, return
<1>8. CASE PeerReads(r) BY <1>8 DEF PeerReads, goto, loopFrame
<1>9. CASE WriteBroken(r) BY <1>9
  DEF WriteBroken, writeFails, loopFrame, fail, abandon, return, goto
<1>10. CASE HandlePacket(r) BY <1>10
  DEF HandlePacket, tryPop, writeFails, goto, loopFrame, Progress, fail, abandon, return
<1>11. CASE Negotiated(r) BY <1>11 DEF Negotiated, writeFails, loopFrame, fail, abandon, return, goto
<1>12. CASE DrainDevice(r) BY <1>12 DEF DrainDevice, loopFrame
<1>13. CASE EndDrain(r) BY <1>13 DEF EndDrain, goto, return, loopFrame, kick, raise
<1>14. CASE Pump(r) BY <1>14 DEF Pump, timer, goto, loopFrame, fail, abandon, return
<1>15. CASE Park(r) BY <1>15 DEF Park, goto, loopFrame
<1>16. CASE Wake(r) BY <1>16
  DEF Wake, timer, goto, startDrain, takeToken, loopFrame, fail, abandon, return
<1>17. CASE WakeAborted(r) BY <1>17 DEF WakeAborted, loopFrame, fail, abandon, return, goto
<1>18. CASE CancelRun(r) BY <1>18 DEF CancelRun, goto
<1>19. CASE CloseRun(r) BY <1>19 DEF CloseRun, return, goto, close
<1> QED
  BY <1>1, <1>2, <1>3, <1>4, <1>5, <1>6, <1>7, <1>8, <1>9, <1>10, <1>11, <1>12, <1>13,
     <1>14, <1>15, <1>16, <1>17, <1>18, <1>19 DEF RunStep

WakeInv == \A r \in Runner : pc[r] \in Parked => q = <<>> \/ sig \/ rpc = "signal"

\* No step loses the wakeup of a loop that is about to block.
LEMMA WakeStep ==
    ASSUME TypeOK, EngineInv, WakeInv, Next
    PROVE WakeInv'
<1>1. pc \in [Runner -> RunLoc] /\ CallersOK BY DEF TypeOK, CallersOK
<1>2. ASSUME NEW r \in Runner, RunStep(r) \/ PeerReads(r) PROVE WakeInv'
  <2>1. PICK l \in RunLoc : Moves(r, l) BY <1>1, <1>2, RunMoves
  <2>2. \A r2 \in Runner : r2 # r => pc'[r2] = "idle"
    BY <1>1, <2>1 DEF Moves, EngineInv, SoleEngine
  <2>3. ASSUME pc'[r] \in Parked PROVE q' = <<>> \/ sig' \/ rpc' = "signal"
    <3>1. CASE EndDrain(r)
      BY <3>1, Zenon DEF EndDrain, kick, raise, inbox
    <3>2. CASE Park(r)
      <4>1. pc[r] \in Parked /\ UNCHANGED <<q, sig, rpc>>
        BY <3>2 DEF Park, Parked, loopFrame, inbox, reader
      <4> QED BY <4>1 DEF WakeInv
    <3> QED BY <3>1, <3>2, <1>1, <1>2, <2>3, ParkedAfter
  <2> QED BY <2>2, <2>3 DEF WakeInv, Parked
<1>3. ASSUME NEW r \in Runner, Run(r) PROVE WakeInv'
  <2>1. \A r2 \in Runner : pc'[r2] \in Parked => pc[r2] \in Parked
    BY <1>1, <1>3 DEF Run, claim, goto, Parked
  <2>2. UNCHANGED <<q, sig, rpc>> BY <1>3 DEF Run, inbox, reader
  <2> QED BY <2>1, <2>2 DEF WakeInv
<1>4. ASSUME NEW e \in Ender, CallEnd(e) \/ EndStep(e) PROVE UNCHANGED <<pc, q, sig, rpc>>
  BY <1>4 DEF CallEnd, EndStep, CancelEnd, CloseEnd, JoinReader, enderFrame, callers, reader,
      inbox
<1>5. ASSUME NEW s \in Sender, SendDevice(s) \/ SendStep(s) PROVE UNCHANGED <<pc, q, sig, rpc>>
  BY <1>5 DEF SendDevice, SendStep, AskDev, QueueDev, senderFrame, callers, reader, inbox
<1>6. CASE ReadFails \/ CancelHeard \/ Receive \/ HangUp
  <2>1. (UNCHANGED <<pc, q, sig>> /\ rpc # "signal") \/ UNCHANGED <<pc, q, sig, rpc>>
    BY <1>6 DEF ReadFails, CancelHeard, Receive, HangUp, readerFrame, callers, inbox
  <2> QED BY <2>1 DEF WakeInv
<1>7. CASE Push
  <2>1. pc' = pc /\ (rpc' = "signal" \/ (rpc = "push" /\ UNCHANGED <<q, sig>>))
    BY <1>7 DEF Push, readerFrame, callers, inbox
  <2> QED BY <2>1 DEF WakeInv
<1>8. CASE Signal BY <1>8, Zenon DEF Signal, raise, WakeInv
<1>9. CASE UNCHANGED <<pc, q, sig, rpc>> BY <1>9 DEF WakeInv
<1> QED BY <1>2, <1>3, <1>4, <1>5, <1>6, <1>7, <1>8, <1>9 DEF Next, ReaderStep

\* pktInbox and drain: however pushes, bounded drains and the one-slot
\* signal interleave, an event loop blocked in select with packets queued
\* has a signal waiting or about to be raised.
THEOREM NoLostWakeupHolds == Spec => []NoLostWakeup
<1>1. Init => EngineInv /\ WakeInv
  BY DEF Init, EngineInv, SoleEngine, WakeInv, Parked
<1>2. TypeOK /\ EngineInv /\ WakeInv /\ [Next]_vars => EngineInv' /\ WakeInv'
  <2>1. CASE UNCHANGED vars
    BY <2>1 DEF EngineInv, SoleEngine, WakeInv, vars, flags, callers, reader, inbox
  <2> QED BY <2>1, EngineStep, WakeStep
<1>3. WakeInv => NoLostWakeup BY DEF WakeInv, NoLostWakeup, Parked
<1> QED BY <1>1, <1>2, <1>3, TypeCorrect, PTL DEF Spec

-----------------------------------------------------------------------------
(* The path of packets implements PacketFeed.                              *)

\* What is left of a queue with one more element behind it.
LEMMA Appended ==
    ASSUME NEW s \in Seq(Nat), NEW n \in Nat
    PROVE /\ Len(Append(s, n)) = Len(s) + 1
          /\ SubSeq(Append(s, n), 1, Len(s)) = s
          /\ SubSeq(Append(s, n), Len(s) + 1, Len(s) + 1) = <<n>>
          /\ s # <<>> => Tail(Append(s, n)) = Append(Tail(s), n)
<1> DEFINE t == Append(s, n)
<1>1. t \in Seq(Nat) /\ Len(t) = Len(s) + 1 /\ t[Len(s) + 1] = n
      /\ \A i \in 1..Len(s) : t[i] = s[i]
  BY AppendProperties
<1>2. Len(s) \in Nat /\ \A i \in 1..(Len(s) + 1) : t[i] \in Nat
  BY <1>1, LenProperties, ElementOfSeq
<1> HIDE DEF t
<1>3. SubSeq(t, 1, Len(s)) = s
  <2>1. \A i \in 1..Len(s) : t[i] \in Nat BY <1>2
  <2>2. /\ SubSeq(t, 1, Len(s)) \in Seq(Nat)
        /\ Len(SubSeq(t, 1, Len(s))) = IF 1 <= Len(s) THEN Len(s) - 1 + 1 ELSE 0
        /\ \A i \in 1..(Len(s) - 1 + 1) : SubSeq(t, 1, Len(s))[i] = t[1 + i - 1]
    BY <1>2, <2>1, SubSeqProperties
  <2>3. Len(SubSeq(t, 1, Len(s))) = Len(s) BY <1>2, <2>2
  <2>4. \A i \in 1..Len(s) : SubSeq(t, 1, Len(s))[i] = s[i]
    <3> TAKE i \in 1..Len(s)
    <3>1. i \in 1..(Len(s) - 1 + 1) /\ 1 + i - 1 = i BY <1>2
    <3> QED BY <1>1, <2>2, <3>1
  <2> QED BY <2>2, <2>3, <2>4, SeqEqual
<1>4. SubSeq(t, Len(s) + 1, Len(s) + 1) = <<n>>
  <2> DEFINE m == Len(s) + 1
  <2>1. m \in Int /\ \A i \in m..m : t[i] \in Nat BY <1>2
  <2>2. /\ SubSeq(t, m, m) \in Seq(Nat)
        /\ Len(SubSeq(t, m, m)) = IF m <= m THEN m - m + 1 ELSE 0
        /\ \A i \in 1..(m - m + 1) : SubSeq(t, m, m)[i] = t[m + i - 1]
    BY <2>1, SubSeqProperties
  <2>3. Len(SubSeq(t, m, m)) = 1 BY <2>1, <2>2
  <2>4. SubSeq(t, m, m)[1] = n
    <3>1. 1 \in 1..(m - m + 1) /\ m + 1 - 1 = m BY <2>1
    <3> QED BY <1>1, <2>2, <3>1
  <2>5. <<n>> \in Seq(Nat) /\ Len(<<n>>) = 1 /\ <<n>>[1] = n OBVIOUS
  <2> HIDE DEF m
  <2>6. \A i \in 1..Len(SubSeq(t, m, m)) : SubSeq(t, m, m)[i] = <<n>>[i]
    <3> TAKE i \in 1..Len(SubSeq(t, m, m))
    <3>1. i = 1 BY <2>3
    <3> QED BY <2>4, <2>5, <3>1
  <2>7. SubSeq(t, m, m) = <<n>> BY <2>2, <2>3, <2>5, <2>6, SeqEqual
  <2> QED BY <2>7 DEF m
<1>5. s # <<>> => Tail(t) = Append(Tail(s), n) BY HeadTailAppend DEF t
<1> QED BY <1>1, <1>3, <1>4, <1>5 DEF t

\* The reader goroutine is spawned once, by the Run that sets started.
StartInv ==
    /\ ~started => rpc = "off"
    /\ \A r \in Runner : pc[r] = "publish" => ~started
    /\ \A r \in Runner : pc[r] = "spawn" => started /\ rpc = "off"

\* What a step of Run does to the reader's state and to started.
LEMMA RunStarts ==
    ASSUME CallersOK, NEW r \in Runner, RunStep(r) \/ PeerReads(r)
    PROVE /\ rpc' = rpc \/ (pc[r] = "spawn" /\ started' = started)
          /\ started' = started \/ (pc[r] = "publish" /\ started')
          /\ pc'[r] = "publish" => ~started' /\ rpc' = rpc
          /\ pc'[r] = "spawn" => pc[r] = "publish" /\ started' /\ rpc' = rpc
<1> USE DEF CallersOK, flags, reader
<1>1. CASE StoreCloser(r) BY <1>1 DEF StoreCloser, goto
<1>2. CASE CheckAbort(r) BY <1>2 DEF CheckAbort, goto, return
<1>3. CASE Publish(r) BY <1>3 DEF Publish, goto
<1>4. CASE SpawnReader(r) BY <1>4 DEF SpawnReader, goto
<1>5. CASE ResetOptions(r) BY <1>5
  DEF ResetOptions, goto, resetOptions, forgetNegotiated, forgetOptions
<1>6. CASE NewBatch(r) BY <1>6 DEF NewBatch, goto, freshInbox, reset
<1>7. CASE Act(r) BY <1>7 DEF Act, writeFails, startDrain, goto, loopFrame, fail, abandon, return
<1>8. CASE PeerReads(r) BY <1>8 DEF PeerReads, goto, loopFrame
<1>9. CASE WriteBroken(r) BY <1>9
  DEF WriteBroken, writeFails, loopFrame, fail, abandon, return, goto
<1>10. CASE HandlePacket(r) BY <1>10
  DEF HandlePacket, tryPop, writeFails, goto, loopFrame, Progress, fail, abandon, return
<1>11. CASE Negotiated(r) BY <1>11 DEF Negotiated, writeFails, loopFrame, fail, abandon, return, goto
<1>12. CASE DrainDevice(r) BY <1>12 DEF DrainDevice, loopFrame
<1>13. CASE EndDrain(r) BY <1>13 DEF EndDrain, goto, return, loopFrame, kick, raise
<1>14. CASE Pump(r) BY <1>14 DEF Pump, timer, goto, loopFrame, fail, abandon, return
<1>15. CASE Park(r) BY <1>15 DEF Park, goto, loopFrame
<1>16. CASE Wake(r) BY <1>16
  DEF Wake, timer, goto, startDrain, takeToken, loopFrame, fail, abandon, return
<1>17. CASE WakeAborted(r) BY <1>17 DEF WakeAborted, loopFrame, fail, abandon, return, goto
<1>18. CASE CancelRun(r) BY <1>18 DEF CancelRun, goto
<1>19. CASE CloseRun(r) BY <1>19 DEF CloseRun, return, goto, close
<1> QED
  BY <1>1, <1>2, <1>3, <1>4, <1>5, <1>6, <1>7, <1>8, <1>9, <1>10, <1>11, <1>12, <1>13,
     <1>14, <1>15, <1>16, <1>17, <1>18, <1>19 DEF RunStep

\* There is at most one reader, and none before started.
LEMMA StartStep ==
    ASSUME TypeOK, EngineInv, StartInv, Next
    PROVE StartInv'
<1>1. pc \in [Runner -> RunLoc] /\ CallersOK BY DEF TypeOK, CallersOK
<1>2. ASSUME NEW r \in Runner, RunStep(r) \/ PeerReads(r) PROVE StartInv'
  <2>1. PICK l \in RunLoc : Moves(r, l) BY <1>1, <1>2, RunMoves
  <2>2. \A r2 \in Runner : r2 # r => pc'[r2] = "idle"
    BY <1>1, <2>1 DEF Moves, EngineInv, SoleEngine
  <2>3. /\ rpc' = rpc \/ (pc[r] = "spawn" /\ started' = started)
        /\ started' = started \/ (pc[r] = "publish" /\ started')
        /\ pc'[r] = "publish" => ~started' /\ rpc' = rpc
        /\ pc'[r] = "spawn" => pc[r] = "publish" /\ started' /\ rpc' = rpc
    BY <1>1, <1>2, RunStarts
  <2>4. ~started' => rpc' = "off" BY <2>3 DEF StartInv
  <2>5. pc'[r] = "spawn" => started' /\ rpc' = "off" BY <2>3 DEF StartInv
  <2> QED BY <2>2, <2>3, <2>4, <2>5 DEF StartInv
<1>3. ASSUME NEW r \in Runner, Run(r) PROVE StartInv'
  <2>1. \A r2 \in Runner : pc'[r2] \in {"publish", "spawn"} => pc'[r2] = pc[r2]
    BY <1>1, <1>3 DEF Run, claim, goto
  <2>2. UNCHANGED <<started, rpc>> BY <1>3 DEF Run, reader
  <2> QED BY <2>1, <2>2 DEF StartInv
<1>4. ASSUME NEW e \in Ender, CallEnd(e) \/ EndStep(e) PROVE UNCHANGED <<pc, started, rpc>>
  BY <1>4 DEF CallEnd, EndStep, CancelEnd, CloseEnd, JoinReader, enderFrame, callers, reader
<1>5. ASSUME NEW s \in Sender, SendDevice(s) \/ SendStep(s) PROVE UNCHANGED <<pc, started, rpc>>
  BY <1>5 DEF SendDevice, SendStep, AskDev, QueueDev, senderFrame, callers, reader, flags
<1>6. CASE ReaderStep \/ Receive \/ CancelHeard
  <2>1. UNCHANGED <<pc, started>> /\ rpc # "off"
    BY <1>6 DEF ReaderStep, ReadFails, Push, Signal, Receive, CancelHeard, readerFrame, callers,
                flags
  <2> QED BY <2>1 DEF StartInv
<1>7. HangUp => UNCHANGED <<pc, started, rpc>> BY DEF HangUp, callers, flags
<1>8. CASE UNCHANGED <<pc, started, rpc>> BY <1>8 DEF StartInv
<1> QED BY <1>2, <1>3, <1>4, <1>5, <1>6, <1>7, <1>8 DEF Next

\* Where the reader stands matters to the feed only at a push or overrun.
LEMMA FeedFrame ==
    ASSUME UNCHANGED <<q, nread>>,
           rpc' = rpc \/ ({rpc, rpc'} \cap {"push", "overrun"} = {})
    PROVE UNCHANGED Feed!feed
BY DEF Feed!feed

\* Only a new batch and a handled packet take packets off the queue.
LEMMA RunFeeds ==
    ASSUME TypeOK, StartInv, NEW r \in Runner, RunStep(r) \/ PeerReads(r)
    PROVE \/ UNCHANGED <<q, nread>> /\ (rpc' = rpc \/ (rpc = "off" /\ rpc' = "read"))
          \/ NewBatch(r) \/ HandlePacket(r)
<1> USE DEF flags, reader, inbox, StartInv
<1>1. CASE StoreCloser(r) BY <1>1 DEF StoreCloser, goto
<1>2. CASE CheckAbort(r) BY <1>2 DEF CheckAbort, goto, return
<1>3. CASE Publish(r) BY <1>3 DEF Publish, goto
<1>4. CASE SpawnReader(r) BY <1>4 DEF SpawnReader, goto
<1>5. CASE ResetOptions(r) BY <1>5
  DEF ResetOptions, goto, resetOptions, forgetNegotiated, forgetOptions
<1>6. CASE NewBatch(r) BY <1>6 DEF NewBatch, goto, freshInbox, reset
<1>7. CASE Act(r) BY <1>7 DEF Act, writeFails, startDrain, goto, loopFrame, fail, abandon, return
<1>8. CASE PeerReads(r) BY <1>8 DEF PeerReads, goto, loopFrame
<1>9. CASE WriteBroken(r) BY <1>9
  DEF WriteBroken, writeFails, loopFrame, fail, abandon, return, goto
<1>10. CASE HandlePacket(r) BY <1>10
  DEF HandlePacket, tryPop, writeFails, goto, loopFrame, Progress, fail, abandon, return
<1>11. CASE Negotiated(r) BY <1>11 DEF Negotiated, writeFails, loopFrame, fail, abandon, return, goto
<1>12. CASE DrainDevice(r) BY <1>12 DEF DrainDevice, loopFrame
<1>13. CASE EndDrain(r) BY <1>13 DEF EndDrain, goto, return, loopFrame, kick, raise
<1>14. CASE Pump(r) BY <1>14 DEF Pump, timer, goto, loopFrame, fail, abandon, return
<1>15. CASE Park(r) BY <1>15 DEF Park, goto, loopFrame
<1>16. CASE Wake(r) BY <1>16
  DEF Wake, timer, goto, startDrain, takeToken, loopFrame, fail, abandon, return
<1>17. CASE WakeAborted(r) BY <1>17 DEF WakeAborted, loopFrame, fail, abandon, return, goto
<1>18. CASE CancelRun(r) BY <1>18 DEF CancelRun, goto
<1>19. CASE CloseRun(r) BY <1>19 DEF CloseRun, return, goto, close
<1> QED
  BY <1>1, <1>2, <1>3, <1>4, <1>5, <1>6, <1>7, <1>8, <1>9, <1>10, <1>11, <1>12, <1>13,
     <1>14, <1>15, <1>16, <1>17, <1>18, <1>19 DEF RunStep

\* Every step is a step of the feed or leaves it alone.
LEMMA FeedStep ==
    ASSUME TypeOK, StartInv, Next
    PROVE Feed!FeedNext \/ UNCHANGED Feed!feed
<1>1. q \in Seq(Nat) /\ nread \in Nat /\ rpc \in ReadLoc /\ CallersOK
  BY SessionAssumption DEF TypeOK, PacketsOK, SessionAssumption
<1>2. Len(q) \in Nat /\ (q # <<>> => Len(q) > 0) BY <1>1, EmptySeq, LenProperties
<1>3. ASSUME NEW r \in Runner, NewBatch(r) PROVE Feed!FeedNext \/ UNCHANGED Feed!feed
  <2>1. q' = <<>> /\ UNCHANGED <<nread, rpc>> BY <1>3 DEF NewBatch, freshInbox, reset, reader
  <2>2. CASE q = <<>> BY <2>1, <2>2 DEF Feed!feed
  <2>3. CASE q # <<>> /\ rpc = "push"
    <3>1. SubSeq(Append(q, nread), Len(q) + 1, Len(Append(q, nread))) = <<nread>>
      BY <1>1, Appended
    <3>2. Append(<<>>, nread) = <<nread>> OBVIOUS
    <3>3. Len(q) \in 1..Len(Append(q, nread)) BY <1>1, <1>2, <2>3, Appended
    <3> QED BY <2>1, <2>3, <3>1, <3>2, <3>3 DEF Feed!FeedNext, Feed!Forget
  <2>4. CASE q # <<>> /\ rpc # "push"
    <3>1. SubSeq(q, Len(q) + 1, Len(q)) = <<>> BY <1>2, SubSeqEmpty
    <3>2. Len(q) \in 1..Len(q) BY <1>2, <2>4
    <3> QED BY <2>1, <2>4, <3>1, <3>2 DEF Feed!FeedNext, Feed!Forget
  <2> QED BY <2>2, <2>3, <2>4
<1>4. ASSUME NEW r \in Runner, HandlePacket(r) PROVE Feed!FeedNext
  <2>1. q # <<>> /\ q' = Tail(q) /\ UNCHANGED <<nread, rpc>>
    BY <1>4 DEF HandlePacket, tryPop, loopFrame, reader
  <2>2. CASE rpc = "push"
    <3>1. Append(q, nread) # <<>> /\ Tail(Append(q, nread)) = Append(Tail(q), nread)
      BY <1>1, <2>1, Appended, AppendProperties
    <3> QED BY <2>1, <2>2, <3>1 DEF Feed!FeedNext, Feed!Handle
  <2>3. CASE rpc # "push" BY <2>1, <2>3 DEF Feed!FeedNext, Feed!Handle
  <2> QED BY <2>2, <2>3
<1>5. ASSUME NEW r \in Runner, RunStep(r) \/ PeerReads(r), ~NewBatch(r), ~HandlePacket(r)
      PROVE UNCHANGED Feed!feed
  <2>1. UNCHANGED <<q, nread>> /\ (rpc' = rpc \/ (rpc = "off" /\ rpc' = "read"))
    BY <1>5, RunFeeds
  <2> QED BY <2>1, FeedFrame DEF ReadLoc
<1>6. ASSUME NEW r \in Runner, Run(r) PROVE UNCHANGED Feed!feed
  <2>1. UNCHANGED <<q, nread, rpc>> BY <1>6 DEF Run, reader, inbox
  <2> QED BY <2>1, FeedFrame
<1>7. ASSUME NEW e \in Ender, CallEnd(e) \/ EndStep(e) PROVE UNCHANGED Feed!feed
  <2>1. UNCHANGED <<q, nread, rpc>>
    BY <1>7 DEF CallEnd, EndStep, CancelEnd, CloseEnd, JoinReader, enderFrame, reader, inbox
  <2> QED BY <2>1, FeedFrame
<1>8. ASSUME NEW s \in Sender, SendDevice(s) \/ SendStep(s) PROVE UNCHANGED Feed!feed
  <2>1. UNCHANGED <<q, nread, rpc>>
    BY <1>8 DEF SendDevice, SendStep, AskDev, QueueDev, senderFrame, reader, inbox
  <2> QED BY <2>1, FeedFrame
<1>9. CASE Receive
  <2>1. rpc = "read" /\ rpc' = "push" /\ nread' = nread + 1 /\ q' = q
    BY <1>9 DEF Receive, inbox
  <2> QED BY <2>1 DEF Feed!FeedNext, Feed!Arrive
<1>10. CASE ReadFails \/ CancelHeard
  <2>1. UNCHANGED <<q, nread>> /\ rpc = "read" /\ rpc' = "done"
    BY <1>10 DEF ReadFails, CancelHeard, inbox
  <2> QED BY <2>1, FeedFrame DEF ReadLoc
<1>11. CASE Push
  <2>1. CASE enqueue(nread) /\ rpc' = "signal"
    <3>1. rpc = "push" /\ nread' = nread /\ q' = Append(q, nread)
      BY <1>11, <2>1 DEF Push, enqueue
    <3> QED BY <2>1, <3>1 DEF Feed!feed
  <2>2. CASE overrun /\ UNCHANGED inbox
    <3>1. rpc = "push" /\ rpc' = "overrun" /\ UNCHANGED <<q, nread>>
      BY <1>11, <2>2 DEF Push, overrun, inbox
    <3>2. /\ Append(q, nread) # <<>>
          /\ SubSeq(Append(q, nread), 1, Len(Append(q, nread)) - 1) = q
      <4>1. Append(q, nread) # <<>> BY <1>1, AppendProperties
      <4>2. Len(Append(q, nread)) - 1 = Len(q) BY <1>1, <1>2, Appended
      <4> QED BY <1>1, <4>1, <4>2, Appended
    <3> QED BY <3>1, <3>2 DEF Feed!FeedNext, Feed!Overrun
  <2> QED BY <1>11, <2>1, <2>2 DEF Push
<1>12. CASE Signal
  <2>1. UNCHANGED <<q, nread>> /\ rpc = "signal" /\ rpc' = "read" BY <1>12 DEF Signal, raise
  <2> QED BY <2>1, FeedFrame DEF ReadLoc
<1>13. CASE HangUp
  <2>1. UNCHANGED <<q, nread, rpc>> BY <1>13 DEF HangUp, inbox
  <2> QED BY <2>1, FeedFrame
<1> QED
  BY <1>3, <1>4, <1>5, <1>6, <1>7, <1>8, <1>9, <1>10, <1>11, <1>12, <1>13 DEF Next, ReaderStep

\* readerLoop, pktInbox and drain: the session hands packets to handlePacket
\* in the order they arrive, each at most once, passing over none but those
\* a new batch or an overrun discards.
THEOREM FeedImplemented == Spec => InOrder
<1>1. Init => Feed!FeedInit BY DEF Init, InboxInit, Feed!FeedInit
<1>2. Init => EngineInv /\ StartInv
  BY DEF Init, EngineInv, SoleEngine, StartInv
<1>3. TypeOK /\ EngineInv /\ StartInv /\ [Next]_vars => EngineInv' /\ StartInv'
  <2>1. CASE UNCHANGED vars
    BY <2>1 DEF EngineInv, SoleEngine, StartInv, vars, flags, callers, reader, inbox
  <2> QED BY <2>1, EngineStep, StartStep
<1>4. TypeOK /\ StartInv /\ [Next]_vars => [Feed!FeedNext]_(Feed!feed)
  <2>1. CASE UNCHANGED vars BY <2>1, FeedFrame DEF vars, reader, inbox
  <2> QED BY <2>1, FeedStep
<1> QED BY <1>1, <1>2, <1>3, <1>4, TypeCorrect, PTL DEF Spec, InOrder, Feed!FeedSpec

-----------------------------------------------------------------------------
(* A batch never sees the packets of the one before.                       *)

\* A Run is in its batch because it was there or has just begun it.
LEMMA WaitingAfter ==
    ASSUME CallersOK, NEW r \in Runner, RunStep(r) \/ PeerReads(r), pc'[r] \in Waiting
    PROVE \/ NewBatch(r)
          \/ /\ pc[r] \in Waiting /\ UNCHANGED <<floor, nread, rpc>>
             /\ q' = q \/ (q # <<>> /\ q' = Tail(q))
<1> USE DEF CallersOK, Waiting, reader, callers, inbox
<1>1. CASE StoreCloser(r) BY <1>1 DEF StoreCloser, goto
<1>2. CASE CheckAbort(r) BY <1>2 DEF CheckAbort, goto, return
<1>3. CASE Publish(r) BY <1>3 DEF Publish, goto
<1>4. CASE SpawnReader(r) BY <1>4 DEF SpawnReader, goto
<1>5. CASE ResetOptions(r) BY <1>5
  DEF ResetOptions, goto, resetOptions, forgetNegotiated, forgetOptions
<1>6. CASE NewBatch(r) BY <1>6 DEF NewBatch, goto, freshInbox, reset
<1>7. CASE Act(r) BY <1>7 DEF Act, writeFails, startDrain, goto, loopFrame, fail, abandon, return
<1>8. CASE PeerReads(r) BY <1>8 DEF PeerReads, goto, loopFrame
<1>9. CASE WriteBroken(r) BY <1>9
  DEF WriteBroken, writeFails, loopFrame, fail, abandon, return, goto
<1>10. CASE HandlePacket(r) BY <1>10
  DEF HandlePacket, tryPop, writeFails, goto, loopFrame, Progress, fail, abandon, return
<1>11. CASE Negotiated(r) BY <1>11 DEF Negotiated, writeFails, loopFrame, fail, abandon, return, goto
<1>12. CASE DrainDevice(r) BY <1>12 DEF DrainDevice, loopFrame
<1>13. CASE EndDrain(r) BY <1>13 DEF EndDrain, goto, return, loopFrame, kick, raise
<1>14. CASE Pump(r) BY <1>14 DEF Pump, timer, goto, loopFrame, fail, abandon, return
<1>15. CASE Park(r) BY <1>15 DEF Park, goto, loopFrame
<1>16. CASE Wake(r) BY <1>16
  DEF Wake, timer, goto, startDrain, takeToken, loopFrame, fail, abandon, return
<1>17. CASE WakeAborted(r) BY <1>17 DEF WakeAborted, loopFrame, fail, abandon, return, goto
<1>18. CASE CancelRun(r) BY <1>18 DEF CancelRun, goto
<1>19. CASE CloseRun(r) BY <1>19 DEF CloseRun, return, goto, close
<1> QED
  BY <1>1, <1>2, <1>3, <1>4, <1>5, <1>6, <1>7, <1>8, <1>9, <1>10, <1>11, <1>12, <1>13,
     <1>14, <1>15, <1>16, <1>17, <1>18, <1>19 DEF RunStep

TailInv == \A r \in Runner : pc[r] \in Waiting =>
    /\ floor <= nread /\ (rpc = "push" => floor < nread)
    /\ \A i \in 1..Len(q) : q[i] > floor

\* Every packet of the inbox is newer than the batch.
LEMMA TailStep ==
    ASSUME TypeOK, EngineInv, TailInv, Next
    PROVE TailInv'
<1>1. q \in Seq(Nat) /\ nread \in Nat /\ floor \in Int /\ pc \in [Runner -> RunLoc] /\ CallersOK
  BY SessionAssumption DEF TypeOK, CallersOK, PacketsOK, SessionAssumption
<1>2. Len(q) \in Nat /\ \A i \in 1..Len(q) : q[i] \in Nat BY <1>1, ElementOfSeq, LenProperties
<1>3. ASSUME NEW r \in Runner, RunStep(r) \/ PeerReads(r) PROVE TailInv'
  <2>1. PICK l \in RunLoc : Moves(r, l) BY <1>1, <1>3, RunMoves
  <2>2. \A r2 \in Runner : r2 # r => pc'[r2] = "idle"
    BY <1>1, <2>1 DEF Moves, EngineInv, SoleEngine
  <2>3. ASSUME pc'[r] \in Waiting
        PROVE /\ floor' <= nread' /\ (rpc' = "push" => floor' < nread')
              /\ \A i \in 1..Len(q') : q'[i] > floor'
    <3>1. CASE NewBatch(r)
      <4>1. q' = <<>> /\ UNCHANGED <<nread, rpc>>
            /\ floor' = IF rpc = "push" THEN nread - 1 ELSE nread
        BY <3>1 DEF NewBatch, freshInbox, reset, reader
      <4>2. floor' <= nread' /\ (rpc' = "push" => floor' < nread') BY <1>1, <4>1
      <4>3. Len(q') = 0 BY <4>1
      <4> QED BY <4>2, <4>3
    <3>2. CASE pc[r] \in Waiting /\ UNCHANGED <<floor, nread, rpc>> /\ q' = q
      BY <3>2 DEF TailInv
    <3>3. CASE pc[r] \in Waiting /\ UNCHANGED <<floor, nread, rpc>> /\ q # <<>> /\ q' = Tail(q)
      <4>1. Len(q') = Len(q) - 1 /\ \A i \in 1..Len(q') : q'[i] = q[i + 1]
        BY <1>1, <3>3, HeadTailProperties
      <4>2. \A i \in 1..Len(q') : i + 1 \in 1..Len(q) BY <1>2, <4>1
      <4> QED BY <3>3, <4>1, <4>2 DEF TailInv
    <3> QED BY <1>1, <1>3, <2>3, <3>1, <3>2, <3>3, WaitingAfter
  <2>4. "idle" \notin Waiting BY DEF Waiting
  <2> QED BY <2>2, <2>3, <2>4 DEF TailInv
<1>4. ASSUME NEW r \in Runner, Run(r) PROVE TailInv'
  <2>1. \A r2 \in Runner : pc'[r2] \in Waiting => pc[r2] \in Waiting
    BY <1>1, <1>4 DEF Run, claim, goto, Waiting
  <2>2. UNCHANGED <<q, nread, rpc, floor>> BY <1>4 DEF Run, inbox, reader
  <2> QED BY <2>1, <2>2 DEF TailInv
<1>5. ASSUME NEW e \in Ender, CallEnd(e) \/ EndStep(e)
      PROVE UNCHANGED <<pc, q, nread, rpc, floor>>
  BY <1>5 DEF CallEnd, EndStep, CancelEnd, CloseEnd, JoinReader, enderFrame, callers, reader,
      inbox
<1>6. ASSUME NEW s \in Sender, SendDevice(s) \/ SendStep(s)
      PROVE UNCHANGED <<pc, q, nread, rpc, floor>>
  BY <1>6 DEF SendDevice, SendStep, AskDev, QueueDev, senderFrame, callers, reader, inbox
<1>7. CASE ReadFails \/ CancelHeard \/ Signal
  <2>1. UNCHANGED <<pc, q, nread, floor>> /\ rpc' # "push"
    BY <1>7 DEF ReadFails, CancelHeard, Signal, raise, readerFrame, callers, inbox
  <2> QED BY <2>1 DEF TailInv
<1>8. CASE Receive
  <2>1. UNCHANGED <<pc, q, floor>> /\ nread' = nread + 1
    BY <1>8 DEF Receive, readerFrame, callers, inbox
  <2> QED BY <1>1, <2>1 DEF TailInv
<1>9. CASE Push
  <2>1. CASE enqueue(nread) /\ rpc' = "signal"
    <3>1. UNCHANGED <<pc, floor, nread>> /\ rpc = "push" /\ q' = Append(q, nread)
      BY <1>9, <2>1 DEF Push, enqueue, readerFrame, callers
    <3>2. /\ Len(q') = Len(q) + 1 /\ q'[Len(q) + 1] = nread
          /\ \A i \in 1..Len(q) : q'[i] = q[i]
      BY <1>1, <3>1, AppendProperties
    <3>3. \A i \in 1..Len(q') : i \in 1..Len(q) \/ i = Len(q) + 1 BY <1>2, <3>2
    <3> QED BY <1>1, <2>1, <3>1, <3>2, <3>3 DEF TailInv
  <2>2. CASE overrun /\ UNCHANGED inbox
    <3>1. UNCHANGED <<pc, floor, nread, q>> /\ rpc' = "overrun"
      BY <1>9, <2>2 DEF Push, overrun, readerFrame, callers, inbox
    <3> QED BY <3>1 DEF TailInv
  <2> QED BY <1>9, <2>1, <2>2 DEF Push
<1>10. HangUp => UNCHANGED <<pc, q, nread, rpc, floor>> BY DEF HangUp, callers, inbox
<1>11. CASE UNCHANGED <<pc, q, nread, rpc, floor>> BY <1>11 DEF TailInv
<1> QED
  BY <1>3, <1>4, <1>5, <1>6, <1>7, <1>8, <1>9, <1>10, <1>11 DEF Next, ReaderStep

\* newBatch, pktInbox.reset: no packet that had reached the inbox when a Run
\* reset it is in the inbox of that Run.
THEOREM NoTailTrafficHolds == Spec => []NoTailTraffic
<1>1. Init => EngineInv /\ TailInv
  BY DEF Init, EngineInv, SoleEngine, TailInv, Waiting
<1>2. TypeOK /\ EngineInv /\ TailInv /\ [Next]_vars => EngineInv' /\ TailInv'
  <2>1. CASE UNCHANGED vars
    BY <2>1 DEF EngineInv, SoleEngine, TailInv, vars, flags, callers, reader, inbox
  <2> QED BY <2>1, EngineStep, TailStep
<1>3. TailInv => NoTailTraffic BY DEF TailInv, NoTailTraffic
<1> QED BY <1>1, <1>2, <1>3, TypeCorrect, PTL DEF Spec

-----------------------------------------------------------------------------
(* An error shuts the transport.                                           *)

\* An Abort or a Close is on its way to close().
Ending == \E e \in Ender : epc[e] \in {"cancelling", "closing"}

ClosedInv == closeUsed => shut \/ blind
AbortInv == aborted => closeUsed \/ Ending \/ \E r \in Runner : pc[r] \in Stopping
ErrorInv == (\E r \in Runner : res[r] \in Errors) => closeUsed \/ Ending
CloseInv == ClosedInv /\ AbortInv /\ ErrorInv

\* A Run that gives up is on its way to close(), and only one that leaves
\* it, or finds the session aborted, returns an error.
LEMMA RunGivesUp ==
    ASSUME TypeOK, NEW r \in Runner, RunStep(r) \/ PeerReads(r), ~CloseRun(r)
    PROVE /\ UNCHANGED <<closeUsed, shut, blind>>
          /\ aborted' = aborted \/ pc'[r] \in Stopping
          /\ pc[r] \in Stopping => pc'[r] \in Stopping
          /\ \/ \A r2 \in Runner : res'[r2] = res[r2] \/ res'[r2] \notin Errors
             \/ pc[r] = "check" /\ aborted /\ UNCHANGED aborted
<1> USE DEF TypeOK, CallersOK, Stopping, flags, callers, Errors, NoError
<1>1. CASE StoreCloser(r) BY <1>1 DEF StoreCloser, goto
<1>2. CASE CheckAbort(r) BY <1>2 DEF CheckAbort, goto, return
<1>3. CASE Publish(r) BY <1>3 DEF Publish, goto
<1>4. CASE SpawnReader(r) BY <1>4 DEF SpawnReader, goto
<1>5. CASE ResetOptions(r) BY <1>5
  DEF ResetOptions, goto, resetOptions, forgetNegotiated, forgetOptions
<1>6. CASE NewBatch(r) BY <1>6 DEF NewBatch, goto, freshInbox, reset
<1>7. CASE Act(r) BY <1>7 DEF Act, writeFails, startDrain, goto, loopFrame, fail, abandon, return
<1>8. CASE PeerReads(r) BY <1>8 DEF PeerReads, goto, loopFrame
<1>9. CASE WriteBroken(r) BY <1>9
  DEF WriteBroken, writeFails, loopFrame, fail, abandon, return, goto
<1>10. CASE HandlePacket(r) BY <1>10
  DEF HandlePacket, tryPop, writeFails, goto, loopFrame, Progress, fail, abandon, return
<1>11. CASE Negotiated(r) BY <1>11 DEF Negotiated, writeFails, loopFrame, fail, abandon, return, goto
<1>12. CASE DrainDevice(r) BY <1>12 DEF DrainDevice, loopFrame
<1>13. CASE EndDrain(r) BY <1>13 DEF EndDrain, goto, return, loopFrame, kick, raise
<1>14. CASE Pump(r) BY <1>14 DEF Pump, timer, goto, loopFrame, fail, abandon, return
<1>15. CASE Park(r) BY <1>15 DEF Park, goto, loopFrame
<1>16. CASE Wake(r) BY <1>16
  DEF Wake, timer, goto, startDrain, takeToken, loopFrame, fail, abandon, return
<1>17. CASE WakeAborted(r) BY <1>17 DEF WakeAborted, loopFrame, fail, abandon, return, goto
<1>18. CASE CancelRun(r) BY <1>18 DEF CancelRun, goto
<1>19. CASE CloseRun(r) BY <1>19
<1> QED
  BY <1>1, <1>2, <1>3, <1>4, <1>5, <1>6, <1>7, <1>8, <1>9, <1>10, <1>11, <1>12, <1>13,
     <1>14, <1>15, <1>16, <1>17, <1>18, <1>19 DEF RunStep

\* An abort or an error is always followed up by close().
LEMMA CloseStep ==
    ASSUME TypeOK, EngineInv, CloseInv, Next
    PROVE CloseInv'
<1> USE DEF CloseInv, ClosedInv, AbortInv, ErrorInv
<1>1. pc \in [Runner -> RunLoc] /\ epc \in [Ender -> EndLoc] /\ CallersOK
  BY DEF TypeOK, CallersOK
<1>2. ASSUME NEW r \in Runner, RunStep(r) \/ PeerReads(r) PROVE CloseInv'
  <2>1. PICK l \in RunLoc : Moves(r, l) BY <1>1, <1>2, RunMoves
  <2>2. pc' = [pc EXCEPT ![r] = l] /\ \A r2 \in Runner : r2 # r => pc[r2] = "idle"
    BY <1>1, <2>1 DEF Moves, EngineInv, SoleEngine
  <2>3. Ending' <=> Ending BY <1>2, RunKeeps DEF Ending
  <2>4. CASE CloseRun(r)
    <3>1. closeUsed' /\ (shut' \/ blind')
      BY <2>4, Zenon DEF CloseRun, close, CloseInv, ClosedInv
    <3> QED BY <3>1
  <2>5. CASE ~CloseRun(r)
    <3>1. /\ UNCHANGED <<closeUsed, shut, blind>>
          /\ aborted' = aborted \/ pc'[r] \in Stopping
          /\ pc[r] \in Stopping => pc'[r] \in Stopping
          /\ \/ \A r2 \in Runner : res'[r2] = res[r2] \/ res'[r2] \notin Errors
             \/ pc[r] = "check" /\ aborted /\ UNCHANGED aborted
      BY <1>2, <2>5, RunGivesUp
    <3>2. ClosedInv' BY <3>1
    <3>3. AbortInv'
      <4>1. CASE pc'[r] \in Stopping BY <4>1
      <4>2. CASE pc'[r] \notin Stopping
        <5>1. aborted' = aborted /\ ~\E r2 \in Runner : pc[r2] \in Stopping
          BY <2>2, <3>1, <4>2 DEF Stopping
        <5> QED BY <2>3, <3>1, <5>1
      <4> QED BY <4>1, <4>2
    <3>4. ErrorInv'
      <4>1. CASE \A r2 \in Runner : res'[r2] = res[r2] \/ res'[r2] \notin Errors
        BY <2>3, <3>1, <4>1
      <4>2. CASE pc[r] = "check" /\ aborted
        <5>1. ~\E r2 \in Runner : pc[r2] \in Stopping BY <2>2, <4>2 DEF Stopping
        <5> QED BY <2>3, <3>1, <4>2, <5>1
      <4> QED BY <3>1, <4>1, <4>2
    <3> QED BY <3>2, <3>3, <3>4
  <2> QED BY <2>4, <2>5
<1>3. ASSUME NEW r \in Runner, Run(r) PROVE CloseInv'
  <2>1. UNCHANGED <<closeUsed, shut, blind, aborted, epc>> BY <1>3 DEF Run
  <2>2. \A r2 \in Runner : pc[r2] \in Stopping => pc'[r2] = pc[r2]
    BY <1>1, <1>3 DEF Run, claim, goto, Stopping
  <2>3. \A r2 \in Runner : res'[r2] = res[r2] \/ res'[r2] \notin Errors
    BY <1>3 DEF Run, claim, CallersOK, TypeOK, Errors, NoError
  <2> QED BY <2>1, <2>2, <2>3 DEF Ending
<1>4. ASSUME NEW e \in Ender, CallEnd(e) PROVE CloseInv'
  <2>1. UNCHANGED <<closeUsed, shut, blind, pc, res>> BY <1>4 DEF CallEnd, enderFrame, callers
  <2>2. epc'[e] \in {"cancelling", "closing"} BY <1>1, <1>4 DEF CallEnd, end
  <2> QED BY <2>1, <2>2 DEF Ending
<1>5. ASSUME NEW e \in Ender, CancelEnd(e) PROVE CloseInv'
  <2>1. UNCHANGED <<closeUsed, shut, blind, aborted, pc, res>>
    BY <1>5 DEF CancelEnd, enderFrame, callers
  <2>2. epc'[e] = "closing" BY <1>1, <1>5 DEF CancelEnd, end
  <2> QED BY <2>1, <2>2 DEF Ending
<1>6. ASSUME NEW e \in Ender, CloseEnd(e) PROVE CloseInv'
  <2>1. closeUsed' /\ (shut' \/ blind')
    BY <1>6, Zenon DEF CloseEnd, close, CloseInv, ClosedInv
  <2> QED BY <2>1
<1>7. ASSUME NEW e \in Ender, JoinReader(e) PROVE CloseInv'
  <2>1. UNCHANGED <<closeUsed, shut, blind, aborted, pc, res>>
    BY <1>7 DEF JoinReader, enderFrame, callers
  <2>2. epc[e] = "joining" /\ epc' = [epc EXCEPT ![e] = "done"] BY <1>7 DEF JoinReader, end
  <2>3. Ending' <=> Ending BY <1>1, <2>2 DEF Ending
  <2> QED BY <2>1, <2>3
<1>8. ASSUME NEW s \in Sender, SendDevice(s) \/ SendStep(s)
      PROVE UNCHANGED <<closeUsed, shut, blind, aborted, pc, res, epc>>
  BY <1>8 DEF SendDevice, SendStep, AskDev, QueueDev, senderFrame, callers, flags
<1>9. ReaderStep \/ Receive \/ CancelHeard \/ HangUp
      => UNCHANGED <<closeUsed, shut, blind, aborted, pc, res, epc>>
  BY DEF ReaderStep, ReadFails, Push, Signal, Receive, CancelHeard, HangUp, readerFrame, callers,
         flags
<1>10. CASE UNCHANGED <<closeUsed, shut, blind, aborted, pc, res, epc>>
  BY <1>10 DEF Ending
<1> QED
  BY <1>2, <1>3, <1>4, <1>5, <1>6, <1>7, <1>8, <1>9, <1>10 DEF Next, EndStep

\* Run, Abort, Close: an error that some Run returned leaves the transport
\* closed once no Abort or Close is half-way, except where a close() came
\* before any Run had published the closer.
THEOREM ErrorShutsHolds == Spec => []ErrorShuts
<1>1. Init => EngineInv /\ CloseInv
  BY DEF Init, EngineInv, SoleEngine, CloseInv, ClosedInv, AbortInv, ErrorInv, Errors, NoError
<1>2. TypeOK /\ EngineInv /\ CloseInv /\ [Next]_vars => EngineInv' /\ CloseInv'
  <2>1. CASE UNCHANGED vars
    BY <2>1 DEF EngineInv, SoleEngine, CloseInv, ClosedInv, AbortInv, ErrorInv, Ending, vars,
                flags, callers
  <2> QED BY <2>1, EngineStep, CloseStep
<1>3. TypeOK /\ CloseInv => ErrorShuts
  BY DEF CloseInv, ClosedInv, ErrorInv, Ending, ErrorShuts, Settled
<1> QED BY <1>1, <1>2, <1>3, TypeCorrect, PTL DEF Spec

-----------------------------------------------------------------------------
(* SendDevice's verdict.                                                   *)

Asking == {s \in Sender : spc[s] = "second"}

\* While every peer has agreed to DEV, a call between its two reads sees
\* that, or saw Run begin to reset the negotiation.
VerdictInv == lacking \/
    /\ negotiated => effDev
    /\ \A s \in Asking : effDev \/ s \in straddled
    /\ unsupported \subseteq straddled
    /\ \A r \in Runner : pc[r] = "reset2" => ~negotiated /\ Asking \subseteq straddled
    /\ \A r \in Runner : pc[r] = "init" => effDev

\* What a step of Run that neither resets nor negotiates does to all this.
LEMMA RunAgrees ==
    ASSUME TypeOK, NEW r \in Runner, RunStep(r) \/ PeerReads(r),
           ~ResetOptions(r), ~HandlePacket(r), ~Negotiated(r)
    PROVE /\ UNCHANGED <<negotiated, effDev, spc, straddled, unsupported, lacking>>
          /\ pc'[r] \notin {"reset2", "init"}
<1> USE DEF TypeOK, CallersOK, device
<1>1. CASE StoreCloser(r) BY <1>1 DEF StoreCloser, goto
<1>2. CASE CheckAbort(r) BY <1>2 DEF CheckAbort, goto, return
<1>3. CASE Publish(r) BY <1>3 DEF Publish, goto
<1>4. CASE SpawnReader(r) BY <1>4 DEF SpawnReader, goto
<1>5. CASE ResetOptions(r) BY <1>5
<1>6. CASE NewBatch(r) BY <1>6 DEF NewBatch, goto, freshInbox, reset
<1>7. CASE Act(r) BY <1>7 DEF Act, writeFails, startDrain, goto, loopFrame, fail, abandon, return
<1>8. CASE PeerReads(r) BY <1>8 DEF PeerReads, goto, loopFrame
<1>9. CASE WriteBroken(r) BY <1>9
  DEF WriteBroken, writeFails, loopFrame, fail, abandon, return, goto
<1>10. CASE HandlePacket(r) BY <1>10
<1>11. CASE Negotiated(r) BY <1>11
<1>12. CASE DrainDevice(r) BY <1>12 DEF DrainDevice, loopFrame
<1>13. CASE EndDrain(r) BY <1>13 DEF EndDrain, goto, return, loopFrame, kick, raise
<1>14. CASE Pump(r) BY <1>14 DEF Pump, timer, goto, loopFrame, fail, abandon, return
<1>15. CASE Park(r) BY <1>15 DEF Park, goto, loopFrame
<1>16. CASE Wake(r) BY <1>16
  DEF Wake, timer, goto, startDrain, takeToken, loopFrame, fail, abandon, return
<1>17. CASE WakeAborted(r) BY <1>17 DEF WakeAborted, loopFrame, fail, abandon, return, goto
<1>18. CASE CancelRun(r) BY <1>18 DEF CancelRun, goto
<1>19. CASE CloseRun(r) BY <1>19 DEF CloseRun, return, goto, close
<1> QED
  BY <1>1, <1>2, <1>3, <1>4, <1>5, <1>6, <1>7, <1>8, <1>9, <1>10, <1>11, <1>12, <1>13,
     <1>14, <1>15, <1>16, <1>17, <1>18, <1>19 DEF RunStep

\* No step makes SendDevice's two reads disagree unnoticed.
LEMMA VerdictStep ==
    ASSUME TypeOK, EngineInv, VerdictInv, Next
    PROVE VerdictInv'
<1> USE DEF VerdictInv, Asking
<1>1. pc \in [Runner -> RunLoc] /\ spc \in [Sender -> {"idle", "second", "queue"}] /\ CallersOK
      /\ straddled \subseteq Sender /\ unsupported \subseteq Sender
  BY DEF TypeOK, CallersOK, DeviceOK
<1>2. ASSUME NEW r \in Runner, RunStep(r) \/ PeerReads(r) PROVE VerdictInv'
  <2>1. PICK l \in RunLoc : Moves(r, l) BY <1>1, <1>2, RunMoves
  <2>2. \A r2 \in Runner : r2 # r => pc'[r2] = "idle"
    BY <1>1, <2>1 DEF Moves, EngineInv, SoleEngine
  <2>3. CASE ResetOptions(r) /\ pc[r] = "reset"
    <3>1. /\ ~negotiated' /\ straddled' = straddled \cup Asking
          /\ UNCHANGED <<effDev, spc, unsupported, lacking>>
      BY <2>3, Zenon DEF ResetOptions, resetOptions, forgetNegotiated
    <3>2. pc'[r] = "reset2" BY <1>1, <2>3 DEF ResetOptions, goto
    <3> QED BY <2>2, <3>1, <3>2
  <2>4. CASE ResetOptions(r) /\ pc[r] = "reset2"
    <3>1. UNCHANGED <<negotiated, straddled, spc, unsupported, lacking>>
      BY <2>4 DEF ResetOptions, resetOptions, forgetOptions
    <3>2. pc'[r] = "reset3" BY <1>1, <2>4 DEF ResetOptions, goto
    <3> QED BY <2>2, <2>4, <3>1, <3>2
  <2>5. CASE HandlePacket(r)
    <3>1. UNCHANGED <<negotiated, spc, straddled, unsupported>> /\ pc[r] = "drain"
      BY <2>5 DEF HandlePacket
    <3>2. \/ UNCHANGED <<effDev, lacking>> /\ pc'[r] \notin {"reset2", "init"}
          \/ ~negotiated /\ effDev' \in BOOLEAN /\ (lacking' <=> lacking \/ ~effDev')
             /\ pc'[r] = "init"
      <4>1. CASE goto(r, "init") /\ ~negotiated /\ effDev' \in DevOffers
                 /\ lacking' = (lacking \/ ~effDev')
        BY <1>1, <4>1, SessionAssumption DEF goto, SessionAssumption
      <4>2. CASE UNCHANGED <<effDev, lacking>> /\ (UNCHANGED pc \/ goto(r, "stalled"))
        BY <1>1, <3>1, <4>2 DEF goto
      <4>3. CASE UNCHANGED <<effDev, lacking>> /\ (fail(r, "Batch") \/ writeFails(r))
        BY <1>1, <4>3 DEF writeFails, fail, return, goto
      <4> QED BY <2>5, <4>1, <4>2, <4>3 DEF HandlePacket
    <3>3. CASE UNCHANGED <<effDev, lacking>> /\ pc'[r] \notin {"reset2", "init"}
      BY <2>2, <3>1, <3>3
    <3>4. CASE ~negotiated /\ effDev' \in BOOLEAN /\ (lacking' <=> lacking \/ ~effDev')
               /\ pc'[r] = "init"
      <4>1. CASE lacking' BY <4>1
      <4>2. CASE ~lacking' BY <2>2, <3>1, <3>4, <4>2
      <4> QED BY <4>1, <4>2
    <3> QED BY <3>2, <3>3, <3>4
  <2>6. CASE Negotiated(r)
    <3>1. UNCHANGED <<effDev, spc, straddled, unsupported, lacking>> /\ pc[r] = "init"
      BY <2>6 DEF Negotiated
    <3>2. pc'[r] \notin {"reset2", "init"}
      BY <1>1, <2>6 DEF Negotiated, writeFails, fail, return, goto
    <3> QED BY <2>2, <3>1, <3>2
  <2>7. CASE ~ResetOptions(r) /\ ~HandlePacket(r) /\ ~Negotiated(r)
    <3>1. /\ UNCHANGED <<negotiated, effDev, spc, straddled, unsupported, lacking>>
          /\ pc'[r] \notin {"reset2", "init"}
      BY <1>2, <2>7, RunAgrees
    <3> QED BY <2>2, <3>1
  <2>8. ResetOptions(r) => pc[r] \in {"reset", "reset2"} BY DEF ResetOptions
  <2> QED BY <2>3, <2>4, <2>5, <2>6, <2>7, <2>8
<1>3. ASSUME NEW r \in Runner, Run(r) PROVE VerdictInv'
  <2>1. UNCHANGED <<negotiated, effDev, spc, straddled, unsupported, lacking>>
    BY <1>3 DEF Run, device
  <2>2. \A r2 \in Runner : pc'[r2] \in {"reset2", "init"} => pc'[r2] = pc[r2]
    BY <1>1, <1>3 DEF Run, claim, goto
  <2> QED BY <2>1, <2>2
<1>4. ASSUME NEW s \in Sender, SendDevice(s) PROVE VerdictInv'
  <2>1. /\ UNCHANGED <<negotiated, effDev, lacking, pc>>
        /\ spc' = [spc EXCEPT ![s] = IF negotiated THEN "second" ELSE "queue"]
        /\ straddled' = straddled \ {s} /\ unsupported' = unsupported \ {s}
    BY <1>4 DEF SendDevice, send, senderFrame, callers
  <2>2. \A s2 \in Sender : s2 # s => spc'[s2] = spc[s2] BY <1>1, <2>1
  <2>3. spc'[s] = "second" => negotiated BY <1>1, <2>1
  <2> QED BY <1>1, <2>1, <2>2, <2>3
<1>5. ASSUME NEW s \in Sender, AskDev(s) PROVE VerdictInv'
  <2>1. /\ UNCHANGED <<negotiated, effDev, lacking, pc, straddled>> /\ spc[s] = "second"
        /\ unsupported' = IF effDev THEN unsupported ELSE unsupported \cup {s}
    BY <1>5 DEF AskDev, senderFrame, callers
  <2>2. \A s2 \in Sender : spc'[s2] = "second" => spc[s2] = "second"
    BY <1>1, <1>5 DEF AskDev, send
  <2>3. lacking \/ unsupported' \subseteq straddled BY <1>1, <2>1
  <2> QED BY <1>1, <2>1, <2>2, <2>3
<1>6. ASSUME NEW s \in Sender, QueueDev(s) PROVE VerdictInv'
  <2>1. UNCHANGED <<negotiated, effDev, lacking, pc, straddled, unsupported>>
    BY <1>6 DEF QueueDev, senderFrame, callers
  <2>2. \A s2 \in Sender : spc'[s2] = "second" => spc[s2] = "second"
    BY <1>1, <1>6 DEF QueueDev, send
  <2> QED BY <2>1, <2>2
<1>7. ASSUME NEW e \in Ender, CallEnd(e) \/ EndStep(e) PROVE UNCHANGED <<device, pc>>
  BY <1>7 DEF CallEnd, EndStep, CancelEnd, CloseEnd, JoinReader, enderFrame, callers
<1>8. ReaderStep \/ Receive \/ CancelHeard \/ HangUp => UNCHANGED <<device, pc>>
  BY DEF ReaderStep, ReadFails, Push, Signal, Receive, CancelHeard, HangUp, readerFrame, callers
<1>9. CASE UNCHANGED <<device, pc>> BY <1>9 DEF device
<1> QED
  BY <1>2, <1>3, <1>4, <1>5, <1>6, <1>7, <1>8, <1>9 DEF Next, SendStep

\* SendDevice: ErrDevUnsupported is answered only if some peer negotiated a
\* batch without DEV or the call straddled the reset of the negotiation.
THEOREM DevVerdictHolds == Spec => []DevVerdict
<1>1. Init => EngineInv /\ VerdictInv
  BY DEF Init, EngineInv, SoleEngine, VerdictInv, Asking
<1>2. TypeOK /\ EngineInv /\ VerdictInv /\ [Next]_vars => EngineInv' /\ VerdictInv'
  <2>1. CASE UNCHANGED vars
    BY <2>1 DEF EngineInv, SoleEngine, VerdictInv, Asking, vars, flags, callers, device
  <2> QED BY <2>1, EngineStep, VerdictStep
<1>3. VerdictInv => DevVerdict BY DEF VerdictInv, DevVerdict
<1> QED BY <1>1, <1>2, <1>3, TypeCorrect, PTL DEF Spec

=============================================================================
