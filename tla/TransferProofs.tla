--------------------------- MODULE TransferProofs ---------------------------
(***************************************************************************)
(* Proofs about HydraBatch that the two ends of a transfer agree, for      *)
(* every set of files, choice of offers, sizes and windows, and every      *)
(* bound: they reach the end of the batch together, a batch that ends well *)
(* leaves no file behind, every writer holds what was sent of its file, no *)
(* sender runs ahead of its window, what a sender is told of a file fits   *)
(* what its receiver is told, and all of it refines FileDelivery.  Packets *)
(* may be lost, and any timer but a FINFO's (Patient) may fire before its  *)
(* answer.                                                                 *)
(***************************************************************************)
EXTENDS TransferSteps

-----------------------------------------------------------------------------
(* The phase of a direction: what is on the way in it, and how far its     *)
(* receiver can be, for each state of its sender.                          *)

NoneAfter(n, type, T) == \A k, l : Follows(n, k, l) /\ k.t = type => l.t \notin T

\* What the receiver did about the announcement f, from its answer.
Answered(f, off, r) ==
    IF f = EOB THEN r.state = "Done"
    ELSE IF off < 0 THEN r.state = "Finfo" /\ r.refused = f /\ r.refusedAck = off
    ELSE r.state = "Data" /\ r.file = f /\ r.pos = off

\* A FINFO on its way is the one its sender waits upon, and the last packet
\* it wrote.
Announced(n, t) ==
    /\ \A k \in Among(n) : k.t = "FINFO" => t.state = "FinfoAck" /\ k.f = t.lastFinfo
    /\ NoneAfter(n, "FINFO", Forward)

\* A FINFOACK on its way answers that FINFO, of which no copy is left, and is
\* the last answer.
Replied(n, m, t, r) ==
    /\ \A k \in Among(m) : k.t = "FINFOACK" =>
          t.state = "FinfoAck" /\ Void(n, Forward) /\ Answered(t.lastFinfo, k.off, r)
    /\ NoneAfter(m, "FINFOACK", Answer)

\* The sender's state and the receiver's.
Abreast(s, n, m, t, r) ==
    /\ t.state \in BeforeFinfo =>
          /\ r.state \in {"Init", "Finfo"} /\ t.lastFinfo = NoFile
          /\ Void(n, Forward) /\ Void(m, Answer)
    /\ t.state = "Finfo" => t.lastFinfo = NoFile /\ r.state = "Finfo"
    /\ t.state = "FinfoAck" =>
          /\ t.lastFinfo # NoFile /\ (t.eob <=> t.lastFinfo = EOB)
          /\ t.eob => r.state \in {"Finfo", "Done"}
          /\ ~t.eob => /\ t.lastFinfo = Current(s, t)
                       /\ r.state = "Finfo" \/ (r.state = "Data" /\ r.file = t.lastFinfo /\ r.pos >= 0)
          /\ r.state # "Finfo" => Void(n, {"DATA", "EOF"})
    /\ t.state \in Transferring =>
          /\ r.state = "Finfo" \/ (r.state = "Data" /\ r.file = Current(s, t))
          /\ r.state = "Finfo" \/ Void(m, {"EOFACK"})
    /\ t.state \in FromEnd \cup {"Rend"} => r.state = "Done"

Phase(s, n, m, t, r) ==
    /\ r.refused # NoFile => r.refusedAck < 0
    /\ Announced(n, t) /\ Replied(n, m, t, r) /\ Abreast(s, n, m, t, r)

\* Every state of a sender is one of these.
LEMMA TxStates ==
  /\ TxState = BeforeFinfo \cup {"Finfo", "FinfoAck"} \cup Transferring \cup {"Rend"} \cup FromEnd
  /\ BeforeFinfo \cap ({"Finfo", "FinfoAck", "Rend"} \cup Transferring \cup FromEnd) = {}
  /\ Transferring \cap ({"Finfo", "FinfoAck", "Rend"} \cup FromEnd) = {}
  /\ FromEnd \cap {"Finfo", "FinfoAck", "Rend"} = {}
  /\ RxState = {"Init", "Finfo", "Data", "Done"}
  BY DEF TxState, BeforeFinfo, Transferring, FromEnd, RxState

\* A channel that loses packets.
LEMMA LessVoid ==
  ASSUME NEW n, NEW m, Less(m, n)
  PROVE  /\ \A T : Void(n, T) => Void(m, T)
         /\ \A type, T : NoneAfter(n, type, T) => NoneAfter(m, type, T)
  BY DEF Less, Void, NoneAfter

\* One written to.
LEMMA AddsVoid ==
  ASSUME NEW n, NEW m, NEW k, Adds(m, n, k)
  PROVE  /\ \A T : T \subseteq Mattering /\ Void(n, T) /\ k.t \notin T => Void(m, T)
         /\ \A type \in Mattering : \A T : T \subseteq Mattering /\ NoneAfter(n, type, T)
              /\ (k.t \notin T \/ Void(n, {type})) => NoneAfter(m, type, T)
<1>1. ASSUME NEW T, T \subseteq Mattering, Void(n, T), k.t \notin T
      PROVE  Void(m, T)
  BY <1>1 DEF Adds, Void
<1>2. ASSUME NEW type \in Mattering, NEW T, T \subseteq Mattering, NoneAfter(n, type, T),
             k.t \notin T \/ Void(n, {type})
      PROVE  NoneAfter(m, type, T)
  <2> SUFFICES ASSUME NEW a, NEW b, Follows(m, a, b), a.t = type, b.t \in T
               PROVE  FALSE
    BY DEF NoneAfter
  <2>1. a.t \in Mattering /\ b.t \in Mattering
    BY <1>2
  <2>2. Follows(n, a, b) \/ (a \in Among(n) /\ b = k)
    BY <2>1 DEF Adds
  <2> QED
    BY <1>2, <2>2 DEF NoneAfter, Void
<1> QED
  BY <1>1, <1>2

\* And one read from.
LEMMA TookVoid ==
  ASSUME NEW n \in Seq(Packet), NEW m, NEW k, NEW type, Took(n, m, k, type)
  PROVE  /\ k \in Among(n) /\ k.t = type /\ Less(m, n)
         /\ \A T : NoneAfter(n, type, T) => Void(m, T)
<1>1. k \in Among(n) /\ k.t = type /\ Less(m, n) /\ \A j \in Among(m) : Follows(n, k, j)
  BY LessFew DEF Took
<1> QED
  BY <1>1 DEF Void, NoneAfter

\* What a channel holds are packets.
LEMMA AmongPackets ==
  ASSUME NEW n \in Seq(Packet)
  PROVE  \A k \in Among(n) : k \in Packet /\ k.off \in Int /\ k.n \in Nat
  BY DEF Among, Packet

\* The packets of a sender and those of a receiver.
LEMMA Kinds ==
  /\ Forward \subseteq Mattering /\ Answer \subseteq Mattering /\ Forward \cap Answer = {}
  /\ {"DATA", "EOF"} \subseteq Forward /\ "FINFO" \in Forward
  /\ {"FINFOACK", "EOFACK"} \subseteq Answer
  /\ Nothing.t \notin Mattering
  BY NothingMatters DEF Forward, Answer, Mattering

-----------------------------------------------------------------------------
(* The sender's steps keep it.                                             *)

\* The announcements on the way, in each state.
LEMMA PhaseStates ==
  ASSUME NEW s, NEW n, NEW m, NEW t, NEW r, Phase(s, n, m, t, r)
  PROVE  t.state # "FinfoAck" => Void(n, {"FINFO"}) /\ Void(m, {"FINFOACK"})
  BY DEF Phase, Announced, Replied, Void

\* It announces, sends and hears nothing.
LEMMA KeepsSending ==
  ASSUME NEW s, NEW n, NEW m, NEW t, NEW r, Phase(s, n, m, t, r), t.state \in TxState,
         NEW u, u.lastFinfo = t.lastFinfo, u.next = t.next, u.eob = t.eob,
         \/ u.state = t.state
         \/ u.state \in BeforeFinfo /\ t.state \in BeforeFinfo
         \/ u.state \in Transferring /\ t.state \in Transferring
         \/ u.state \in FromEnd /\ t.state \in FromEnd,
         NEW k, k.t \notin Forward, NEW mm, Less(mm, m), NEW nn, Adds(nn, n, k)
  PROVE  Phase(s, nn, mm, u, r)
<1>2. /\ u.state = "FinfoAck" <=> t.state = "FinfoAck"
      /\ u.state = "Finfo" <=> t.state = "Finfo"
      /\ u.state \in BeforeFinfo <=> t.state \in BeforeFinfo
      /\ u.state \in Transferring <=> t.state \in Transferring
      /\ u.state \in FromEnd \cup {"Rend"} <=> t.state \in FromEnd \cup {"Rend"}
  BY TxStates
<1>3. \A T : T \subseteq Forward /\ Void(n, T) => Void(nn, T)
  BY AddsVoid, Kinds
<1>4. \A T : Void(m, T) => Void(mm, T)
  BY LessVoid
<1>5. Announced(nn, u)
  <2>1. NoneAfter(nn, "FINFO", Forward)
    BY AddsVoid, Kinds DEF Phase, Announced
  <2>2. ASSUME NEW j \in Among(nn), j.t = "FINFO"
        PROVE  u.state = "FinfoAck" /\ j.f = u.lastFinfo
    <3>1. j \in Among(n)
      BY <2>2, Kinds DEF Adds
    <3> QED
      BY <1>2, <2>2, <3>1 DEF Phase, Announced
  <2> QED
    BY <2>1, <2>2 DEF Announced
<1>6. Replied(nn, mm, u, r)
  <2>1. NoneAfter(mm, "FINFOACK", Answer)
    BY LessVoid DEF Phase, Replied
  <2>2. ASSUME NEW j \in Among(mm), j.t = "FINFOACK"
        PROVE  u.state = "FinfoAck" /\ Void(nn, Forward) /\ Answered(u.lastFinfo, j.off, r)
    BY <1>2, <1>3, <2>2 DEF Phase, Replied, Less
  <2> QED
    BY <2>1, <2>2 DEF Replied
<1>7. Current(s, u) = Current(s, t)
  BY DEF Current
<1>8. Abreast(s, nn, mm, u, r)
  BY <1>2, <1>3, <1>4, <1>7, Kinds DEF Phase, Abreast
<1> QED
  BY <1>5, <1>6, <1>8 DEF Phase

\* It sends nothing, or its Run ends.
LEMMA SendsNothingPhase ==
  ASSUME NEW s, NEW n, NEW m, NEW t, NEW r, Phase(s, n, m, t, r), t.state \in TxState,
         NEW u, NEW k, SendsNothing(u, t, k), NEW mm, Less(mm, m), NEW nn, Adds(nn, n, k)
  PROVE  Phase(s, nn, mm, u, r)
<1>1. /\ u.lastFinfo = t.lastFinfo /\ u.next = t.next /\ u.eob = t.eob
      /\ k.t \notin Forward
      /\ \/ u.state = t.state
         \/ u.state \in BeforeFinfo /\ t.state \in BeforeFinfo
         \/ u.state \in Transferring /\ t.state \in Transferring
         \/ u.state \in FromEnd /\ t.state \in FromEnd
  BY DEF SendsNothing, SameFile, Stays, Transferring
<1> QED
  BY <1>1, KeepsSending

\* The end of its Run leaves the phase as it is.
LEMMA SendStopPhase ==
  ASSUME NEW s, NEW n, NEW m \in Seq(Packet), NEW t, NEW r, Phase(s, n, m, t, r),
         t.state \in TxState, NEW u, NEW mm, NEW told, NEW next,
         SendStop(u, t, m, mm, told, next), NEW nn, Adds(nn, n, Nothing)
  PROVE  Phase(s, nn, mm, u, r)
<1>1. Less(mm, m) /\ Nothing.t \notin Forward
  BY LessFew, NothingMatters DEF SendStop
<1>2. /\ u.lastFinfo = t.lastFinfo /\ u.next = t.next /\ u.eob = t.eob
      /\ u.state = t.state \/ (u.state \in FromEnd /\ t.state \in FromEnd)
  BY DEF SendStop
<1> QED
  BY <1>1, <1>2, KeepsSending

\* It announces.
LEMMA AnnouncesPhase ==
  ASSUME NEW s \in Peer, NEW n, NEW m, NEW t, NEW r, Phase(s, n, m, t, r), t.state \in TxState,
         NEW u \in TxType, NEW k, NEW told, NEW next,
         Repeats(u, t, n, m, k) \/ AnnouncesNext(s, u, t, k, told, next),
         NEW nn, Adds(nn, n, k)
  PROVE  Phase(s, nn, m, u, r)
<1>1. t.state = "Finfo" => Void(n, {"FINFO"}) /\ Void(m, {"FINFOACK"})
  BY PhaseStates DEF Transferring
<1>2. t.state = "Finfo" => t.lastFinfo = NoFile /\ r.state = "Finfo"
  BY DEF Phase, Abreast
<1>3. /\ u.state = "FinfoAck" /\ k = Pkt("FINFO", u.lastFinfo, 0, 0, 0)
      /\ Void(n, {"FINFO"}) /\ Void(m, {"FINFOACK"})
      /\ \/ t.state = "Finfo"
         \/ t.state = "FinfoAck" /\ n = <<>>
  <2>1. CASE Repeats(u, t, n, m, k)
    <3>1. t.state = "FinfoAck" /\ n = <<>> /\ m = <<>>
      BY <1>2, <2>1 DEF Repeats
    <3> QED
      BY <2>1, <3>1, AmongFew DEF Repeats, Void
  <2>2. CASE AnnouncesNext(s, u, t, k, told, next)
    BY <1>1, <2>2 DEF AnnouncesNext
  <2> QED
    BY <2>1, <2>2
<1>4. k.t = "FINFO" /\ k.f = u.lastFinfo
  BY <1>3 DEF Pkt
<1>5. Announced(nn, u)
  <2>1. NoneAfter(nn, "FINFO", Forward)
    BY <1>3, AddsVoid, Kinds DEF Phase, Announced
  <2>2. ASSUME NEW j \in Among(nn), j.t = "FINFO"
        PROVE  u.state = "FinfoAck" /\ j.f = u.lastFinfo
    <3>1. j \in Among(n) \/ j = k
      BY <2>2, Kinds DEF Adds
    <3> QED
      BY <1>3, <1>4, <2>2, <3>1 DEF Void
  <2> QED
    BY <2>1, <2>2 DEF Announced
<1>6. Replied(nn, m, u, r)
  BY <1>3 DEF Phase, Replied, Void
<1>7. Abreast(s, nn, m, u, r)
  <2>1. CASE Repeats(u, t, n, m, k)
    <3>1. /\ t.state = "FinfoAck" /\ n = <<>> /\ u.lastFinfo = t.lastFinfo /\ u.next = t.next
          /\ u.eob = t.eob
      BY <1>2, <2>1 DEF Repeats, SameCursor
    <3>2. Void(nn, {"DATA", "EOF"})
      <4>1. Void(n, {"DATA", "EOF"})
        BY <3>1, AmongFew DEF Void
      <4> QED
        BY <1>4, <4>1, AddsVoid, Kinds
    <3>3. Current(s, u) = Current(s, t)
      BY <3>1 DEF Current
    <3> QED
      BY <1>3, <3>1, <3>2, <3>3, TxStates DEF Phase, Abreast
  <2>2. CASE AnnouncesNext(s, u, t, k, told, next)
    <3>1. r.state = "Finfo" /\ u.eob \in BOOLEAN
      BY <1>2, <2>2 DEF AnnouncesNext, TxType
    <3>2. Offered(s) \subseteq File
      BY OffersAreFiles DEF Offered
    <3>3. u.lastFinfo # NoFile /\ (u.eob <=> u.lastFinfo = EOB)
          /\ (~u.eob => u.lastFinfo = Current(s, u))
      BY <2>2, <3>2, MarkerAssumption DEF AnnouncesNext
    <3> QED
      BY <1>3, <3>1, <3>3, TxStates DEF Abreast
  <2> QED
    BY <2>1, <2>2
<1> QED
  BY <1>5, <1>6, <1>7 DEF Phase

\* It sends of the file under way.
LEMMA SendsPhase ==
  ASSUME NEW s, NEW n, NEW m, NEW t, NEW r, Phase(s, n, m, t, r), t.state \in TxState,
         NEW u, NEW k, SendsBlock(u, t, k) \/ ReachesEnd(u, t, k) \/ SendsEOF(u, t, k),
         NEW nn, Adds(nn, n, k)
  PROVE  Phase(s, nn, m, u, r)
<1>1. t.state \in Transferring /\ u.state \in Transferring /\ u.next = t.next /\ k.t # "FINFO"
  BY DEF SendsBlock, ReachesEnd, SendsEOF, Transferring, SameFile, Forward, Pkt, OffPkt
<1>2. Void(n, {"FINFO"}) /\ Void(m, {"FINFOACK"})
  BY <1>1, PhaseStates, TxStates
<1>3. Announced(nn, u)
  <2>1. NoneAfter(nn, "FINFO", Forward)
    BY <1>2, AddsVoid, Kinds DEF Phase, Announced
  <2>2. Void(nn, {"FINFO"})
    BY <1>1, <1>2, AddsVoid, Kinds
  <2> QED
    BY <2>1, <2>2 DEF Announced, Void
<1>4. Replied(nn, m, u, r)
  BY <1>2 DEF Phase, Replied, Void
<1>5. Current(s, u) = Current(s, t)
  BY <1>1 DEF Current
<1>6. Abreast(s, nn, m, u, r)
  BY <1>1, <1>5, TxStates DEF Phase, Abreast
<1> QED
  BY <1>3, <1>4, <1>6 DEF Phase

\* It hears an answer.
LEMMA HearsPhase ==
  ASSUME NEW s, NEW n, NEW m \in Seq(Packet), NEW t, NEW r, Phase(s, n, m, t, r),
         t.state \in TxState, NEW u, NEW mm, NEW told, NEW next,
         \/ HearsFinfoAck(u, t, m, mm, told, next) \/ HearsDataAck(u, t, m, mm)
         \/ HearsRpos(u, t, m, mm) \/ HearsEOFAck(u, t, m, mm, told, next),
         NEW nn, Adds(nn, n, Nothing)
  PROVE  Phase(s, nn, mm, u, r)
<1>1. Less(mm, m)
  BY TookVoid DEF HearsFinfoAck, HearsDataAck, HearsRpos, HearsEOFAck
<1>2. \A T : T \subseteq Forward /\ Void(n, T) => Void(nn, T)
  BY AddsVoid, Kinds
<1>3. NoneAfter(nn, "FINFO", Forward) /\ NoneAfter(mm, "FINFOACK", Answer)
  BY <1>1, AddsVoid, LessVoid, Kinds DEF Phase, Announced, Replied
<1>4. ASSUME u.state # "FinfoAck", Void(n, {"FINFO"}), Void(mm, {"FINFOACK"}),
             Abreast(s, nn, mm, u, r)
      PROVE  Phase(s, nn, mm, u, r)
  <2>1. Void(nn, {"FINFO"})
    BY <1>2, <1>4, Kinds
  <2> QED
    BY <1>3, <1>4, <2>1 DEF Phase, Announced, Replied, Void
<1>5. CASE HearsFinfoAck(u, t, m, mm, told, next)
  <2>1. PICK j : Took(m, mm, j, "FINFOACK")
              /\ \/ /\ t.eob /\ u.state = "Rend"
                 \/ /\ ~t.eob /\ j.off < 0 /\ FileOver(u, t)
                 \/ /\ ~t.eob /\ j.off >= 0 /\ SameCursor(u, t)
                    /\ u.state \in {"EOF", "Xdata"}
    BY <1>5 DEF HearsFinfoAck
  <2>2. t.state = "FinfoAck" /\ Void(n, Forward) /\ Answered(t.lastFinfo, j.off, r)
    BY <2>1, TookVoid DEF Phase, Replied
  <2>3. Void(mm, Answer)
    BY <2>1, TookVoid DEF Phase, Replied
  <2>4. (t.eob <=> t.lastFinfo = EOB) /\ (~t.eob => t.lastFinfo = Current(s, t))
    BY <2>2 DEF Phase, Abreast
  <2>5. Void(n, {"FINFO"}) /\ Void(mm, {"FINFOACK"}) /\ Void(mm, {"EOFACK"})
    BY <2>2, <2>3, Kinds DEF Void
  <2>6. CASE t.eob /\ u.state = "Rend"
    BY <1>4, <2>2, <2>4, <2>5, <2>6, TxStates DEF Abreast, Answered
  <2>7. CASE ~t.eob /\ j.off < 0 /\ FileOver(u, t)
    BY <1>4, <2>2, <2>4, <2>5, <2>7, TxStates DEF Abreast, Answered, FileOver
  <2>8. CASE ~t.eob /\ j.off >= 0 /\ SameCursor(u, t) /\ u.state \in {"EOF", "Xdata"}
    <3>1. r.state = "Data" /\ r.file = t.lastFinfo
      <4>1. ~(j.off < 0)
        <5>1. j \in Packet
          BY <2>1, TookVoid, AmongPackets
        <5> QED
          BY <2>8, <5>1 DEF Packet
      <4> QED
        BY <2>2, <2>4, <2>8, <4>1 DEF Answered
    <3>2. Current(s, u) = Current(s, t) /\ u.state \in Transferring /\ u.state # "FinfoAck"
      BY <2>8 DEF Current, SameCursor, Transferring
    <3> QED
      BY <1>4, <2>4, <2>5, <2>8, <3>1, <3>2, TxStates DEF Abreast
  <2> QED
    BY <2>1, <2>6, <2>7, <2>8
<1>6. CASE HearsDataAck(u, t, m, mm) \/ HearsRpos(u, t, m, mm)
  <2>1. t.state \in Transferring /\ u.state \in Transferring /\ u.next = t.next
    BY <1>6 DEF HearsDataAck, HearsRpos, SameFile, Transferring
  <2>2. Void(n, {"FINFO"}) /\ Void(mm, {"FINFOACK"})
    BY <1>1, <2>1, PhaseStates, TxStates, LessVoid
  <2>3. Void(m, {"EOFACK"}) => Void(mm, {"EOFACK"})
    BY <1>1, LessVoid
  <2>4. Current(s, u) = Current(s, t)
    BY <2>1 DEF Current
  <2> QED
    BY <1>4, <2>1, <2>2, <2>3, <2>4, TxStates DEF Phase, Abreast
<1>7. CASE HearsEOFAck(u, t, m, mm, told, next)
  <2>1. PICK j : Took(m, mm, j, "EOFACK")
    BY <1>7 DEF HearsEOFAck
  <2>2. j \in Among(m) /\ j.t = "EOFACK"
    BY <2>1, TookVoid
  <2>3. t.state \in Transferring /\ FileOver(u, t)
    BY <1>7 DEF HearsEOFAck, Transferring
  <2>4. r.state = "Finfo"
    BY <2>2, <2>3 DEF Phase, Abreast, Void
  <2>5. Void(n, {"FINFO"}) /\ Void(mm, {"FINFOACK"})
    BY <1>1, <2>3, PhaseStates, TxStates, LessVoid
  <2> QED
    BY <1>4, <2>3, <2>4, <2>5, TxStates DEF Abreast, FileOver
<1> QED
  BY <1>5, <1>6, <1>7

\* Whatever it does.
LEMMA SendPhase ==
  ASSUME NEW s \in Peer, NEW n, NEW m \in Seq(Packet), NEW t, NEW r, Phase(s, n, m, t, r),
         t.state \in TxState, NEW u \in TxType, NEW mm, NEW k, NEW told, NEW next,
         SendStep(s, t, u, n, m, mm, k, told, next), NEW nn, Adds(nn, n, k)
  PROVE  Phase(s, nn, mm, u, r)
<1>1. CASE SendsNothing(u, t, k) /\ Less(mm, m)
  BY <1>1, SendsNothingPhase
<1>2. CASE mm = m /\ (Repeats(u, t, n, m, k) \/ AnnouncesNext(s, u, t, k, told, next))
  BY <1>2, AnnouncesPhase
<1>3. CASE mm = m /\ (SendsBlock(u, t, k) \/ ReachesEnd(u, t, k) \/ SendsEOF(u, t, k))
  BY <1>3, SendsPhase
<1>4. CASE /\ k = Nothing
           /\ \/ HearsFinfoAck(u, t, m, mm, told, next) \/ HearsDataAck(u, t, m, mm)
              \/ HearsRpos(u, t, m, mm) \/ HearsEOFAck(u, t, m, mm, told, next)
  BY <1>4, HearsPhase
<1> QED
  BY <1>1, <1>2, <1>3, <1>4 DEF SendStep

\* sync.
LEMMA SyncPhase ==
  ASSUME NEW s, NEW n, NEW m, NEW t, NEW r, Phase(s, n, m, t, r), t.state \in TxState,
         NEW u, NEW v, SyncStep(u, t, v), t.state = "Rinit" /\ u.state = "Finfo" => r.state # "Init"
  PROVE  Phase(s, n, m, u, r)
<1>1. u.lastFinfo = t.lastFinfo /\ u.next = t.next /\ u.eob = t.eob
  BY DEF SyncStep, SameFile
<1>2. Current(s, u) = Current(s, t)
  BY <1>1 DEF Current
<1>3. CASE t.state = "Rinit" /\ u.state = "Finfo"
  <2>1. /\ r.state = "Finfo" /\ u.lastFinfo = NoFile /\ Void(n, Forward) /\ Void(m, Answer)
    BY <1>1, <1>3 DEF Phase, Abreast, BeforeFinfo
  <2>2. Abreast(s, n, m, u, r)
    BY <1>3, <2>1, TxStates DEF Abreast
  <2> QED
    BY <1>1, <1>3, <2>1, <2>2, Kinds DEF Phase, Announced, Replied, Void
<1>4. CASE ~(t.state = "Rinit" /\ u.state = "Finfo")
  <2>1. /\ u.state = "FinfoAck" <=> t.state = "FinfoAck"
        /\ u.state = "Finfo" <=> t.state = "Finfo"
        /\ u.state \in BeforeFinfo <=> t.state \in BeforeFinfo
        /\ u.state \in Transferring <=> t.state \in Transferring
        /\ u.state \in FromEnd \cup {"Rend"} <=> t.state \in FromEnd \cup {"Rend"}
    <3>1. \/ u.state = t.state
          \/ u.state \in BeforeFinfo /\ t.state \in BeforeFinfo
          \/ u.state \in Transferring /\ t.state \in Transferring
          \/ u.state \in FromEnd /\ t.state = "Rend"
      BY <1>4 DEF SyncStep, BeforeFinfo, Transferring, FromEnd
    <3> QED
      BY <3>1, TxStates
  <2>2. Announced(n, u) /\ Replied(n, m, u, r)
    BY <1>1, <2>1 DEF Phase, Announced, Replied
  <2>3. Abreast(s, n, m, u, r)
    BY <1>1, <1>2, <2>1 DEF Phase, Abreast
  <2> QED
    BY <2>2, <2>3 DEF Phase
<1> QED
  BY <1>3, <1>4

-----------------------------------------------------------------------------
(* The receiver's steps keep it.                                           *)

\* It does nothing about the files.
LEMMA KeepsReceiving ==
  ASSUME NEW s, NEW n, NEW m, NEW t, NEW r, Phase(s, n, m, t, r), t.state \in TxState,
         NEW v, v.file = r.file, v.refused = r.refused, v.pos = r.pos,
         v.refusedAck = r.refusedAck, v.state = r.state \/ (r.state = "Init" /\ v.state = "Finfo"),
         NEW nn, Less(nn, n), NEW k, k.t \notin Answer, NEW mm, Adds(mm, m, k)
  PROVE  Phase(s, nn, mm, t, v)
<1>2. \A T : Void(n, T) => Void(nn, T)
  BY LessVoid
<1>3. \A T : T \subseteq Answer /\ Void(m, T) => Void(mm, T)
  BY AddsVoid, Kinds
<1>4. r.state = "Init" => t.state \in BeforeFinfo
  BY TxStates DEF Phase, Abreast
<1>5. Announced(nn, t)
  <2>1. NoneAfter(nn, "FINFO", Forward)
    BY LessVoid DEF Phase, Announced
  <2> QED
    BY <2>1 DEF Phase, Announced, Less
<1>6. \A j \in Among(mm) : j.t = "FINFOACK" => j \in Among(m)
  BY Kinds DEF Adds
<1>7. Replied(nn, mm, t, v)
  <2>1. NoneAfter(mm, "FINFOACK", Answer)
    BY AddsVoid, Kinds DEF Phase, Replied
  <2>2. ASSUME NEW j \in Among(mm), j.t = "FINFOACK"
        PROVE  t.state = "FinfoAck" /\ Void(nn, Forward) /\ Answered(t.lastFinfo, j.off, v)
    <3>1. t.state = "FinfoAck" /\ Void(n, Forward) /\ Answered(t.lastFinfo, j.off, r)
      BY <1>6, <2>2 DEF Phase, Replied
    <3>2. v.state = r.state
      BY <1>4, <3>1, TxStates
    <3> QED
      BY <1>2, <3>1, <3>2 DEF Answered
  <2> QED
    BY <2>1, <2>2 DEF Replied
<1>8. Abreast(s, nn, mm, t, v)
  BY <1>2, <1>3, <1>4, Kinds, TxStates DEF Phase, Abreast
<1> QED
  BY <1>5, <1>7, <1>8 DEF Phase

\* It ignores a packet, or its Run ends.
LEMMA IgnoresPhase ==
  ASSUME NEW s, NEW n, NEW m, NEW t, NEW r, Phase(s, n, m, t, r), t.state \in TxState,
         NEW v, NEW nn, NEW k, Ignores(v, r, n, nn, k), NEW mm, Adds(mm, m, k)
  PROVE  Phase(s, nn, mm, t, v)
<1>1. /\ v.file = r.file /\ v.refused = r.refused /\ v.pos = r.pos
      /\ v.refusedAck = r.refusedAck
      /\ v.state = r.state \/ (r.state = "Init" /\ v.state = "Finfo")
      /\ Less(nn, n) /\ k.t \notin Answer
  BY DEF Ignores, SamePlace, SameRx
<1> QED
  BY <1>1, KeepsReceiving

\* The end of its Run leaves the phase as it is.
LEMMA ReceiveStopPhase ==
  ASSUME NEW s, NEW n \in Seq(Packet), NEW m, NEW t, NEW r, Phase(s, n, m, t, r),
         t.state \in TxState, NEW v, NEW nn, NEW done, NEW next, NEW g, NEW h,
         NEW op, NEW nop, ReceiveStop(v, r, nn, done, next, g, h, op, nop), NEW mm, Adds(mm, m, Nothing)
  PROVE  Phase(s, nn, mm, t, v)
<1>1. /\ v.file = r.file /\ v.refused = r.refused /\ v.pos = r.pos
      /\ v.refusedAck = r.refusedAck /\ v.state = r.state
      /\ Less(nn, n) /\ Nothing.t \notin Answer
  BY LessFew, NothingMatters DEF ReceiveStop, Shut
<1> QED
  BY <1>1, KeepsReceiving

\* It answers a FINFO.
LEMMA AnswersPhase ==
  ASSUME NEW s, NEW n \in Seq(Packet), NEW m, NEW t, NEW r \in RxType, Phase(s, n, m, t, r),
         NEW v, NEW nn, NEW j, Took(n, nn, j, "FINFO"), NEW k, NEW done, NEW next, NEW g, NEW h,
         AnswersFinfo(v, r, j, k) \/ Refuses(v, r, j, k, done, next) \/ OpensFile(v, r, j, k, g, h),
         NEW mm, Adds(mm, m, k)
  PROVE  Phase(s, nn, mm, t, v)
<1>1. /\ j \in Among(n) /\ j.t = "FINFO" /\ Less(nn, n) /\ Void(nn, Forward)
      /\ t.state = "FinfoAck" /\ j.f = t.lastFinfo
  BY TookVoid DEF Phase, Announced
<1>2. Void(m, {"FINFOACK"})
  BY <1>1, Kinds DEF Phase, Replied, Void
<1>3. /\ t.lastFinfo # NoFile /\ (t.eob <=> t.lastFinfo = EOB)
      /\ t.eob => r.state \in {"Finfo", "Done"}
      /\ ~t.eob => /\ t.lastFinfo = Current(s, t)
                   /\ r.state = "Finfo" \/ (r.state = "Data" /\ r.file = t.lastFinfo /\ r.pos >= 0)
      /\ r.refused # NoFile => r.refusedAck < 0
  BY <1>1 DEF Phase, Abreast
<1>4. /\ k.t = "FINFOACK"
      /\ Answered(t.lastFinfo, k.off, v)
      /\ v.refused # NoFile => v.refusedAck < 0
      /\ t.eob => v.state \in {"Finfo", "Done"}
      /\ ~t.eob => v.state = "Finfo" \/ (v.state = "Data" /\ v.file = t.lastFinfo /\ v.pos >= 0)
  <2>1. \A off : OffPkt("FINFOACK", off).t = "FINFOACK" /\ OffPkt("FINFOACK", off).off = off
    BY DEF OffPkt, Pkt
  <2>2. CASE r.state = "Finfo" /\ j.f = EOB /\ AnswersFinfo(v, r, j, k)
    <3>1. v.state = "Done" /\ v.refused = r.refused /\ v.refusedAck = r.refusedAck
          /\ k.t = "FINFOACK"
      BY <1>1, <1>3, <2>1, <2>2, MarkerAssumption DEF AnswersFinfo
    <3> QED
      BY <1>1, <1>3, <2>2, <3>1 DEF Answered
  <2>3. CASE ~(r.state = "Finfo" /\ j.f = EOB) /\ AnswersFinfo(v, r, j, k)
    <3>1. /\ v.state = r.state /\ v.file = r.file /\ v.refused = r.refused /\ v.pos = r.pos
          /\ v.refusedAck = r.refusedAck
      BY <2>3 DEF AnswersFinfo, SamePlace, SameRx
    <3>2. PICK off : /\ k = OffPkt("FINFOACK", off)
                     /\ \/ r.state = "Finfo" /\ j.f = r.refused /\ j.f # EOB /\ off = r.refusedAck
                        \/ r.state = "Data" /\ off = r.pos
                        \/ r.state \in {"Init", "Done"}
      BY <2>3 DEF AnswersFinfo
    <3>3. k.t = "FINFOACK" /\ k.off = off
      BY <2>1, <3>2
    <3>4. CASE r.state = "Finfo" /\ j.f = r.refused /\ j.f # EOB /\ off = r.refusedAck
      BY <1>1, <1>3, <3>1, <3>3, <3>4 DEF Answered
    <3>5. CASE r.state = "Data" /\ off = r.pos
      <4>1. ~t.eob /\ r.file = t.lastFinfo /\ r.pos >= 0 /\ t.lastFinfo # EOB
        BY <1>3, <3>5
      <4>2. ~(off < 0)
        BY <4>1, <3>5 DEF RxType
      <4> QED
        BY <3>1, <3>3, <3>5, <4>1, <4>2, <1>3 DEF Answered
    <3>6. CASE r.state \in {"Init", "Done"}
      <4>1. t.eob /\ t.lastFinfo = EOB /\ r.state = "Done"
        BY <1>3, <3>6
      <4> QED
        BY <1>3, <3>1, <3>3, <4>1 DEF Answered
    <3> QED
      BY <3>2, <3>4, <3>5, <3>6
  <2>4. CASE Refuses(v, r, j, k, done, next)
    <3>1. /\ j.f \in File /\ r.state = "Finfo" /\ v.state = r.state /\ v.refused = j.f
          /\ k = OffPkt("FINFOACK", v.refusedAck) /\ v.refusedAck \in {-1, -2}
      BY <2>4 DEF Refuses, ackHaveFile, ackDefer
    <3>2. k.t = "FINFOACK" /\ k.off = v.refusedAck
      BY <2>1, <3>1
    <3>3. j.f # EOB /\ v.refusedAck < 0
      BY <3>1, MarkerAssumption
    <3> QED
      BY <1>1, <3>1, <3>2, <3>3 DEF Answered
  <2>5. CASE OpensFile(v, r, j, k, g, h)
    <3>1. /\ j.f \in File /\ v.state = "Data" /\ v.file = j.f /\ v.refused = NoFile
          /\ v.pos \in Nat /\ k = OffPkt("FINFOACK", v.pos)
      BY <2>5, HandlerAssumption DEF OpensFile
    <3>2. k.t = "FINFOACK" /\ k.off = v.pos
      BY <2>1, <3>1
    <3>3. j.f # EOB /\ v.pos >= 0 /\ ~(v.pos < 0)
      BY <3>1, MarkerAssumption
    <3> QED
      BY <1>1, <1>3, <3>1, <3>2, <3>3 DEF Answered
  <2> QED
    BY <2>2, <2>3, <2>4, <2>5
<1>5. Announced(nn, t)
  <2>1. NoneAfter(nn, "FINFO", Forward)
    BY <1>1, LessVoid DEF Phase, Announced
  <2> QED
    BY <1>1, <2>1, Kinds DEF Announced, Void
<1>6. Replied(nn, mm, t, v)
  <2>1. NoneAfter(mm, "FINFOACK", Answer)
    BY <1>2, AddsVoid, Kinds DEF Phase, Replied
  <2>2. ASSUME NEW i \in Among(mm), i.t = "FINFOACK"
        PROVE  i = k
    BY <1>2, <2>2, Kinds DEF Adds, Void
  <2> QED
    BY <1>1, <1>4, <2>1, <2>2 DEF Replied
<1>7. Abreast(s, nn, mm, t, v)
  <2>1. Void(nn, {"DATA", "EOF"})
    BY <1>1, Kinds DEF Void
  <2> QED
    BY <1>1, <1>3, <1>4, <2>1, TxStates DEF Abreast
<1> QED
  BY <1>4, <1>5, <1>6, <1>7 DEF Phase

\* It takes what comes of the file it has open.
LEMMA TakesPhase ==
  ASSUME NEW s, NEW n \in Seq(Packet), NEW m, NEW t, NEW r, Phase(s, n, m, t, r),
         t.state \in TxState,
         NEW v, NEW nn, NEW j, NEW type \in {"DATA", "EOF"}, Took(n, nn, j, type),
         NEW k, NEW done, NEW next, NEW g, NEW h,
         \/ AsksAgain(v, r, j, k) \/ FailsToWrite(v, r, j, k, done, next)
         \/ TakesBlock(v, r, j, k, g, h) \/ ClosesFile(v, r, j, k, done, next),
         NEW mm, Adds(mm, m, k)
  PROVE  Phase(s, nn, mm, t, v)
<1>1. j \in Among(n) /\ j.t \in {"DATA", "EOF"} /\ Less(nn, n)
  BY TookVoid
<1>2. r.state = "Data"
  BY DEF AsksAgain, FailsToWrite, TakesBlock, ClosesFile
<1>3. t.state \in Transferring /\ r.file = Current(s, t)
  <2>1. t.state \notin BeforeFinfo /\ t.state # "Finfo" /\ t.state \notin FromEnd \cup {"Rend"}
    BY <1>2 DEF Phase, Abreast
  <2>2. t.state # "FinfoAck"
    BY <1>1, <1>2 DEF Phase, Abreast, Void
  <2>3. t.state \in Transferring
    BY <2>1, <2>2, TxStates
  <2> QED
    BY <1>2, <2>3 DEF Phase, Abreast
<1>4. Void(n, {"FINFO"}) /\ Void(m, {"FINFOACK"}) /\ Void(m, {"EOFACK"})
  <2>1. Void(n, {"FINFO"}) /\ Void(m, {"FINFOACK"})
    BY <1>3, PhaseStates, TxStates
  <2> QED
    BY <1>2, <1>3, <2>1 DEF Phase, Abreast
<1>5. /\ v.refused = r.refused /\ v.refusedAck = r.refusedAck
      /\ k.t # "FINFOACK"
      /\ v.state = "Finfo" \/ (v.state = "Data" /\ v.file = r.file /\ k.t # "EOFACK")
  <2>1. \A ty, f, off, i, id : Pkt(ty, f, off, i, id).t = ty /\ OffPkt(ty, off).t = ty
          /\ Ctl(ty).t = ty
    BY DEF Pkt, OffPkt, Ctl
  <2>2. CASE AsksAgain(v, r, j, k)
    BY <1>2, <2>1, <2>2 DEF AsksAgain, SamePlace, SameRx
  <2>3. CASE FailsToWrite(v, r, j, k, done, next)
    BY <1>2, <2>1, <2>3 DEF FailsToWrite, Shut
  <2>4. CASE TakesBlock(v, r, j, k, g, h)
    BY <1>2, <2>1, <2>4 DEF TakesBlock, SameRx, Nothing
  <2>5. CASE ClosesFile(v, r, j, k, done, next)
    BY <1>2, <2>1, <2>5 DEF ClosesFile, Shut
  <2> QED
    BY <2>2, <2>3, <2>4, <2>5
<1>6. Announced(nn, t)
  <2>1. NoneAfter(nn, "FINFO", Forward)
    BY <1>1, LessVoid DEF Phase, Announced
  <2>2. Void(nn, {"FINFO"})
    BY <1>1, <1>4, LessVoid
  <2> QED
    BY <2>1, <2>2 DEF Announced, Void
<1>7. Replied(nn, mm, t, v)
  <2>1. NoneAfter(mm, "FINFOACK", Answer)
    BY <1>4, AddsVoid, Kinds DEF Phase, Replied
  <2>2. Void(mm, {"FINFOACK"})
    <3>1. {"FINFOACK"} \subseteq Mattering /\ k.t \notin {"FINFOACK"}
      BY <1>5, Kinds
    <3> QED
      BY <1>4, <3>1, AddsVoid
  <2> QED
    BY <2>1, <2>2 DEF Replied, Void
<1>8. v.state = "Finfo" \/ Void(mm, {"EOFACK"})
  <2>1. CASE k.t # "EOFACK"
    <3>1. {"EOFACK"} \subseteq Mattering /\ k.t \notin {"EOFACK"}
      BY <2>1, Kinds
    <3> QED
      BY <1>4, <3>1, AddsVoid
  <2> QED
    BY <1>5, <2>1
<1>9. Abreast(s, nn, mm, t, v)
  BY <1>3, <1>5, <1>8, TxStates DEF Abreast
<1> QED
  BY <1>5, <1>6, <1>7, <1>9 DEF Phase

\* It acknowledges the EOF of a file that is over.
LEMMA RepeatsPhase ==
  ASSUME NEW s, NEW n \in Seq(Packet), NEW m, NEW t, NEW r, Phase(s, n, m, t, r),
         t.state \in TxState,
         NEW v, NEW nn, NEW j, Took(n, nn, j, "EOF"), r.state = "Finfo", SamePlace(v, r),
         NEW mm, Adds(mm, m, Ctl("EOFACK"))
  PROVE  Phase(s, nn, mm, t, v)
<1> DEFINE k == Ctl("EOFACK")
<1>1. j \in Among(n) /\ j.t = "EOF" /\ Less(nn, n) /\ k.t = "EOFACK"
  BY TookVoid DEF Ctl, Pkt
<1>2. /\ v.state = "Finfo" /\ v.refused = r.refused /\ v.refusedAck = r.refusedAck
  BY DEF SamePlace, SameRx
<1>3. ~Void(n, Forward)
  BY <1>1, Kinds DEF Void
<1>4. Void(m, {"FINFOACK"}) /\ t.state \notin BeforeFinfo
  BY <1>3 DEF Phase, Replied, Abreast, Void
<1>5. Announced(nn, t)
  <2>1. NoneAfter(nn, "FINFO", Forward)
    BY <1>1, LessVoid DEF Phase, Announced
  <2> QED
    BY <1>1, <2>1 DEF Phase, Announced, Less
<1>6. Replied(nn, mm, t, v)
  <2>1. NoneAfter(mm, "FINFOACK", Answer)
    BY <1>4, AddsVoid, Kinds DEF Phase, Replied
  <2>2. Void(mm, {"FINFOACK"})
    <3>1. {"FINFOACK"} \subseteq Mattering /\ k.t \notin {"FINFOACK"}
      BY <1>1, Kinds
    <3> QED
      BY <1>4, <3>1, AddsVoid
  <2> QED
    BY <2>1, <2>2 DEF Replied, Void
<1>7. Abreast(s, nn, mm, t, v)
  BY <1>2, <1>4, TxStates DEF Phase, Abreast
<1> QED
  BY <1>2, <1>5, <1>6, <1>7 DEF Phase

\* Whatever it does.
LEMMA ReceivePhase ==
  ASSUME NEW s, NEW n \in Seq(Packet), NEW m, NEW t, NEW r \in RxType, Phase(s, n, m, t, r),
         t.state \in TxState,
         NEW v, NEW nn, NEW k, NEW done, NEW next, NEW g, NEW h,
         NEW op, NEW nop, ReceiveStep(r, v, n, nn, k, done, next, g, h, op, nop), NEW mm, Adds(mm, m, k)
  PROVE  Phase(s, nn, mm, t, v)
<1>1. CASE Ignores(v, r, n, nn, k)
  BY <1>1, IgnoresPhase
<1>2. ASSUME NEW j, Took(n, nn, j, "FINFO"),
             AnswersFinfo(v, r, j, k) \/ Refuses(v, r, j, k, done, next) \/ OpensFile(v, r, j, k, g, h)
      PROVE  Phase(s, nn, mm, t, v)
  BY <1>2, AnswersPhase
<1>3. ASSUME NEW type \in {"DATA", "EOF"}, NEW j, Took(n, nn, j, type),
             \/ AsksAgain(v, r, j, k) \/ FailsToWrite(v, r, j, k, done, next)
             \/ TakesBlock(v, r, j, k, g, h) \/ ClosesFile(v, r, j, k, done, next)
      PROVE  Phase(s, nn, mm, t, v)
  BY <1>3, TakesPhase
<1>4. ASSUME NEW j, Took(n, nn, j, "EOF"), r.state = "Finfo", SamePlace(v, r), k = Ctl("EOFACK")
      PROVE  Phase(s, nn, mm, t, v)
  BY <1>4, RepeatsPhase
<1> QED
  BY <1>1, <1>2, <1>3, <1>4 DEF ReceiveStep

-----------------------------------------------------------------------------
(* The invariant.                                                          *)

\* Each direction is in one of its phases; and a sender that has begun the
\* END exchange had its own receiver finished.
PhaseInv ==
    \A p \in Peer :
        /\ Phase(p, net[Other(p)], net[p], tx[p], rx[Other(p)])
        /\ tx[p].state \in FromEnd => rx[p].state = "Done"

\* A sender that moved to the END exchange was in Rend with its receiver done.
LEMMA EndsOnce ==
  ASSUME NEW s, NEW t, NEW u, NEW x, NEW r, NEW v, NEW n, NEW m, NEW mm, NEW k,
         NEW told, NEW next, SendStep(s, t, u, n, m, mm, k, told, next), SyncStep(x, u, v),
         x.state \in FromEnd
  PROVE  t.state \in FromEnd \/ v.state = "Done"
<1>1. u.state \in FromEnd \/ v.state = "Done"
  BY DEF SyncStep, FromEnd
<1>2. u.state \in FromEnd => t.state \in FromEnd
  BY DEF SendStep, SendsNothing, Stays, Repeats, AnnouncesNext, SendsBlock, ReachesEnd, SendsEOF,
         HearsFinfoAck, HearsDataAck, HearsRpos, HearsEOFAck, FileOver, Transferring, FromEnd,
         BeforeFinfo
<1> QED
  BY <1>1, <1>2

\* A receiver that has seen the end of the batch stays there.
LEMMA StaysDone ==
  ASSUME NEW r, NEW v, NEW n, NEW nn, NEW k, NEW done, NEW next, NEW g, NEW h,
         NEW op, NEW nop, ReceiveStep(r, v, n, nn, k, done, next, g, h, op, nop), r.state = "Done"
  PROVE  v.state = "Done"
  BY DEF ReceiveStep, Ignores, SamePlace, SameRx, AnswersFinfo, Refuses, OpensFile, AsksAgain,
         FailsToWrite, TakesBlock, ClosesFile

\* The machines and channels of the two peers.
LEMMA Typed ==
  ASSUME SentInv, NEW p \in Peer
  PROVE  /\ tx[p] \in TxType /\ tx[p].state \in TxState /\ rx[p] \in RxType
         /\ net[p] \in Seq(Packet) /\ res[p] \in {"run", "ok", "err"}
  BY DEF SentInv, TypeOK, MachinesOK, TxType

\* A step of a running peer keeps it.
LEMMA RunPhase ==
  ASSUME SentInv, HandshakeInv', PhaseInv, NEW p \in Peer, NEW t, NEW k, RunStep(p, t, k)
  PROVE  PhaseInv'
<1> DEFINE o == Other(p)
<1>1. o \in Peer /\ Other(o) = p /\ o # p /\ \A q \in Peer : q = p \/ q = o
  BY TheOther
<1>2. /\ t \in TxType /\ tx'[o] = tx[o] /\ rx'[o] = rx[o]
      /\ SendStep(p, tx[p], t, net[o], net[p], net'[p], k, sDone, sDone')
      /\ SyncStep(tx'[p], t, rx'[p])
      /\ ReceiveStep(rx[p], rx'[p], net[p], net'[p], k, rDone, rDone', got, got', opened, opened')
      /\ Adds(net'[o], net[o], k)
  BY DEF RunStep, OtherEnd
<1>3. tx[p].state \in TxState /\ tx[o].state \in TxState /\ t.state \in TxState
      /\ net[p] \in Seq(Packet) /\ net[o] \in Seq(Packet) /\ rx[p] \in RxType
  BY <1>1, <1>2, Typed DEF TxType
<1>4. Phase(p, net'[o], net'[p], tx'[p], rx'[o])
  <2>1. Phase(p, net[o], net[p], tx[p], rx[o])
    BY DEF PhaseInv
  <2>2. Phase(p, net'[o], net'[p], t, rx[o])
    BY <1>2, <1>3, <2>1, SendPhase
  <2>3. t.state = "Rinit" /\ tx'[p].state = "Finfo" => rx[o].state # "Init"
    BY <1>1, <1>2 DEF HandshakeInv, Early, Knows
  <2> QED
    BY <1>2, <1>3, <2>2, <2>3, SyncPhase
<1>5. Phase(o, net'[p], net'[o], tx'[o], rx'[p])
  <2>1. Phase(o, net[p], net[o], tx[o], rx[p])
    BY <1>1 DEF PhaseInv
  <2> QED
    BY <1>2, <1>3, <2>1, ReceivePhase
<1>6. tx'[p].state \in FromEnd => rx'[p].state = "Done"
  BY <1>2, EndsOnce, StaysDone DEF PhaseInv
<1>7. tx'[o].state \in FromEnd => rx'[o].state = "Done"
  BY <1>1, <1>2 DEF PhaseInv
<1> HIDE DEF o
<1> QED
  BY <1>1, <1>4, <1>5, <1>6, <1>7 DEF PhaseInv, o

\* And so does the end of a Run.
LEMMA StopPhase ==
  ASSUME SentInv, PhaseInv, NEW p \in Peer, StopStep(p)
  PROVE  PhaseInv'
<1> DEFINE o == Other(p)
<1>1. o \in Peer /\ Other(o) = p /\ o # p /\ \A q \in Peer : q = p \/ q = o
  BY TheOther
<1>2. /\ tx'[o] = tx[o] /\ rx'[o] = rx[o]
      /\ SendStop(tx'[p], tx[p], net[p], net'[p], sDone, sDone')
      /\ ReceiveStop(rx'[p], rx[p], net'[p], rDone, rDone', got, got', opened, opened')
      /\ Adds(net'[o], net[o], Nothing)
  BY DEF StopStep, OtherEnd
<1>3. tx[p].state \in TxState /\ tx[o].state \in TxState
      /\ net[p] \in Seq(Packet) /\ net[o] \in Seq(Packet)
  BY <1>1, Typed
<1>4. Phase(p, net'[o], net'[p], tx'[p], rx'[o])
  BY <1>2, <1>3, SendStopPhase DEF PhaseInv
<1>5. Phase(o, net'[p], net'[o], tx'[o], rx'[p])
  <2>1. Phase(o, net[p], net[o], tx[o], rx[p])
    BY <1>1 DEF PhaseInv
  <2> QED
    BY <1>2, <1>3, <2>1, ReceiveStopPhase
<1>6. tx'[p].state \in FromEnd => rx'[p].state = "Done"
  BY <1>2 DEF PhaseInv, SendStop, ReceiveStop
<1>7. tx'[o].state \in FromEnd => rx'[o].state = "Done"
  BY <1>1, <1>2 DEF PhaseInv
<1> HIDE DEF o
<1> QED
  BY <1>1, <1>4, <1>5, <1>6, <1>7 DEF PhaseInv, o

\* It holds at the start.
LEMMA InitPhase == Init => PhaseInv
<1> SUFFICES ASSUME Init, NEW p \in Peer
             PROVE  /\ Phase(p, net[Other(p)], net[p], tx[p], rx[Other(p)])
                    /\ tx[p].state \in FromEnd => rx[p].state = "Done"
  BY DEF PhaseInv
<1>1. /\ net[Other(p)] = <<>> /\ net[p] = <<>> /\ tx[p].state = "Start"
      /\ tx[p].lastFinfo = NoFile /\ rx[Other(p)].state = "Init"
      /\ rx[Other(p)].refused = NoFile
  BY TheOther DEF Init, newTx, newRx
<1>2. Among(<<>>) = {} /\ \A k, l : ~Follows(<<>>, k, l)
  BY AmongFew DEF Follows
<1>3. tx[p].state \in BeforeFinfo /\ tx[p].state \notin FromEnd
  BY <1>1, TxStates DEF BeforeFinfo
<1>4. Announced(net[Other(p)], tx[p]) /\ Replied(net[Other(p)], net[p], tx[p], rx[Other(p)])
  BY <1>1, <1>2 DEF Announced, Replied, NoneAfter
<1>5. Abreast(p, net[Other(p)], net[p], tx[p], rx[Other(p)])
  BY <1>1, <1>2, <1>3, TxStates DEF Abreast, Void
<1> QED
  BY <1>1, <1>3, <1>4, <1>5 DEF Phase

\* Every step keeps it.
LEMMA NextPhase ==
  ASSUME Patient, SentInv, HandshakeInv, HandshakeInv', PhaseInv, [Next]_vars
  PROVE  PhaseInv'
<1>1. CASE UNCHANGED <<tx, rx, net, res, sDone, rDone, opened, got>>
  BY <1>1 DEF PhaseInv
<1>2. CASE \E p \in Peer : (\E t, k : RunStep(p, t, k)) \/ StopStep(p)
  BY <1>2, RunPhase, StopPhase
<1> QED
  BY <1>1, <1>2, NextMoves

\* It is what EndAgreement asks for, and more.
LEMMA PhaseImplies == PhaseInv => EndAgreement
  BY DEF PhaseInv, Phase, Abreast, EndAgreement

\* What the layers above start from, in every state.
LEMMA InPhase ==
  ASSUME Patient
  PROVE  Spec => [](SentInv /\ HandshakeInv /\ PhaseInv)
<1>1. Init => SentInv /\ HandshakeInv /\ PhaseInv
  BY InitSent, InitHandshake, InitPhase
<1>2. SentInv /\ HandshakeInv /\ PhaseInv /\ [Next]_vars
        => (SentInv /\ HandshakeInv /\ PhaseInv)'
  BY NextSent, NextHandshake, NextPhase
<1> QED
  BY <1>1, <1>2, PTL DEF Spec

\* A sender past its end-of-batch FINFO (htxRend and after) talks to a receiver
\* that has seen it, and one in the END exchange has itself seen the peer's
\* (sync, rxFinfo, txFinfoAck), for every choice of the constants with a FINFO
\* timer that no answer is late for.
THEOREM EndsAgree ==
  ASSUME Patient
  PROVE  Spec => []EndAgreement
  BY InPhase, PhaseImplies, PTL

-----------------------------------------------------------------------------
(* How the batch ends.                                                     *)

\* The announcement of the end of the batch is out, or answered: nothing is
\* left to be aborted.
Ending(t) == (t.state = "FinfoAck" /\ t.lastFinfo = EOB) \/ t.state \in FromEnd \cup {"Rend"}

Closed(s, t, running, told) ==
    /\ t.state \in Transferring \/ (t.state = "FinfoAck" /\ ~t.eob) => t.err # "Aborted"
    /\ Ending(t) => t.next = Len(Offers[s]) + 1 /\ t.offer = NoFile
    /\ Ending(t) \/ running => \A f \in Offered(s) : told[f] # <<"Aborted">>

EndInv ==
    \A p \in Peer :
        /\ Closed(p, tx[p], res[p] = "run", sDone)
        /\ \A f \in Offered(p) : rDone[f] = <<"Aborted">> =>
              rx[Other(p)].state = "Data" /\ res[Other(p)] # "run"
        /\ res[p] = "ok" => tx[p].state \in FromEnd

\* A call appends its outcome, to one file's calls only.
LEMMA CompleteTells ==
  ASSUME NEW done \in [File -> Seq(Outcome)], NEW f \in File, NEW g, NEW o \in Outcome,
         NEW next, next = Complete(done, g, o)
  PROVE  /\ f # g => next[f] = done[f]
         /\ f = g => next[f] = Append(done[f], o)
  BY DEF Complete

\* The last call decides.
LEMMA LastCall ==
  ASSUME NEW S, NEW x \in Seq(S), NEW o \in S, NEW a \in S, o # a
  PROVE  Append(x, o) # <<a>>
<1>1. Len(Append(x, o)) = Len(x) + 1 /\ Append(x, o)[Len(x) + 1] = o /\ Len(x) \in Nat
  BY AppendProperties, LenProperties
<1>2. Len(<<a>>) = 1 /\ <<a>>[1] = a
  OBVIOUS
<1> QED
  BY <1>1, <1>2

\* What no step tells of a file it does not abort.
LEMMA NotAborted ==
  ASSUME NEW done \in [File -> Seq(Outcome)], NEW f \in File, NEW g, NEW o \in Outcome,
         o # "Aborted", NEW next, next = Complete(done, g, o), next[f] = <<"Aborted">>
  PROVE  done[f] = <<"Aborted">>
<1>1. "Aborted" \in Outcome /\ done[f] \in Seq(Outcome)
  BY DEF Outcome
<1>2. f # g
  BY <1>1, CompleteTells, LastCall
<1> QED
  BY <1>2, CompleteTells

\* A sender's step makes no file aborted.
LEMMA SendTells ==
  ASSUME NEW s, NEW told, told \in [File -> Seq(Outcome)], NEW t, t.err \in Outcome, NEW u, NEW n,
         NEW m, NEW mm, NEW k, NEW next, SendStep(s, t, u, n, m, mm, k, told, next),
         t.err # "Aborted" \/ t.state \notin Transferring
  PROVE  \A f \in File : next[f] = <<"Aborted">> => told[f] = <<"Aborted">>
<1> SUFFICES ASSUME NEW f \in File, next[f] = <<"Aborted">>
             PROVE  told[f] = <<"Aborted">>
  OBVIOUS
<1>1. {"Skip", "Defer", "TooLarge", "Aborted", "nil"} \subseteq Outcome /\ told[f] \in Seq(Outcome)
  BY DEF Outcome
<1>2. CASE AnnouncesNext(s, u, t, k, told, next)
  <2>1. next[f] = told[f] \/ next[f] = Append(told[f], "TooLarge")
    BY <1>2 DEF AnnouncesNext
  <2> QED
    BY <1>1, <2>1, LastCall
<1>3. CASE HearsFinfoAck(u, t, m, mm, told, next)
  <2>1. next = told \/ \E o \in {"Skip", "Defer"} : next = Complete(told, t.offer, o)
    BY <1>3 DEF HearsFinfoAck
  <2> QED
    BY <1>1, <2>1, NotAborted
<1>4. CASE HearsEOFAck(u, t, m, mm, told, next)
  <2>1. next = Complete(told, t.offer, eofOutcome(t)) /\ t.err # "Aborted"
    BY <1>4 DEF HearsEOFAck, Transferring
  <2>2. eofOutcome(t) \in {"nil", "Skip"} \/ eofOutcome(t) = t.err
    BY DEF eofOutcome
  <2> QED
    BY <1>1, <2>1, <2>2, NotAborted
<1> QED
  BY <1>2, <1>3, <1>4 DEF SendStep

\* Nor a receiver's.
LEMMA ReceiveTells ==
  ASSUME NEW done \in [File -> Seq(Outcome)], NEW r, NEW v, NEW n, NEW nn, NEW k, NEW next,
         NEW g, NEW h,
         NEW op, NEW nop, ReceiveStep(r, v, n, nn, k, done, next, g, h, op, nop),
         NEW f \in File, next[f] = <<"Aborted">>
  PROVE  done[f] = <<"Aborted">>
<1>1. {"Skip", "Defer", "Range", "Write", "SenderSkip", "nil"} \subseteq Outcome
  BY DEF Outcome
<1>2. next = done \/ \E e : \E o \in {"Skip", "Defer", "Range", "Write", "SenderSkip", "nil"} :
        next = Complete(done, e, o)
  BY DEF ReceiveStep, Refuses, FailsToWrite, ClosesFile
<1> QED
  BY <1>1, <1>2, NotAborted

\* A sender that sends nothing keeps its place.
LEMMA StaysEnding ==
  ASSUME NEW u, NEW t, NEW k, SendsNothing(u, t, k)
  PROVE  /\ Ending(u) => Ending(t)
         /\ u.state \in Transferring \/ (u.state = "FinfoAck" /\ ~u.eob)
              => t.state \in Transferring \/ (t.state = "FinfoAck" /\ ~t.eob)
<1>1. u.eob = t.eob /\ u.lastFinfo = t.lastFinfo
  BY DEF SendsNothing, SameFile
<1>2. CASE u.state = t.state
  BY <1>1, <1>2 DEF Ending
<1>3. CASE u.state # t.state
  BY <1>3 DEF SendsNothing, Stays, Ending, Transferring, BeforeFinfo, FromEnd
<1> QED
  BY <1>2, <1>3

\* A sender's step, and sync.
LEMMA SendEnd ==
  ASSUME NEW s \in Peer, NEW told \in [File -> Seq(Outcome)], NEW t \in TxType, NEW u, NEW n,
         NEW m, NEW mm, NEW k, NEW next, SendStep(s, t, u, n, m, mm, k, told, next),
         NEW running \in BOOLEAN, running \/ SendsNothing(u, t, k), Closed(s, t, running, told),
         t.state = "Finfo" => t.lastFinfo = NoFile,
         t.state = "FinfoAck" => (t.eob <=> t.lastFinfo = EOB)
  PROVE  Closed(s, u, running, next)
<1>1. Offered(s) \subseteq File /\ EOB \notin File
  BY OffersAreFiles, MarkerAssumption DEF Offered
<1>2. /\ u.state \in Transferring \/ (u.state = "FinfoAck" /\ ~u.eob) => u.err # "Aborted"
      /\ Ending(u) => u.next = Len(Offers[s]) + 1 /\ u.offer = NoFile
  <2>1. CASE SendsNothing(u, t, k)
    <3>1. u.err = t.err /\ u.next = t.next /\ u.offer = t.offer
      BY <2>1 DEF SendsNothing, SameFile, SameData
    <3> QED
      BY <2>1, <3>1, StaysEnding DEF Closed
  <2>2. CASE Repeats(u, t, n, m, k)
    BY <2>2, TxStates DEF Repeats, SameCursor, SameData, Ending, Closed
  <2>3. CASE AnnouncesNext(s, u, t, k, told, next)
    BY <1>1, <2>3, TxStates DEF AnnouncesNext, Ending
  <2>4. CASE SendsBlock(u, t, k)
    BY <2>4, TxStates DEF SendsBlock, Ending, Closed, Transferring
  <2>5. CASE ReachesEnd(u, t, k)
    BY <2>5, TxStates DEF ReachesEnd, Ending, Closed, Transferring
  <2>6. CASE SendsEOF(u, t, k)
    BY <2>6, TxStates DEF SendsEOF, SameData, Ending, Closed, Transferring
  <2>7. CASE HearsFinfoAck(u, t, m, mm, told, next)
    <3>1. t.state = "FinfoAck" /\ (t.eob <=> t.lastFinfo = EOB)
      BY <2>7 DEF HearsFinfoAck
    <3>2. \/ t.eob /\ u.state = "Rend" /\ SameCursor(u, t)
          \/ FileOver(u, t)
          \/ ~t.eob /\ u.state \in {"EOF", "Xdata"} /\ (u.err = "Range" \/ u.err = t.err)
      BY <2>7 DEF HearsFinfoAck
    <3>3. CASE t.eob /\ u.state = "Rend" /\ SameCursor(u, t)
      BY <3>1, <3>3, TxStates DEF SameCursor, Ending, Closed
    <3>4. CASE FileOver(u, t)
      BY <3>4 DEF FileOver, Ending, Transferring, FromEnd
    <3>5. CASE ~t.eob /\ u.state \in {"EOF", "Xdata"} /\ (u.err = "Range" \/ u.err = t.err)
      <4>1. t.err # "Aborted" /\ u.err # "Aborted"
        BY <3>1, <3>5 DEF Closed
      <4> QED
        BY <3>5, <4>1 DEF Ending, FromEnd
    <3> QED
      BY <3>2, <3>3, <3>4, <3>5
  <2>8. CASE HearsDataAck(u, t, m, mm)
    BY <2>8, TxStates DEF HearsDataAck, SameData, Ending, Closed, Transferring
  <2>9. CASE HearsRpos(u, t, m, mm)
    BY <2>9, TxStates DEF HearsRpos, Ending, Closed, Transferring
  <2>10. CASE HearsEOFAck(u, t, m, mm, told, next)
    BY <2>10, TxStates DEF HearsEOFAck, FileOver, Ending
  <2> QED
    BY <2>1, <2>2, <2>3, <2>4, <2>5, <2>6, <2>7, <2>8, <2>9, <2>10 DEF SendStep
<1>3. ASSUME Ending(u) \/ running, NEW f \in Offered(s)
      PROVE  next[f] # <<"Aborted">>
  <2>1. Ending(t) \/ running
    BY <1>3, StaysEnding
  <2> QED
    <3>1. t.err \in Outcome /\ (t.err # "Aborted" \/ t.state \notin Transferring)
      BY DEF TxType, Closed
    <3>2. next[f] = <<"Aborted">> => told[f] = <<"Aborted">>
      BY <1>1, <3>1, SendTells
    <3> QED
      BY <1>3, <2>1, <3>2 DEF Closed
<1> QED
  BY <1>2, <1>3 DEF Closed

\* sync starts the END exchange only where nothing is left to be told.
LEMMA SyncEnd ==
  ASSUME NEW s, NEW t, NEW u, NEW r, NEW running, NEW told, SyncStep(u, t, r),
         Closed(s, t, running, told)
  PROVE  Closed(s, u, running, told)
<1>1. /\ u.next = t.next /\ u.offer = t.offer /\ u.err = t.err /\ u.eob = t.eob
      /\ u.lastFinfo = t.lastFinfo
  BY DEF SyncStep, SameFile, SameData
<1>2. Ending(u) => Ending(t)
  BY <1>1, TxStates DEF SyncStep, Ending, FromEnd
<1>3. u.state \in Transferring \/ (u.state = "FinfoAck" /\ ~u.eob)
      => t.state \in Transferring \/ (t.state = "FinfoAck" /\ ~t.eob)
  BY <1>1, TxStates DEF SyncStep, Transferring
<1> QED
  BY <1>1, <1>2, <1>3 DEF Closed

\* The two peers offer different files.
LEMMA OfferedApart ==
  ASSUME NEW p \in Peer
  PROVE  Offered(p) \subseteq File /\ \A f \in Offered(p) : f \notin Offered(Other(p))
<1>1. Other(p) \in Peer /\ Other(p) # p
  BY TheOther
<1>2. Offered(p) \subseteq File
  BY OffersAreFiles DEF Offered
<1>3. ASSUME NEW f \in Offered(p), f \in Offered(Other(p))
      PROVE  FALSE
  <2>1. PICK i \in 1..Len(Offers[p]) : Offers[p][i] = f
    BY DEF Offered
  <2>2. PICK j \in 1..Len(Offers[Other(p)]) : Offers[Other(p)][j] = f
    BY <1>3 DEF Offered
  <2> QED
    BY <1>1, <2>1, <2>2, OnePlace
<1> QED
  BY <1>2, <1>3

\* The file a running sender works at, and the one a receiver has open.
LEMMA AtWork ==
  ASSUME SentInv, ReceivedInv, NEW p \in Peer
  PROVE  /\ res[p] = "run" /\ tx[p].offer # NoFile =>
              tx[p].offer \in Offered(p) /\ tx[p].offer = Current(p, tx[p])
         /\ res[p] # "run" => tx[p].offer = NoFile /\ ~rx[p].open
         /\ rx[p].open => rx[p].state = "Data"
         /\ rx[p].state = "Data" => rx[p].file \in Offered(Other(p))
<1>1. Other(p) \in Peer /\ Other(p) # p
  BY TheOther
<1>2. Level(Other(p), net[p], tx[Other(p)], rx[p], rDone, opened)
  BY <1>1 DEF ReceivedInv
<1>3. res[p] # "run" => tx[p].offer = NoFile /\ ~rx[p].open
  BY DEF SentInv, Shape, ReceivedInv
<1>4. ASSUME res[p] = "run", tx[p].offer # NoFile
      PROVE  tx[p].offer \in Offered(p) /\ tx[p].offer = Current(p, tx[p])
  <2>1. tx[p].next \in 2..(Len(Offers[p]) + 1) /\ tx[p].offer = Offers[p][tx[p].next - 1]
    BY <1>4, PendingOffer DEF SentInv, TypeOK
  <2>2. tx[p].next - 1 \in 1..Len(Offers[p])
    BY <2>1, OffersAreFiles
  <2> QED
    BY <2>1, <2>2 DEF Offered, Current
<1> QED
  BY <1>2, <1>3, <1>4 DEF Level

\* A step of a running peer keeps it.
LEMMA RunEnd ==
  ASSUME SentInv, PhaseInv, EndInv, NEW p \in Peer, NEW t, NEW k, RunStep(p, t, k)
  PROVE  EndInv'
<1> DEFINE o == Other(p)
<1>1. o \in Peer /\ Other(o) = p /\ o # p /\ \A q \in Peer : q = p \/ q = o
  BY TheOther
<1>2. /\ t \in TxType /\ tx'[o] = tx[o] /\ rx'[o] = rx[o] /\ res' = res
      /\ SendStep(p, tx[p], t, net[o], net[p], net'[p], k, sDone, sDone')
      /\ SyncStep(tx'[p], t, rx'[p])
      /\ ReceiveStep(rx[p], rx'[p], net[p], net'[p], k, rDone, rDone', got, got', opened, opened')
      /\ res[p] # "run" => SendsNothing(t, tx[p], k) /\ Ignores(rx'[p], rx[p], net[p], net'[p], k)
  BY DEF RunStep, OtherEnd
<1>3. /\ tx[p] \in TxType /\ sDone \in [File -> Seq(Outcome)] /\ rDone \in [File -> Seq(Outcome)]
  BY Typed DEF SentInv, TypeOK, HistoryOK
<1>4. Offered(p) \subseteq File /\ Offered(o) \subseteq File
  BY <1>1, OfferedApart
<1>5. Abreast(p, net[o], net[p], tx[p], rx[o])
  BY DEF PhaseInv, Phase
<1>6. ASSUME NEW f \in File, rDone'[f] = <<"Aborted">>
       PROVE  rDone[f] = <<"Aborted">>
  <2>1. ReceiveStep(rx[p], rx'[p], net[p], net'[p], k, rDone, rDone', got, got', opened, opened')
    BY <1>2
  <2>2. rDone \in [File -> Seq(Outcome)]
    BY <1>3
  <2> QED
    BY <1>6, <2>1, <2>2, ReceiveTells
<1>7. ASSUME NEW f \in File, sDone'[f] = <<"Aborted">>
       PROVE  sDone[f] = <<"Aborted">>
  <2>1. SendStep(p, tx[p], t, net[o], net[p], net'[p], k, sDone, sDone')
    BY <1>2
  <2>2. tx[p].err # "Aborted" \/ tx[p].state \notin Transferring
    BY DEF EndInv, Closed
  <2>3. sDone \in [File -> Seq(Outcome)] /\ tx[p].err \in Outcome
    BY <1>3 DEF TxType
  <2> QED
    BY <1>7, <2>1, <2>2, <2>3, SendTells
<1>8. Closed(p, tx'[p], res'[p] = "run", sDone')
  <2>1. /\ tx[p].state = "Finfo" => tx[p].lastFinfo = NoFile
        /\ tx[p].state = "FinfoAck" => (tx[p].eob <=> tx[p].lastFinfo = EOB)
    BY <1>5 DEF Abreast
  <2>2. Closed(p, t, res[p] = "run", sDone')
    <3>1. Closed(p, tx[p], res[p] = "run", sDone) /\ (res[p] = "run") \in BOOLEAN
      BY DEF EndInv
    <3> QED
      BY <1>2, <1>3, <2>1, <3>1, SendEnd
  <2> QED
    BY <1>2, <2>2, SyncEnd
<1>9. Closed(o, tx'[o], res'[o] = "run", sDone')
  <2>1. Closed(o, tx[o], res[o] = "run", sDone)
    BY <1>1 DEF EndInv
  <2> QED
    BY <1>2, <1>4, <1>7, <2>1 DEF Closed
<1>10. ASSUME NEW f \in Offered(p), rDone'[f] = <<"Aborted">>
      PROVE  rx'[o].state = "Data" /\ res'[o] # "run"
  <2>1. rDone[f] = <<"Aborted">>
    BY <1>4, <1>10, <1>6
  <2> QED
    BY <1>2, <2>1 DEF EndInv
<1>11. ASSUME NEW f \in Offered(o), rDone'[f] = <<"Aborted">>
      PROVE  rx'[p].state = "Data" /\ res'[p] # "run"
  <2>1. rDone[f] = <<"Aborted">>
    BY <1>4, <1>11, <1>6
  <2>2. rx[p].state = "Data" /\ res[p] # "run"
    BY <1>1, <2>1 DEF EndInv
  <2>3. rx'[p].state = rx[p].state
    BY <1>2, <2>2 DEF Ignores, SamePlace, SameRx
  <2> QED
    BY <1>2, <2>2, <2>3
<1>12. res'[p] = "ok" => tx'[p].state \in FromEnd
  <2>1. res[p] = "ok" => tx[p].state \in FromEnd /\ SendsNothing(t, tx[p], k)
    BY <1>2 DEF EndInv
  <2>2. res[p] = "ok" => t.state \in FromEnd
    BY <2>1 DEF SendsNothing, Stays, FromEnd, Transferring, BeforeFinfo
  <2> QED
    BY <1>2, <2>2 DEF SyncStep, FromEnd
<1>13. res'[o] = "ok" => tx'[o].state \in FromEnd
  BY <1>1, <1>2 DEF EndInv
<1> HIDE DEF o
<1> QED
  BY <1>1, <1>8, <1>9, <1>10, <1>11, <1>12, <1>13 DEF EndInv, o

\* And so does the end of a Run.
LEMMA StopEnd ==
  ASSUME SentInv, ReceivedInv, EndInv, NEW p \in Peer, StopStep(p)
  PROVE  EndInv'
<1> DEFINE o == Other(p)
           t == tx[p]
           u == tx'[p]
<1>1. o \in Peer /\ Other(o) = p /\ o # p /\ \A q \in Peer : q = p \/ q = o
  BY TheOther
<1>2. /\ tx'[o] = tx[o] /\ rx'[o] = rx[o] /\ res'[o] = res[o]
      /\ res[p] = "run" /\ res'[p] \in {"ok", "err"} /\ (res'[p] = "ok" => t.state \in FromEnd)
      /\ SendStop(u, t, net[p], net'[p], sDone, sDone')
      /\ ReceiveStop(rx'[p], rx[p], net'[p], rDone, rDone', got, got', opened, opened')
  BY DEF StopStep, OtherEnd
<1>3. sDone \in [File -> Seq(Outcome)] /\ rDone \in [File -> Seq(Outcome)] /\ "Aborted" \in Outcome
  BY DEF SentInv, TypeOK, HistoryOK, Outcome
<1>4. /\ Offered(p) \subseteq File /\ Offered(o) \subseteq File
      /\ \A f \in Offered(p) : f \notin Offered(o)
  BY <1>1, OfferedApart
<1>5. /\ u.offer = NoFile /\ u.next = t.next /\ u.eob = t.eob /\ u.lastFinfo = t.lastFinfo
      /\ u.err = t.err
      /\ u.state = t.state \/ (u.state \in FromEnd /\ t.state \in FromEnd)
      /\ sDone' = IF t.offer = NoFile THEN sDone ELSE Complete(sDone, t.offer, "Aborted")
  BY <1>2 DEF SendStop, SameData
<1>6. /\ Ending(u) => Ending(t)
      /\ u.state \in Transferring \/ (u.state = "FinfoAck" /\ ~u.eob)
           => t.state \in Transferring \/ (t.state = "FinfoAck" /\ ~t.eob)
  BY <1>5, TxStates DEF Ending
<1>7. Closed(p, u, res'[p] = "run", sDone')
  BY <1>2, <1>5, <1>6 DEF EndInv, Closed
<1>8. Closed(o, tx'[o], res'[o] = "run", sDone')
  <2>1. t.offer # NoFile => t.offer \in Offered(p)
    BY <1>2, AtWork
  <2>2. ASSUME NEW f \in Offered(o)
        PROVE  sDone'[f] = sDone[f]
    <3>1. CASE t.offer = NoFile
      BY <1>5, <3>1
    <3>2. CASE t.offer # NoFile
      <4>1. sDone' = Complete(sDone, t.offer, "Aborted") /\ f \in File /\ f # t.offer
        BY <1>4, <1>5, <2>1, <3>2
      <4> QED
        BY <1>3, <4>1, CompleteTells
    <3> QED
      BY <3>1, <3>2
  <2>3. Closed(o, tx[o], res[o] = "run", sDone)
    BY <1>1 DEF EndInv
  <2> QED
    BY <1>2, <2>2, <2>3 DEF Closed
<1>9. /\ rx'[p].state = rx[p].state
      /\ rDone' = IF rx[p].open THEN Complete(rDone, rx[p].file, "Aborted") ELSE rDone
      /\ rx[p].open => rx[p].state = "Data" /\ rx[p].file \in Offered(o)
  BY <1>2, AtWork DEF ReceiveStop
<1>10. ASSUME NEW f \in Offered(p), rDone'[f] = <<"Aborted">>
       PROVE  rx'[o].state = "Data" /\ res'[o] # "run"
  <2>1. rDone'[f] = rDone[f]
    <3>1. CASE ~rx[p].open
      BY <1>9, <3>1
    <3>2. CASE rx[p].open
      <4>1. rDone' = Complete(rDone, rx[p].file, "Aborted") /\ f \in File /\ f # rx[p].file
        BY <1>4, <1>9, <3>2
      <4> QED
        BY <1>3, <4>1 DEF Complete
    <3> QED
      BY <3>1, <3>2
  <2> QED
    BY <1>2, <1>10, <2>1 DEF EndInv
<1>11. ASSUME NEW f \in Offered(o), rDone'[f] = <<"Aborted">>
       PROVE  rx'[p].state = "Data" /\ res'[p] # "run"
  <2>1. CASE rx[p].open
    BY <1>2, <1>9, <2>1
  <2>2. CASE ~rx[p].open
    BY <1>1, <1>2, <1>9, <1>11, <2>2 DEF EndInv
  <2> QED
    BY <2>1, <2>2
<1>12. /\ res'[p] = "ok" => u.state \in FromEnd
       /\ res'[o] = "ok" => tx'[o].state \in FromEnd
  BY <1>1, <1>2, <1>5 DEF EndInv
<1> HIDE DEF o
<1> QED
  BY <1>1, <1>7, <1>8, <1>10, <1>11, <1>12 DEF EndInv, o

\* It holds at the start.
LEMMA InitEnd == Init => EndInv
<1> SUFFICES ASSUME Init PROVE EndInv
  OBVIOUS
<1>1. /\ \A p \in Peer : tx[p] = newTx /\ res[p] = "run"
      /\ \A f \in File : sDone[f] = <<>> /\ rDone[f] = <<>>
  BY DEF Init
<1>2. newTx.state = "Start" /\ newTx.err = "nil"
  BY DEF newTx
<1>3. <<>> # <<"Aborted">>
  OBVIOUS
<1>4. \A p \in Peer : Offered(p) \subseteq File
  BY OfferedApart
<1>5. ASSUME NEW p \in Peer
      PROVE  Closed(p, tx[p], res[p] = "run", sDone)
  BY <1>1, <1>2, <1>3, <1>4 DEF Closed, Ending, Transferring, FromEnd
<1> QED
  BY <1>1, <1>3, <1>4, <1>5 DEF EndInv

\* Every step keeps it.
LEMMA NextEnd ==
  ASSUME Patient, SentInv, HandshakeInv, PhaseInv, ReceivedInv, EndInv, [Next]_vars
  PROVE  EndInv'
<1>1. CASE UNCHANGED <<tx, rx, net, res, sDone, rDone, opened, got>>
  BY <1>1 DEF EndInv, Closed
<1>2. CASE \E p \in Peer : (\E t, k : RunStep(p, t, k)) \/ StopStep(p)
  BY <1>2, RunEnd, StopEnd
<1> QED
  BY <1>1, <1>2, NextMoves

\* A Run that ends well leaves both senders past the end of their batches.
LEMMA EndImplies ==
  ASSUME SentInv, PhaseInv, EndInv
  PROVE  CleanEnd
<1> SUFFICES ASSUME NEW p \in Peer, res[p] = "ok", NEW q \in Peer, NEW f \in Offered(q)
             PROVE  /\ Len(sDone[f]) = 1 /\ sDone[f] # <<"Aborted">>
                    /\ rDone[f] # <<"Aborted">>
  BY DEF CleanEnd
<1>1. /\ Other(p) \in Peer /\ Other(Other(p)) = p /\ (q = p \/ q = Other(p))
  BY TheOther
<1>2. tx[p].state \in FromEnd
  BY DEF EndInv
<1>3. rx[p].state = "Done" /\ rx[Other(p)].state = "Done"
  BY <1>2 DEF PhaseInv, Phase, Abreast
<1>4. Ending(tx[q])
  <2>1. CASE q = p
    BY <1>2, <2>1 DEF Ending
  <2>2. CASE q = Other(p)
    <3>1. Abreast(q, net[Other(q)], net[q], tx[q], rx[p]) /\ tx[q].state \in TxState
      BY <1>1, <2>2, Typed DEF PhaseInv, Phase
    <3> QED
      BY <1>3, <3>1, TxStates DEF Abreast, Ending
  <2> QED
    BY <1>1, <2>1, <2>2
<1>5. tx[q].next = Len(Offers[q]) + 1 /\ tx[q].offer = NoFile /\ sDone[f] # <<"Aborted">>
  BY <1>4 DEF EndInv, Closed
<1>6. PICK i \in 1..Len(Offers[q]) : Offers[q][i] = f
  BY DEF Offered
<1>7. Len(sDone[f]) = 1
  <2>1. ~(i >= tx[q].next) /\ Offers[q][i] # NoFile
    BY <1>5, OffersAreFiles
  <2> QED
    BY <1>5, <1>6, <2>1 DEF SentInv, Ledger
<1>8. rDone[f] # <<"Aborted">>
  BY <1>1, <1>3 DEF EndInv
<1> QED
  BY <1>5, <1>7, <1>8

\* What the layers above start from, in every state.
LEMMA InEnd ==
  ASSUME Patient
  PROVE  Spec => [](SentInv /\ HandshakeInv /\ PhaseInv /\ ReceivedInv /\ EndInv)
<1>1. Init => SentInv /\ HandshakeInv /\ PhaseInv /\ ReceivedInv /\ EndInv
  BY InitSent, InitHandshake, InitPhase, InitReceived, InitEnd
<1>2. SentInv /\ HandshakeInv /\ PhaseInv /\ ReceivedInv /\ EndInv /\ [Next]_vars
        => (SentInv /\ HandshakeInv /\ PhaseInv /\ ReceivedInv /\ EndInv)'
  BY NextSent, NextHandshake, NextPhase, NextReceived, NextEnd
<1> QED
  BY <1>1, <1>2, PTL DEF Spec

\* A Run that returns nil (txEnd, txTimeout in htxEndAck, endPhaseHangup) leaves
\* nothing behind on either side, and the teardown had nothing to do.
THEOREM CleanlyEnded ==
  ASSUME Patient
  PROVE  Spec => []CleanEnd
<1>1. SentInv /\ PhaseInv /\ EndInv => CleanEnd
  BY EndImplies
<1> QED
  BY <1>1, InEnd, PTL

-----------------------------------------------------------------------------
(* What the writers hold, and what is claimed of it.                       *)

\* A packet of the file f, and of no more than there is.
Fits(k, f) ==
    /\ k.t = "DATA" => k.f = f /\ k.off + k.n <= Actual[f]
    /\ k.t = "EOF" /\ k.off >= 0 => k.off >= Actual[f]

\* A sender that was not told of more than the receiver has, and is no further
\* ahead of it than its window lets it be.
InWindow(t, has) ==
    /\ t.lastAck <= has
    /\ t.window > 0 =>
          /\ t.pos < has + t.window + (t.retries + 1) * MaxBlock
          /\ t.state \in {"Xdata", "Xwait"} => t.pos < has + t.window
AtEnd(t) == t.state \in {"EOF", "EOFAck"} => t.pos >= Actual[t.offer]

\* The file under way: what is on the way of it, what is claimed of it, and
\* where its sender is.
Wire(s, n, m, t, g) ==
    t.state \in Transferring =>
        /\ \A k \in Among(n) : Fits(k, Current(s, t))
        /\ \A k \in Among(m) : k.t \in {"DATAACK", "RPOS"} => k.off <= Len(g[Current(s, t)])
        /\ ~t.skip /\ t.offer # NoFile => AtEnd(t) /\ InWindow(t, Len(g[t.offer]))

\* A writer holds its file up to some place, not past its end unless it was
\* resumed there; up to where the receiver is, if it is open.
Stored(f, done, g) ==
    /\ g[f] = Content(f, 0, Len(g[f]))
    /\ Len(g[f]) <= Actual[f] \/ Len(g[f]) \in ResumeAt
    /\ done[f] = <<"nil">> => Len(g[f]) >= Actual[f]
AllStored(s, done, g) == \A f \in Offered(s) : Stored(f, done, g)
Standing(r, live, g) ==
    r.state = "Data" =>
        \/ r.pos = offsetSkip /\ ~r.open
        \/ r.pos = Len(g[r.file]) /\ (r.open \/ live # "run")

DataInv ==
    /\ \A p \in Peer :
        /\ Wire(p, net[Other(p)], net[p], tx[p], got)
        /\ tx[p].state \in Transferring => Current(p, tx[p]) \in Offered(p)
        /\ Standing(rx[p], res[p], got)
        /\ AllStored(p, rDone, got)
    /\ \A f \in File : (\A p \in Peer : f \notin Offered(p)) => got[f] = <<>>

\* The units of a file, from one place and on.
LEMMA ContentGrows ==
  ASSUME NEW f, NEW a \in Nat, NEW b \in Nat
  PROVE  /\ Len(Content(f, 0, a)) = a
         /\ Content(f, 0, a) \o Content(f, a, b) = Content(f, 0, a + b)
<1> DEFINE x == Content(f, 0, a)
           y == Content(f, a, b)
           z == Content(f, 0, a + b)
           S == {f} \X Nat
<1>1. /\ x \in Seq(S) /\ Len(x) = a /\ y \in Seq(S) /\ Len(y) = b
      /\ z \in Seq(S) /\ Len(z) = a + b
  BY DEF Content
<1>2. \A i \in 1..a : x[i] = <<f, i>>
  BY DEF Content
<1>3. \A i \in 1..b : y[i] = <<f, a + i>>
  BY DEF Content
<1>4. \A i \in 1..(a + b) : z[i] = <<f, i>>
  BY DEF Content
<1> HIDE DEF x, y, z, S
<1>5. x \o y \in Seq(S) /\ Len(x \o y) = a + b
  BY <1>1, ConcatProperties
<1>6. ASSUME NEW i \in 1..(a + b)
      PROVE  (x \o y)[i] = z[i]
  <2>1. CASE i <= a
    <3>1. i \in 1..a /\ (x \o y)[i] = x[i]
      BY <1>1, <2>1, ConcatProperties
    <3> QED
      BY <1>2, <1>4, <3>1
  <2>2. CASE ~(i <= a)
    <3>1. i - a \in 1..b /\ (x \o y)[i] = y[i - a] /\ a + (i - a) = i
      BY <1>1, <2>2, ConcatProperties
    <3> QED
      BY <1>3, <1>4, <3>1
  <2> QED
    BY <2>1, <2>2
<1>7. x \o y = z
  BY <1>1, <1>5, <1>6, SeqEqual
<1> QED
  BY <1>1, <1>7 DEF x, y, z

\* One more probe is one more block.
LEMMA Probes ==
  ASSUME NEW a \in Nat, NEW b \in Nat, a <= b
  PROVE  /\ (a + 1) * MaxBlock <= (b + 1) * MaxBlock
         /\ (a + 1) * MaxBlock + MaxBlock = (a + 1 + 1) * MaxBlock
         /\ (a + 1) * MaxBlock \in Nat /\ MaxBlock <= (a + 1) * MaxBlock
<1>1. MaxBlock \in Nat
  BY BoundAssumption
<1>2. PICK d \in Nat : b = a + d
  <2>1. b - a \in Nat /\ b = a + (b - a)
    OBVIOUS
  <2> QED
    BY <2>1
<1>3. (b + 1) * MaxBlock = (a + 1) * MaxBlock + d * MaxBlock
  BY <1>1, <1>2
<1>4. d * MaxBlock \in Nat /\ (a + 1) * MaxBlock \in Nat /\ a * MaxBlock \in Nat
  BY <1>1, <1>2
<1>5. (a + 1) * MaxBlock + MaxBlock = (a + 1 + 1) * MaxBlock
  BY <1>1
<1>6. (a + 1) * MaxBlock = a * MaxBlock + MaxBlock
  BY <1>1
<1> QED
  BY <1>1, <1>3, <1>4, <1>5, <1>6

\* A sender further along, or with more of its patience used up.
LEMMA KeepsWindow ==
  ASSUME NEW t \in TxType, NEW u \in TxType, NEW has \in Nat, InWindow(t, has),
         u.lastAck <= has, u.pos = t.pos, u.window = 0 \/ u.window = t.window,
         u.retries >= t.retries,
         u.window > 0 /\ u.state \in {"Xdata", "Xwait"} => t.state \in {"Xdata", "Xwait"}
  PROVE  InWindow(u, has)
<1>1. /\ t.retries \in Nat /\ u.retries \in Nat /\ t.pos \in Nat /\ t.window \in Nat
  BY SomeRetries DEF TxType
<1>2. (t.retries + 1) * MaxBlock <= (u.retries + 1) * MaxBlock
      /\ (t.retries + 1) * MaxBlock \in Nat /\ (u.retries + 1) * MaxBlock \in Nat
  BY <1>1, Probes
<1> DEFINE a == (t.retries + 1) * MaxBlock
           b == (u.retries + 1) * MaxBlock
<1>3. a <= b /\ a \in Nat /\ b \in Nat
  BY <1>2
<1>4. t.window > 0 => t.pos < has + t.window + a
      /\ (t.state \in {"Xdata", "Xwait"} => t.pos < has + t.window)
  BY DEF InWindow
<1>5. InWindow(u, has) <=>
        /\ u.lastAck <= has
        /\ u.window > 0 => /\ u.pos < has + u.window + b
                           /\ u.state \in {"Xdata", "Xwait"} => u.pos < has + u.window
  BY DEF InWindow
<1> HIDE DEF a, b
<1> QED
  BY <1>1, <1>3, <1>4, <1>5

\* One within the window proper.
LEMMA WithinWindow ==
  ASSUME NEW u \in TxType, NEW has \in Nat, u.lastAck <= has,
         u.window > 0 => u.pos < has + u.window
  PROVE  InWindow(u, has)
<1>1. u.retries \in Nat /\ u.pos \in Nat /\ u.window \in Nat
  BY SomeRetries DEF TxType
<1>2. (u.retries + 1) * MaxBlock \in Nat
  BY <1>1, Probes
<1> DEFINE b == (u.retries + 1) * MaxBlock
<1>3. b \in Nat
  BY <1>2
<1>4. InWindow(u, has) <=>
        /\ u.lastAck <= has
        /\ u.window > 0 => /\ u.pos < has + u.window + b
                           /\ u.state \in {"Xdata", "Xwait"} => u.pos < has + u.window
  BY DEF InWindow
<1> HIDE DEF b
<1> QED
  BY <1>1, <1>3, <1>4

\* One that sends a block.
LEMMA BlockWindow ==
  ASSUME NEW t \in TxType, NEW u \in TxType, NEW has \in Nat, InWindow(t, has), NEW k,
         SendsBlock(u, t, k)
  PROVE  InWindow(u, has)
<1>1. /\ t.retries \in Nat /\ u.retries \in Nat /\ t.pos \in Nat /\ t.window \in Nat
      /\ u.pos \in Nat /\ u.window \in Nat /\ t.lastAck \in Nat /\ MaxBlock \in Nat
  BY SomeRetries, BoundAssumption DEF TxType
<1>2. /\ u.lastAck = t.lastAck /\ t.lastAck <= has
      /\ u.window = 0 \/ (u.window = t.window /\ u.retries >= t.retries)
      /\ u.state = "Xdata" => u.window = 0 \/ u.pos < u.lastAck + u.window
      /\ t.state = "DataAck" /\ u.window > 0 => u.retries = t.retries + 1
      /\ t.state \in {"Xdata", "DataAck"} /\ u.state \in {"Xdata", "DataAck"}
  BY DEF SendsBlock, Dropped, Tried, InWindow
<1>3. PICK n \in 1..MaxBlock : u.pos = t.pos + n
  BY DEF SendsBlock
<1>4. CASE u.state = "Xdata"
  BY <1>1, <1>2, <1>4, WithinWindow
<1>5. CASE u.window = 0
  BY <1>2, <1>5, WithinWindow
<1>6. CASE u.window > 0 /\ u.state = "DataAck"
  <2> DEFINE a == (t.retries + 1) * MaxBlock
             b == (u.retries + 1) * MaxBlock
  <2>1. /\ a \in Nat /\ b \in Nat /\ a <= b /\ MaxBlock <= a
        /\ t.state = "DataAck" => b = a + MaxBlock
    <3>1. t.retries <= u.retries
      BY <1>1, <1>2, <1>6
    <3> QED
      BY <1>1, <1>2, <1>6, <3>1, Probes
  <2>2. /\ t.pos < has + t.window + a
        /\ t.state = "Xdata" => t.pos < has + t.window
    BY <1>2, <1>6 DEF InWindow
  <2>3. u.pos < has + u.window + b => InWindow(u, has)
    BY <1>2, <1>6 DEF InWindow
  <2> HIDE DEF a, b
  <2>4. t.pos + MaxBlock < has + t.window + b
    <3>1. CASE t.state = "Xdata"
      BY <1>1, <2>1, <2>2, <3>1
    <3>2. CASE t.state = "DataAck"
      BY <1>1, <2>1, <2>2, <3>2
    <3> QED
      BY <1>2, <3>1, <3>2
  <2>5. u.pos <= t.pos + MaxBlock /\ u.window = t.window
    BY <1>1, <1>2, <1>3, <1>6
  <2> QED
    BY <1>1, <2>1, <2>3, <2>4, <2>5
<1> QED
  BY <1>1, <1>2, <1>4, <1>5, <1>6

\* The same file under way.
LEMMA SameWire ==
  ASSUME NEW s, NEW n \in Seq(Packet), NEW m, NEW t, NEW g, Wire(s, n, m, t, g),
         t.state \in Transferring, NEW u, u.state \in Transferring, u.next = t.next,
         NEW mm, Less(mm, m), NEW k, k.t \in Mattering => Fits(k, Current(s, t)),
         NEW nn, Adds(nn, n, k),
         ~u.skip /\ u.offer # NoFile => AtEnd(u) /\ InWindow(u, Len(g[u.offer]))
  PROVE  Wire(s, nn, mm, u, g)
<1>1. Current(s, u) = Current(s, t)
  BY DEF Current
<1>2. ASSUME NEW j \in Among(nn)
      PROVE  Fits(j, Current(s, t))
  <2>1. CASE j.t \in Mattering
    BY <1>2, <2>1 DEF Wire, Adds
  <2>2. CASE j.t \notin Mattering
    BY <2>2 DEF Fits, Mattering, Forward
  <2> QED
    BY <2>1, <2>2
<1>3. \A j \in Among(mm) : j \in Among(m)
  BY DEF Less
<1> QED
  BY <1>1, <1>2, <1>3 DEF Wire

\* A packet that says nothing of the file.
LEMMA FitsAnswers ==
  ASSUME NEW k, k.t \notin Forward
  PROVE  \A f : Fits(k, f)
  BY DEF Fits, Forward

\* What becomes of a sender's place, step by step.
LEMMA StaysInWindow ==
  ASSUME NEW t \in TxType, NEW u \in TxType, NEW has \in Nat, AtEnd(t), InWindow(t, has), NEW k,
         SendsNothing(u, t, k), u.state \in Transferring
  PROVE  AtEnd(u) /\ InWindow(u, has)
<1>1. /\ u.offer = t.offer /\ u.pos = t.pos /\ u.lastAck = t.lastAck
      /\ t.state \in Transferring /\ u.window = t.window
      /\ (u.state = t.state /\ u.retries >= t.retries) \/ (u.state = "Xdata" /\ t.state = "Xwait")
  BY DEF SendsNothing, SameFile, SameData, Stays, Transferring, BeforeFinfo, FromEnd
<1>2. AtEnd(u)
  BY <1>1 DEF AtEnd
<1>3. u.lastAck <= has
  BY <1>1 DEF InWindow
<1>4. CASE u.state = t.state /\ u.retries >= t.retries
  <2>1. /\ u.pos = t.pos /\ (u.window = 0 \/ u.window = t.window) /\ u.retries >= t.retries
        /\ (u.window > 0 /\ u.state \in {"Xdata", "Xwait"} => t.state \in {"Xdata", "Xwait"})
    BY <1>1, <1>4
  <2> QED
    BY <1>2, <1>3, <2>1, KeepsWindow
<1>5. CASE u.state = "Xdata" /\ t.state = "Xwait"
  <2>1. u.window > 0 => u.pos < has + u.window
    BY <1>1, <1>5 DEF InWindow
  <2> QED
    BY <1>2, <1>3, <2>1, WithinWindow
<1> QED
  BY <1>1, <1>4, <1>5

\* A sender at the end of its file has read all of it, and stays in its window.
LEMMA EndInWindow ==
  ASSUME NEW t \in TxType, NEW u \in TxType, NEW has \in Nat, AtEnd(t), InWindow(t, has), NEW k,
         ReachesEnd(u, t, k) \/ SendsEOF(u, t, k), ~u.skip
  PROVE  AtEnd(u) /\ InWindow(u, has)
<1>1. /\ u.offer = t.offer /\ u.pos = t.pos /\ u.lastAck = t.lastAck
      /\ u.window = 0 \/ (u.window = t.window /\ u.retries >= t.retries)
      /\ u.state \in {"EOF", "EOFAck"}
      /\ t.pos >= Actual[t.offer]
  BY DEF ReachesEnd, SendsEOF, SameFile, SameData, Dropped, Tried, AtEnd
<1>2. AtEnd(u)
  BY <1>1 DEF AtEnd
<1>3. u.lastAck <= has
  BY <1>1 DEF InWindow
<1>4. CASE u.window = 0
  BY <1>2, <1>3, <1>4, WithinWindow
<1>5. CASE u.window # 0
  <2>1. /\ u.pos = t.pos /\ (u.window = 0 \/ u.window = t.window) /\ u.retries >= t.retries
        /\ (u.window > 0 /\ u.state \in {"Xdata", "Xwait"} => t.state \in {"Xdata", "Xwait"})
    BY <1>1, <1>5
  <2> QED
    BY <1>2, <1>3, <2>1, KeepsWindow
<1> QED
  BY <1>4, <1>5

\* A DATAACK that claims no more than is held leaves the sender in its window.
LEMMA AckInWindow ==
  ASSUME NEW t \in TxType, NEW u \in TxType, NEW has \in Nat, AtEnd(t), InWindow(t, has),
         NEW m, NEW mm, HearsDataAck(u, t, m, mm),
         \A j : Took(m, mm, j, "DATAACK") => j.off <= has
  PROVE  AtEnd(u) /\ InWindow(u, has)
<1>1. /\ u.offer = t.offer /\ u.pos = t.pos /\ u.window = t.window
      /\ \/ u.state = t.state /\ u.retries = t.retries
         \/ u.state = "Xdata" /\ u.pos < u.lastAck + u.window
  BY DEF HearsDataAck, SameFile, SameData
<1>2. u.lastAck <= has
  BY DEF HearsDataAck, InWindow
<1>3. AtEnd(u)
  BY <1>1 DEF AtEnd
<1>4. CASE u.state = t.state /\ u.retries = t.retries
  <2>1. u.retries \in Nat
    BY SomeRetries DEF TxType
  <2>2. /\ u.pos = t.pos /\ (u.window = 0 \/ u.window = t.window) /\ u.retries >= t.retries
        /\ (u.window > 0 /\ u.state \in {"Xdata", "Xwait"} => t.state \in {"Xdata", "Xwait"})
    BY <1>1, <1>4, <2>1
  <2> QED
    BY <1>2, <1>3, <2>2, KeepsWindow
<1>5. CASE u.state = "Xdata" /\ u.pos < u.lastAck + u.window
  <2>1. u.pos < has + u.window
    BY <1>2, <1>5 DEF TxType
  <2> QED
    BY <1>2, <1>3, <2>1, WithinWindow
<1> QED
  BY <1>1, <1>4, <1>5

\* From a place that the receiver has reached.
LEMMA BackInWindow ==
  ASSUME NEW u \in TxType, NEW has \in Nat, u.lastAck <= has, u.pos <= has,
         u.state \in {"Xdata", "Xwait"}
  PROVE  AtEnd(u) /\ InWindow(u, has)
<1>1. u.window > 0 => u.pos < has + u.window
  BY DEF TxType
<1>2. AtEnd(u)
  BY DEF AtEnd
<1> QED
  BY <1>1, <1>2, WithinWindow

\* What the sender does to the file under way.
LEMMA SendWire ==
  ASSUME NEW s \in Peer, NEW n \in Seq(Packet), NEW m \in Seq(Packet), NEW t \in TxType, NEW r,
         Phase(s, n, m, t, r), NEW u \in TxType, NEW mm, NEW k, NEW told, NEW next,
         SendStep(s, t, u, n, m, mm, k, told, next), NEW nn, Adds(nn, n, k),
         NEW g, \A f \in File : Len(g[f]) \in Nat, Wire(s, n, m, t, g),
         NEW live, Standing(r, live, g),
         t.offer = NoFile \/ (t.offer \in File /\ t.offer = Current(s, t)),
         t.state \notin Transferring \/ t.offer # NoFile \/ SendsNothing(u, t, k)
  PROVE  Wire(s, nn, mm, u, g)
<1> DEFINE f == t.offer
           has == Len(g[f])
<1>1. ASSUME t.state \in Transferring, ~t.skip, f # NoFile
      PROVE  AtEnd(t) /\ InWindow(t, has)
  BY <1>1 DEF Wire
<1>2. f # NoFile => has \in Nat /\ f = Current(s, t)
  OBVIOUS
<1>3. Less(m, m)
  BY LessFew
<1> HIDE DEF has
<1>4. CASE SendsNothing(u, t, k) /\ Less(mm, m)
  <2>1. u.offer = f /\ u.next = t.next /\ u.skip = t.skip /\ k.t \notin Forward
    BY <1>4 DEF SendsNothing, SameFile, SameData
  <2>2. ASSUME u.state \in Transferring
        PROVE  Wire(s, nn, mm, u, g)
    <3>1. t.state \in Transferring
      BY <1>4, <2>2 DEF SendsNothing, Stays, Transferring, BeforeFinfo, FromEnd
    <3>2. ~u.skip /\ u.offer # NoFile => AtEnd(u) /\ InWindow(u, has)
      BY <1>1, <1>2, <1>4, <2>1, <2>2, <3>1, StaysInWindow
    <3>3. k.t \in Mattering => Fits(k, Current(s, t))
      BY <2>1, FitsAnswers
    <3> QED
      BY <1>4, <2>1, <2>2, <3>1, <3>2, <3>3, SameWire DEF has
  <2> QED
    BY <2>2 DEF Wire
<1>5. CASE SendsBlock(u, t, k) /\ mm = m
  <2>1. /\ t.state \in Transferring /\ u.state \in Transferring /\ u.state \notin {"EOF", "EOFAck"}
        /\ u.offer = f /\ u.next = t.next /\ ~t.skip
    BY <1>5 DEF SendsBlock, SameFile, Transferring
  <2>2. PICK i \in 1..MaxBlock : u.pos = t.pos + i /\ u.pos <= Actual[f]
                                 /\ k = Pkt("DATA", f, t.pos, i, 0)
    BY <1>5 DEF SendsBlock
  <2>3. k.t = "DATA" /\ k.f = f /\ k.off = t.pos /\ k.n = i
    BY <2>2 DEF Pkt
  <2>4. f # NoFile
    BY <2>1, <2>3 DEF SendsNothing, Forward
  <2>5. AtEnd(u) /\ InWindow(u, has)
    BY <1>1, <1>2, <1>5, <2>1, <2>4, BlockWindow DEF AtEnd
  <2>6. Fits(k, Current(s, t))
    BY <1>2, <2>2, <2>3, <2>4 DEF Fits
  <2> QED
    BY <1>3, <1>5, <2>1, <2>5, <2>6, SameWire DEF has
<1>6. CASE ReachesEnd(u, t, k) /\ mm = m
  <2>1. /\ t.state \in Transferring /\ u.state \in Transferring /\ k.t \notin Forward
        /\ u.offer = f /\ u.next = t.next /\ (~u.skip => ~t.skip)
    BY <1>6 DEF ReachesEnd, SameFile, Transferring
  <2>2. ~u.skip /\ u.offer # NoFile => AtEnd(u) /\ InWindow(u, has)
    BY <1>1, <1>2, <1>6, <2>1, EndInWindow
  <2>3. k.t \in Mattering => Fits(k, Current(s, t))
    BY <2>1, FitsAnswers
  <2> QED
    BY <1>3, <1>6, <2>1, <2>2, <2>3, SameWire DEF has
<1>7. CASE SendsEOF(u, t, k) /\ mm = m
  <2>1. /\ t.state \in Transferring /\ u.state \in Transferring /\ t.state \in {"EOF", "EOFAck"}
        /\ u.offer = f /\ u.next = t.next
        /\ u.skip = t.skip /\ k = OffPkt("EOF", IF t.skip THEN offsetSkip ELSE t.pos)
    BY <1>7 DEF SendsEOF, SameFile, SameData, Transferring
  <2>2. k.t = "EOF" /\ k.off = IF t.skip THEN offsetSkip ELSE t.pos
    BY <2>1 DEF OffPkt, Pkt
  <2>3. f # NoFile
    BY <2>1, <2>2 DEF SendsNothing, Forward
  <2>4. ~u.skip => AtEnd(u) /\ InWindow(u, has) /\ t.pos >= Actual[f]
    BY <1>1, <1>2, <1>7, <2>1, <2>3, EndInWindow DEF AtEnd
  <2>5. Fits(k, Current(s, t))
    <3>1. ~(offsetSkip >= 0)
      BY DEF offsetSkip
    <3> QED
      BY <1>2, <2>1, <2>2, <2>3, <2>4, <3>1 DEF Fits
  <2> QED
    BY <1>3, <1>7, <2>1, <2>4, <2>5, SameWire DEF has
<1>8. CASE Repeats(u, t, n, m, k) \/ AnnouncesNext(s, u, t, k, told, next)
  BY <1>8 DEF Repeats, AnnouncesNext, Wire, Transferring
<1>9. CASE k = Nothing /\ HearsFinfoAck(u, t, m, mm, told, next)
  <2>1. PICK j : /\ Took(m, mm, j, "FINFOACK")
                 /\ \/ t.eob /\ u.state = "Rend"
                    \/ FileOver(u, t)
                    \/ ~t.eob /\ j.off >= 0 /\ SameCursor(u, t) /\ u.state = "EOF" /\ u.skip
                    \/ /\ ~t.eob /\ j.off >= 0 /\ SameCursor(u, t) /\ u.state = "Xdata"
                       /\ u.pos = j.off /\ u.lastAck = j.off
    BY <1>9 DEF HearsFinfoAck
  <2>2. /\ t.state = "FinfoAck" /\ Void(n, Forward) /\ Answered(t.lastFinfo, j.off, r)
        /\ Void(mm, Answer)
    BY <2>1, TookVoid DEF Phase, Replied
  <2>3. (t.eob <=> t.lastFinfo = EOB) /\ (~t.eob => t.lastFinfo = Current(s, t))
    BY <2>2 DEF Phase, Abreast
  <2>4. Void(nn, Forward)
    BY <1>9, <2>2, AddsVoid, Kinds
  <2>5. \A a \in Among(nn) : \A b : Fits(a, b)
    BY <2>4 DEF Void, Fits, Forward
  <2>6. \A a \in Among(mm) : a.t \notin {"DATAACK", "RPOS"}
    BY <2>2 DEF Void, Answer
  <2>7. ASSUME u.state \in Transferring, ~u.skip, u.offer # NoFile
        PROVE  AtEnd(u) /\ InWindow(u, Len(g[u.offer]))
    <3>1. /\ ~t.eob /\ j.off >= 0 /\ SameCursor(u, t) /\ u.state = "Xdata"
          /\ u.pos = j.off /\ u.lastAck = j.off
      BY <2>1, <2>7 DEF FileOver, Transferring
    <3>2. u.offer = f /\ f # NoFile
      BY <2>7, <3>1 DEF SameCursor
    <3>3. j.off \in Int
      BY <2>1, TookVoid, AmongPackets
    <3>4. r.state = "Data" /\ r.file = f /\ r.pos = j.off
      <4>1. ~(j.off < 0)
        BY <3>1, <3>3
      <4> QED
        BY <1>2, <2>2, <2>3, <3>1, <3>2, <4>1 DEF Answered
    <3>5. r.pos = has
      <4>1. ~(offsetSkip >= 0)
        BY DEF offsetSkip
      <4> QED
        BY <3>1, <3>4, <4>1 DEF Standing, has
    <3>6. u.lastAck <= has /\ u.pos <= has
      BY <1>2, <3>1, <3>2, <3>4, <3>5
    <3> QED
      BY <1>2, <3>1, <3>2, <3>6, BackInWindow DEF has
  <2> QED
    BY <2>5, <2>6, <2>7 DEF Wire
<1>10. CASE k = Nothing /\ (HearsDataAck(u, t, m, mm) \/ HearsRpos(u, t, m, mm))
  <2>1. /\ t.state \in Transferring /\ u.state \in Transferring /\ SameFile(u, t)
        /\ Less(mm, m)
    BY <1>10, TookVoid DEF HearsDataAck, HearsRpos, Transferring
  <2>2. /\ k.t \notin Forward /\ u.offer = f /\ u.next = t.next
    BY <1>10, <2>1, Kinds DEF SameFile
  <2>3. k.t \in Mattering => Fits(k, Current(s, t))
    BY <2>2, FitsAnswers
  <2>4. ASSUME NEW j, Took(m, mm, j, "DATAACK") \/ Took(m, mm, j, "RPOS"), f # NoFile
        PROVE  j.off <= has
    <3>1. j \in Among(m) /\ j.t \in {"DATAACK", "RPOS"}
      BY <2>4, TookVoid
    <3> QED
      BY <1>2, <2>1, <2>4, <3>1 DEF Wire, has
  <2>5. ASSUME ~u.skip, f # NoFile
        PROVE  AtEnd(u) /\ InWindow(u, has)
    <3>1. CASE HearsDataAck(u, t, m, mm)
      <4>1. ~t.skip
        BY <2>5, <3>1 DEF HearsDataAck, SameData
      <4>2. \A j : Took(m, mm, j, "DATAACK") => j.off <= has
        BY <2>4, <2>5
      <4>3. AtEnd(t) /\ InWindow(t, has) /\ has \in Nat
        BY <1>1, <1>2, <2>1, <2>5, <4>1
      <4> QED
        BY <3>1, <4>2, <4>3, AckInWindow
    <3>2. CASE HearsRpos(u, t, m, mm)
      <4>1. PICK j : /\ Took(m, mm, j, "RPOS") /\ u.pos = j.off /\ u.skip = t.skip
                     /\ u.state \in {"Xdata", "Xwait"} /\ u.lastAck = t.lastAck
        BY <2>5, <3>2 DEF HearsRpos, SameWindow
      <4>2. u.pos <= has
        BY <2>4, <2>5, <4>1
      <4>3. InWindow(t, has) /\ has \in Nat
        BY <1>1, <1>2, <2>1, <2>5, <4>1
      <4>4. u.lastAck <= has
        BY <4>1, <4>3 DEF InWindow
      <4> QED
        BY <4>1, <4>2, <4>3, <4>4, BackInWindow
    <3> QED
      BY <1>10, <3>1, <3>2
  <2> QED
    BY <2>1, <2>2, <2>3, <2>5, SameWire DEF has
<1>11. CASE HearsEOFAck(u, t, m, mm, told, next)
  BY <1>11 DEF HearsEOFAck, FileOver, Wire, Transferring
<1> QED
  BY <1>4, <1>5, <1>6, <1>7, <1>8, <1>9, <1>10, <1>11 DEF SendStep

\* sync leaves a sender where it is.
LEMMA SyncWire ==
  ASSUME NEW s, NEW n, NEW m, NEW t \in TxType, NEW u \in TxType, NEW g, Wire(s, n, m, t, g),
         NEW r, SyncStep(u, t, r), t.offer # NoFile => Len(g[t.offer]) \in Nat
  PROVE  Wire(s, n, m, u, g)
<1>1. /\ u.offer = t.offer /\ u.next = t.next /\ u.skip = t.skip /\ u.pos = t.pos
      /\ u.lastAck = t.lastAck /\ u.window = t.window
      /\ \/ u.state = t.state /\ u.retries = t.retries
         \/ t.state \in {"Xdata", "Xwait"} /\ u.state \in {"Xdata", "Xwait"}
         \/ u.state \notin Transferring
  BY DEF SyncStep, SameFile, SameData, SameWindow, Transferring
<1> SUFFICES ASSUME u.state \in Transferring
             PROVE  Wire(s, n, m, u, g)
  BY DEF Wire
<1>2. t.state \in Transferring /\ Current(s, u) = Current(s, t)
  BY <1>1 DEF Transferring, Current
<1>3. ASSUME ~u.skip, u.offer # NoFile
      PROVE  AtEnd(u) /\ InWindow(u, Len(g[u.offer]))
  <2> DEFINE has == Len(g[u.offer])
  <2>1. AtEnd(t) /\ InWindow(t, has) /\ has \in Nat
    BY <1>1, <1>2, <1>3 DEF Wire
  <2> HIDE DEF has
  <2>2. CASE u.state = t.state /\ u.retries = t.retries
    BY <1>1, <2>1, <2>2 DEF AtEnd, InWindow, has
  <2>3. CASE t.state \in {"Xdata", "Xwait"} /\ u.state \in {"Xdata", "Xwait"}
    <3>1. u.lastAck <= has /\ (u.window > 0 => u.pos < has + u.window)
      BY <1>1, <2>1, <2>3 DEF InWindow
    <3> QED
      BY <2>1, <2>3, <3>1, WithinWindow DEF AtEnd, has
  <2> QED
    BY <1>1, <2>2, <2>3
<1> QED
  BY <1>2, <1>3 DEF Wire

\* A receiver that has more.
LEMMA MoreInWindow ==
  ASSUME NEW t \in TxType, NEW has \in Nat, NEW more \in Nat, has <= more, InWindow(t, has)
  PROVE  InWindow(t, more)
<1>1. /\ t.lastAck \in Nat /\ t.pos \in Nat /\ t.window \in Nat /\ t.retries \in Nat
  BY SomeRetries DEF TxType
<1>2. (t.retries + 1) * MaxBlock \in Nat
  BY <1>1, Probes
<1> DEFINE a == (t.retries + 1) * MaxBlock
<1>3. a \in Nat
  BY <1>2
<1>4. \A x : InWindow(t, x) <=>
        /\ t.lastAck <= x
        /\ t.window > 0 => /\ t.pos < x + t.window + a
                           /\ t.state \in {"Xdata", "Xwait"} => t.pos < x + t.window
  BY DEF InWindow
<1> HIDE DEF a
<1>5. /\ t.lastAck <= has
      /\ t.window > 0 => /\ t.pos < has + t.window + a
                         /\ t.state \in {"Xdata", "Xwait"} => t.pos < has + t.window
  BY <1>4
<1>6. /\ t.lastAck <= more
      /\ t.window > 0 => /\ t.pos < more + t.window + a
                         /\ t.state \in {"Xdata", "Xwait"} => t.pos < more + t.window
  BY <1>1, <1>3, <1>5
<1> QED
  BY <1>4, <1>6

\* The file of which packets arrive at a receiver in the middle of one.
LEMMA Underway ==
  ASSUME NEW s, NEW n, NEW m, NEW t, NEW r, Phase(s, n, m, t, r), t.state \in TxState,
         r.state = "Data", NEW j \in Among(n), j.t \in {"DATA", "EOF"}
  PROVE  t.state \in Transferring /\ r.file = Current(s, t)
<1>1. t.state \notin BeforeFinfo \cup {"Finfo", "Rend"} \cup FromEnd
  BY DEF Phase, Abreast
<1>2. t.state # "FinfoAck"
  BY DEF Phase, Abreast, Void
<1> QED
  BY <1>1, <1>2, TxStates DEF Phase, Abreast

\* The wire of a receiver whose writers are left alone.
LEMMA AnswersWire ==
  ASSUME NEW s, NEW n, NEW m, NEW t, NEW g, Wire(s, n, m, t, g), NEW nn, Less(nn, n),
         NEW k, NEW mm, Adds(mm, m, k),
         ~(t.state \in Transferring /\ k.t \in {"DATAACK", "RPOS"}) \/ k.off <= Len(g[Current(s, t)])
  PROVE  Wire(s, nn, mm, t, g)
<1>1. {"DATAACK", "RPOS"} \subseteq Mattering
  BY DEF Mattering, Answer
<1> QED
  BY <1>1 DEF Wire, Less, Adds

\* What a receiver that asks again asks for.
LEMMA AsksFits ==
  ASSUME NEW s, NEW n, NEW m, NEW t, NEW r, Phase(s, n, m, t, r), NEW v, NEW j, NEW k,
         AsksAgain(v, r, j, k), NEW live, NEW g, Standing(r, live, g),
         r.file \in File, \A f \in File : Len(g[f]) \in Nat, t.state \in Transferring
  PROVE  k.off <= Len(g[Current(s, t)])
<1>1. r.file = Current(s, t) /\ k.off = r.pos
  BY DEF AsksAgain, Phase, Abreast, Pkt
<1>2. Len(g[r.file]) \in Nat
  OBVIOUS
<1>3. r.pos = offsetSkip \/ r.pos = Len(g[r.file])
  BY DEF AsksAgain, Standing
<1> QED
  BY <1>1, <1>2, <1>3 DEF offsetSkip

\* A call with another outcome than success, or of a file that is complete.
LEMMA StillStored ==
  ASSUME NEW done \in [File -> Seq(Outcome)], NEW f \in File, NEW g, Stored(f, done, g),
         NEW e, NEW o \in Outcome, NEW next, next = Complete(done, e, o),
         o = "nil" /\ e = f => Len(g[f]) >= Actual[f]
  PROVE  Stored(f, next, g)
<1>1. done[f] \in Seq(Outcome) /\ "nil" \in Outcome
  BY DEF Outcome
<1>2. CASE e # f
  BY <1>2, CompleteTells DEF Stored
<1>3. CASE e = f /\ o = "nil"
  BY <1>3 DEF Stored
<1>4. CASE e = f /\ o # "nil"
  <2>1. next[f] # <<"nil">>
    BY <1>1, <1>4, CompleteTells, LastCall
  <2> QED
    BY <2>1 DEF Stored
<1> QED
  BY <1>2, <1>3, <1>4

\* A file opened, up to where it is resumed.
LEMMA OpensWire ==
  ASSUME NEW f \in File, NEW r, NEW v, NEW j, j.f = f, NEW k, NEW g \in [File -> Seq(File \X Nat)],
         NEW h, OpensFile(v, r, j, k, g, h), NEW done, done[f] # <<"nil">>, NEW live
  PROVE  Stored(f, done, h) /\ Standing(v, live, h)
<1>1. /\ v.state = "Data" /\ v.open /\ v.file = f /\ v.pos \in ResumeAt /\ v.pos \in Nat
      /\ h = [g EXCEPT ![f] = Content(f, 0, v.pos)]
  BY HandlerAssumption DEF OpensFile
<1>2. h[f] = Content(f, 0, v.pos)
  BY <1>1
<1>3. Len(h[f]) = v.pos
  BY <1>1, <1>2, ContentGrows
<1> QED
  BY <1>1, <1>2, <1>3 DEF Stored, Standing

\* A block taken at the end of what there is.
LEMMA TakesWire ==
  ASSUME NEW f \in File, NEW r, r.file = f, r.open, NEW v, NEW j \in Packet, Fits(j, f),
         j.t = "DATA", NEW k, NEW g \in [File -> Seq(File \X Nat)], NEW h, TakesBlock(v, r, j, k, g, h),
         r.pos = Len(g[f]), NEW done, Stored(f, done, g), NEW live
  PROVE  /\ Stored(f, done, h) /\ Standing(v, live, h)
         /\ v.pos = Len(h[f]) /\ Len(g[f]) <= Len(h[f])
<1> DEFINE a == Len(g[f])
           b == j.n
<1>1. a \in Nat /\ b \in Nat /\ Actual[f] \in Nat
  BY FileAssumption DEF Packet
<1>2. /\ j.f = f /\ j.off = a /\ a + b <= Actual[f]
      /\ v.pos = a + b /\ v.state = "Data" /\ v.open /\ v.file = f
      /\ h = [g EXCEPT ![f] = g[f] \o Content(f, a, b)]
  BY DEF Fits, TakesBlock, SameRx
<1>3. h[f] = g[f] \o Content(f, a, b)
  BY <1>2
<1>4. g[f] = Content(f, 0, a) /\ (done[f] = <<"nil">> => a >= Actual[f])
  BY DEF Stored
<1> HIDE DEF a, b
<1> DEFINE c == a + b
<1>5. Content(f, 0, a) \o Content(f, a, b) = Content(f, 0, c)
  BY <1>1, ContentGrows
<1>6. c \in Nat /\ a <= c /\ c <= Actual[f]
  BY <1>1, <1>2
<1>7. v.pos = c
  BY <1>2
<1> HIDE DEF c
<1>8. Len(Content(f, 0, c)) = c
  BY <1>6, ContentGrows
<1>9. h[f] = Content(f, 0, c) /\ Len(h[f]) = c
  BY <1>3, <1>4, <1>5, <1>8
<1>10. done[f] = <<"nil">> => c >= Actual[f]
  BY <1>1, <1>4, <1>6
<1>11. Stored(f, done, h)
  BY <1>6, <1>9, <1>10 DEF Stored
<1>12. Standing(v, live, h)
  BY <1>2, <1>7, <1>9 DEF Standing
<1> QED
  BY <1>3, <1>6, <1>7, <1>9, <1>11, <1>12 DEF a

\* The files that the peer does not offer are no concern of the receiver's.
Elsewhere(s, g, h, done, next) ==
    \A f \in File : f \notin Offered(s) => h[f] = g[f] /\ next[f] = done[f]

\* Whatever the receiver does with a packet, what it holds is what was sent, and
\* what it claims is what it holds.
LEMMA ReceiveWire ==
  ASSUME NEW s \in Peer, NEW n \in Seq(Packet), NEW m \in Seq(Packet), NEW t \in TxType, NEW r,
         Phase(s, n, m, t, r), NEW done \in [File -> Seq(Outcome)], NEW op, Ordered(s, n, t),
         Level(s, n, t, r, done, op), NEW g \in [File -> Seq(File \X Nat)], Wire(s, n, m, t, g),
         NEW live, Standing(r, live, g), AllStored(s, done, g),
         NEW v, NEW nn, NEW k, NEW next, NEW h,
         NEW nop, ReceiveStep(r, v, n, nn, k, done, next, g, h, op, nop),
         live = "run" \/ Ignores(v, r, n, nn, k), NEW mm, Adds(mm, m, k),
         t.offer = NoFile \/ (t.offer \in File /\ t.offer = Current(s, t))
  PROVE  /\ Wire(s, nn, mm, t, h) /\ Standing(v, live, h)
         /\ AllStored(s, next, h) /\ Elsewhere(s, g, h, done, next)
<1> SUFFICES ASSUME \A f \in Offered(s) : Stored(f, done, g)
             PROVE  /\ Wire(s, nn, mm, t, h) /\ Standing(v, live, h)
                    /\ \A f \in Offered(s) : Stored(f, next, h)
                    /\ \A f \in File : f \notin Offered(s) => h[f] = g[f] /\ next[f] = done[f]
  BY DEF AllStored, Elsewhere
<1>1. /\ t.state \in TxState /\ Offered(s) \subseteq File
      /\ \A f \in File : Len(g[f]) \in Nat
  <2>1. Offered(s) \subseteq File
    BY OfferedApart
  <2>2. \A f \in File : g[f] \in Seq(File \X Nat)
    OBVIOUS
  <2> QED
    BY <2>1, <2>2, LenProperties DEF TxType
<1>2. r.state = "Data" => r.file \in Offered(s) /\ (r.open => done[r.file] = <<>>)
  BY DEF Level
<1>3. {"Skip", "Defer", "Range", "Write", "SenderSkip", "nil"} \subseteq Outcome
  BY DEF Outcome
<1>4. ASSUME NEW o \in Outcome, NEW e \in Offered(s), next = Complete(done, e, o),
             o = "nil" => Len(g[e]) >= Actual[e], h = g
      PROVE  /\ \A f \in Offered(s) : Stored(f, next, h)
             /\ \A f \in File : f \notin Offered(s) => h[f] = g[f] /\ next[f] = done[f]
  <2>1. ASSUME NEW f \in Offered(s)
        PROVE  Stored(f, next, h)
    <3>1. f \in File /\ Stored(f, done, g) /\ (o = "nil" /\ e = f => Len(g[f]) >= Actual[f])
      BY <1>1, <1>4
    <3>2. Stored(f, next, g)
      BY <1>4, <3>1, StillStored
    <3> QED
      BY <1>4, <3>2
  <2>2. \A f \in File : f # e => next[f] = done[f]
    BY <1>4 DEF Complete
  <2> QED
    BY <1>4, <2>1, <2>2
<1>5. CASE Ignores(v, r, n, nn, k) /\ next = done /\ h = g
  <2>1. Less(nn, n) /\ k.t \notin {"DATAACK", "RPOS"}
    BY <1>5 DEF Ignores, Answer
  <2>2. Wire(s, nn, mm, t, h)
    BY <1>5, <2>1, AnswersWire
  <2>3. Standing(v, live, h)
    BY <1>5 DEF Ignores, SamePlace, SameRx, Standing
  <2> QED
    BY <1>5, <2>2, <2>3
<1>6. ASSUME NEW j, Took(n, nn, j, "FINFO"),
             \/ AnswersFinfo(v, r, j, k) /\ next = done /\ h = g
             \/ Refuses(v, r, j, k, done, next) /\ h = g
             \/ OpensFile(v, r, j, k, g, h) /\ next = done
      PROVE  /\ Wire(s, nn, mm, t, h) /\ Standing(v, live, h)
             /\ \A f \in Offered(s) : Stored(f, next, h)
             /\ \A f \in File : f \notin Offered(s) => h[f] = g[f] /\ next[f] = done[f]
  <2>1. j \in Among(n) /\ j.t = "FINFO" /\ n # <<>> /\ j = Head(n)
    BY <1>6, TookVoid DEF Took
  <2>2. t.state \notin Transferring
    BY <2>1 DEF Phase, Announced, Transferring
  <2>3. Wire(s, nn, mm, t, h)
    BY <2>2 DEF Wire
  <2>4. CASE AnswersFinfo(v, r, j, k) /\ next = done /\ h = g
    <3>1. Standing(v, live, h)
      BY <2>4 DEF AnswersFinfo, SamePlace, SameRx, Standing
    <3> QED
      BY <2>3, <2>4, <3>1
  <2>5. ASSUME r.state = "Finfo", j.f \in File, j.f # r.refused
        PROVE  j.f \in Offered(s) /\ done[j.f] = <<>>
    BY <2>1, <2>5, NewFile DEF Met
  <2>6. CASE Refuses(v, r, j, k, done, next) /\ h = g
    <3>1. v.state = "Finfo" /\ j.f \in Offered(s)
      BY <2>5, <2>6 DEF Refuses
    <3>2. \E o \in {"Skip", "Defer", "Range"} : next = Complete(done, j.f, o)
      BY <2>6 DEF Refuses
    <3>3. Standing(v, live, h)
      BY <3>1 DEF Standing
    <3> QED
      BY <1>3, <1>4, <2>3, <2>6, <3>1, <3>2, <3>3
  <2>7. CASE OpensFile(v, r, j, k, g, h) /\ next = done
    <3> DEFINE f == j.f
    <3>1. f \in Offered(s) /\ f \in File /\ done[f] = <<>>
      BY <2>5, <2>7 DEF OpensFile
    <3>2. done[f] # <<"nil">>
      BY <3>1
    <3>3. j.f = f /\ OpensFile(v, r, j, k, g, h)
      BY <2>7
    <3> HIDE DEF f
    <3>4. Stored(f, done, h) /\ Standing(v, live, h)
      BY <3>1, <3>2, <3>3, OpensWire
    <3>5. \A e \in File : e # f => h[e] = g[e]
      BY <3>3 DEF OpensFile
    <3> QED
      BY <1>1, <2>3, <2>7, <3>1, <3>4, <3>5 DEF Stored
  <2> QED
    BY <1>6, <2>4, <2>6, <2>7
<1>7. ASSUME NEW j, Took(n, nn, j, "DATA") \/ Took(n, nn, j, "EOF"), AsksAgain(v, r, j, k),
             next = done, h = g
      PROVE  /\ Wire(s, nn, mm, t, h) /\ Standing(v, live, h)
             /\ \A f \in Offered(s) : Stored(f, next, h)
  <2>1. Less(nn, n)
    BY <1>7, TookVoid
  <2>2. t.state \in Transferring => k.off <= Len(g[Current(s, t)])
    <3>1. r.file \in File
      BY <1>1, <1>2, <1>7 DEF AsksAgain
    <3> QED
      BY <1>1, <1>7, <3>1, AsksFits
  <2>3. Wire(s, nn, mm, t, h)
    BY <1>7, <2>1, <2>2, AnswersWire
  <2>4. Standing(v, live, h)
    BY <1>7 DEF AsksAgain, SamePlace, SameRx, Standing
  <2> QED
    BY <1>7, <2>3, <2>4
<1>8. ASSUME NEW j, Took(n, nn, j, "DATA"), FailsToWrite(v, r, j, k, done, next), h = g
      PROVE  /\ Wire(s, nn, mm, t, h) /\ Standing(v, live, h)
             /\ \A f \in Offered(s) : Stored(f, next, h)
             /\ \A f \in File : f \notin Offered(s) => h[f] = g[f] /\ next[f] = done[f]
  <2>1. /\ r.state = "Data" /\ ~v.open /\ v.pos = offsetSkip /\ k.off = offsetSkip
        /\ next = Complete(done, r.file, "Write") /\ r.file \in Offered(s)
    BY <1>2, <1>8 DEF FailsToWrite, Shut, Pkt
  <2>2. Less(nn, n)
    BY <1>8, TookVoid
  <2>3. t.state \in Transferring => k.off <= Len(g[Current(s, t)])
    <3>1. t.state \in Transferring => Current(s, t) \in File
      BY <1>1, <2>1 DEF Phase, Abreast
    <3> QED
      BY <1>1, <2>1, <3>1 DEF offsetSkip
  <2>4. Wire(s, nn, mm, t, h)
    BY <1>8, <2>2, <2>3, AnswersWire
  <2>5. Standing(v, live, h)
    BY <2>1 DEF Standing
  <2> QED
    BY <1>3, <1>4, <1>8, <2>1, <2>4, <2>5
<1>9. ASSUME NEW j, Took(n, nn, j, "DATA"), TakesBlock(v, r, j, k, g, h), next = done
      PROVE  /\ Wire(s, nn, mm, t, h) /\ Standing(v, live, h)
             /\ \A f \in Offered(s) : Stored(f, next, h)
             /\ \A f \in File : f \notin Offered(s) => h[f] = g[f] /\ next[f] = done[f]
  <2> DEFINE f == r.file
  <2>1. /\ j \in Among(n) /\ j \in Packet /\ j.t = "DATA" /\ j.off >= 0 /\ Less(nn, n)
    BY <1>9, TookVoid, AmongPackets DEF Packet
  <2>2. r.state = "Data" /\ j.off = r.pos /\ f \in Offered(s) /\ f \in File
    BY <1>1, <1>2, <1>9 DEF TakesBlock
  <2>3. t.state \in Transferring /\ f = Current(s, t)
    BY <1>1, <2>1, <2>2, Underway
  <2>4. Fits(j, f)
    BY <2>1, <2>3 DEF Wire
  <2>5. r.pos = Len(g[f]) /\ (r.open \/ live # "run")
    <3>1. ~(offsetSkip >= 0)
      BY DEF offsetSkip
    <3> QED
      BY <2>1, <2>2, <3>1 DEF Standing
  <2>6. CASE ~r.open
    <3>1. h = g /\ Ignores(v, r, n, nn, k)
      BY <1>9, <2>5, <2>6 DEF TakesBlock
    <3> QED
      BY <1>5, <1>9, <3>1
  <2>7. CASE r.open
    <3> HIDE DEF f
    <3>1. /\ r.file = f /\ Stored(f, done, g) /\ f \in File /\ r.open /\ r.pos = Len(g[f])
          /\ Fits(j, f) /\ j \in Packet /\ j.t = "DATA" /\ TakesBlock(v, r, j, k, g, h)
      BY <1>9, <2>1, <2>2, <2>4, <2>5, <2>7 DEF f
    <3>2. /\ Stored(f, done, h) /\ Standing(v, live, h)
          /\ v.pos = Len(h[f]) /\ Len(g[f]) <= Len(h[f])
      BY <3>1, TakesWire
    <3>3. \A e \in File : e # f => h[e] = g[e]
      BY <1>9, <2>7, <3>1 DEF TakesBlock
    <3>4. \A e \in Offered(s) : Stored(e, next, h)
      BY <1>1, <1>9, <3>2, <3>3 DEF Stored
    <3>5. Len(g[f]) \in Nat /\ Len(h[f]) \in Nat
      <4>1. Len(g[f]) \in Nat /\ j.n \in Nat /\ v.pos = Len(g[f]) + j.n
        BY <1>1, <1>9, <2>1, <2>2, <2>5, <3>1, AmongPackets DEF TakesBlock
      <4> QED
        BY <3>2, <4>1
    <3>6. Wire(s, nn, mm, t, h)
      <4>1. \A a \in Among(nn) : Fits(a, Current(s, t))
        BY <2>1, <2>3 DEF Wire, Less
      <4>2. ASSUME NEW a \in Among(mm), a.t \in {"DATAACK", "RPOS"}
            PROVE  a.off <= Len(h[f])
        <5>1. a \in Among(m) \/ a = k
          BY <4>2 DEF Adds, Mattering, Answer
        <5>2. CASE a = k
          <6>1. k.off = v.pos
            BY <1>9, <4>2, <5>2, Kinds DEF TakesBlock, OffPkt, Pkt, Mattering, Answer
          <6> QED
            BY <3>2, <3>5, <5>2, <6>1
        <5>3. CASE a \in Among(m)
          <6>1. a.off <= Len(g[f])
            BY <2>3, <4>2, <5>3 DEF Wire
          <6>2. a.off \in Int
            BY <5>3, AmongPackets
          <6> QED
            BY <3>2, <3>5, <6>1, <6>2
        <5> QED
          BY <5>1, <5>2, <5>3
      <4>3. ASSUME ~t.skip, t.offer # NoFile
            PROVE  AtEnd(t) /\ InWindow(t, Len(h[t.offer]))
        <5>1. t.offer = f /\ AtEnd(t) /\ InWindow(t, Len(g[f]))
          BY <2>3, <4>3 DEF Wire
        <5>2. InWindow(t, Len(h[f]))
          BY <3>2, <3>5, <5>1, MoreInWindow
        <5> QED
          BY <5>1, <5>2
      <4> QED
        BY <2>3, <4>1, <4>2, <4>3 DEF Wire
    <3> QED
      BY <1>9, <2>2, <3>2, <3>4, <3>6, <3>3
  <2> QED
    BY <2>6, <2>7
<1>10. ASSUME NEW j, Took(n, nn, j, "EOF"), ClosesFile(v, r, j, k, done, next), h = g
       PROVE  /\ Wire(s, nn, mm, t, h) /\ Standing(v, live, h)
              /\ \A f \in Offered(s) : Stored(f, next, h)
              /\ \A f \in File : f \notin Offered(s) => h[f] = g[f] /\ next[f] = done[f]
  <2>1. j \in Among(n) /\ j \in Packet /\ j.t = "EOF" /\ Less(nn, n) /\ j.off \in Int
    BY <1>10, TookVoid, AmongPackets
  <2>2. /\ r.state = "Data" /\ v.state = "Finfo" /\ k.t = "EOFACK" /\ r.file \in Offered(s)
    BY <1>2, <1>10 DEF ClosesFile, Ctl, Pkt
  <2>3. Wire(s, nn, mm, t, h)
    BY <1>10, <2>1, <2>2, AnswersWire
  <2>4. Standing(v, live, h)
    BY <2>2 DEF Standing
  <2>5. PICK o \in {"SenderSkip", "nil"} :
          /\ IF j.off < 0 THEN o = "SenderSkip" ELSE o = "nil" /\ j.off = r.pos
          /\ next = IF r.open THEN Complete(done, r.file, o) ELSE done
    BY <1>10 DEF ClosesFile
  <2>6. CASE ~r.open
    BY <1>10, <2>3, <2>4, <2>5, <2>6
  <2>7. CASE r.open
    <3>1. o = "nil" => Len(g[r.file]) >= Actual[r.file]
      <4>1. SUFFICES ASSUME o = "nil" PROVE Len(g[r.file]) >= Actual[r.file]
        OBVIOUS
      <4>2. j.off = r.pos /\ j.off >= 0
        BY <2>1, <2>5, <4>1
      <4>3. r.pos = Len(g[r.file])
        BY <2>2, <2>7 DEF Standing
      <4>4. t.state \in Transferring /\ r.file = Current(s, t)
        BY <1>1, <2>1, <2>2, Underway
      <4>5. j.off >= Actual[r.file]
        BY <2>1, <4>2, <4>4 DEF Wire, Fits
      <4> QED
        BY <4>2, <4>3, <4>5
    <3>2. next = Complete(done, r.file, o) /\ o \in Outcome
      BY <1>3, <2>5, <2>7
    <3> QED
      BY <1>4, <1>10, <2>2, <2>3, <2>4, <3>1, <3>2
  <2> QED
    BY <2>6, <2>7
<1>11. ASSUME NEW j, Took(n, nn, j, "EOF"), r.state = "Finfo", SamePlace(v, r),
              k = Ctl("EOFACK"), next = done, h = g
       PROVE  Wire(s, nn, mm, t, h) /\ Standing(v, live, h)
  <2>1. Less(nn, n) /\ k.t = "EOFACK" /\ v.state = "Finfo"
    BY <1>11, TookVoid DEF Ctl, Pkt, SamePlace, SameRx
  <2>2. Wire(s, nn, mm, t, h)
    BY <1>11, <2>1, AnswersWire
  <2> QED
    BY <2>1, <2>2 DEF Standing
<1> QED
  BY <1>5, <1>6, <1>7, <1>8, <1>9, <1>10, <1>11 DEF ReceiveStep

\* The writers of the other direction are no concern of a file's.
LEMMA OtherFiles ==
  ASSUME NEW s, NEW n, NEW m, NEW t, NEW g, Wire(s, n, m, t, g), NEW h,
         t.state \in Transferring => h[Current(s, t)] = g[Current(s, t)],
         t.state \in Transferring /\ t.offer # NoFile => h[t.offer] = g[t.offer]
  PROVE  Wire(s, n, m, t, h)
  BY DEF Wire

\* A sender at work on a file works at the one it pulled last.
LEMMA PulledLast ==
  ASSUME SentInv, NEW p \in Peer
  PROVE  /\ res[p] = "run" /\ tx[p].state \in Transferring =>
              Current(p, tx[p]) \in Offered(p) /\ tx[p].offer # NoFile
         /\ res[p] = "run" /\ tx[p].offer # NoFile =>
              tx[p].offer = Current(p, tx[p]) /\ tx[p].offer \in Offered(p)
         /\ res[p] # "run" => tx[p].offer = NoFile
<1>1. res[p] # "run" => tx[p].offer = NoFile
  BY DEF SentInv, Shape
<1>2. res[p] = "run" /\ tx[p].state \in Transferring => tx[p].offer # NoFile
  BY DEF SentInv, Shape, TxShape
<1>3. ASSUME res[p] = "run", tx[p].offer # NoFile
      PROVE  tx[p].offer = Current(p, tx[p]) /\ tx[p].offer \in Offered(p)
  <2>1. /\ tx[p].next \in 1..(Len(Offers[p]) + 1) /\ tx[p].next > 1
        /\ tx[p].offer = Offers[p][tx[p].next - 1]
    BY <1>3 DEF SentInv, Shape, TxShape
  <2>2. tx[p].next - 1 \in 1..Len(Offers[p])
    BY <2>1, OffersAreFiles
  <2> QED
    BY <2>1, <2>2 DEF Offered, Current
<1> QED
  BY <1>1, <1>2, <1>3

\* A step of a running peer keeps it.
LEMMA RunData ==
  ASSUME SentInv, PhaseInv, ReceivedInv, DataInv, SentInv', NEW p \in Peer, NEW t, NEW k,
         RunStep(p, t, k)
  PROVE  DataInv'
<1> DEFINE o == Other(p)
<1>1. o \in Peer /\ Other(o) = p /\ o # p /\ \A q \in Peer : q = p \/ q = o
  BY TheOther
<1>2. /\ t \in TxType /\ tx'[o] = tx[o] /\ rx'[o] = rx[o] /\ res' = res
      /\ SendStep(p, tx[p], t, net[o], net[p], net'[p], k, sDone, sDone')
      /\ SyncStep(tx'[p], t, rx'[p]) /\ Adds(net'[o], net[o], k)
      /\ ReceiveStep(rx[p], rx'[p], net[p], net'[p], k, rDone, rDone', got, got', opened, opened')
      /\ res[p] # "run" => SendsNothing(t, tx[p], k) /\ Ignores(rx'[p], rx[p], net[p], net'[p], k)
  BY DEF RunStep, OtherEnd
<1>3. /\ tx[p] \in TxType /\ tx[o] \in TxType /\ net[p] \in Seq(Packet) /\ net[o] \in Seq(Packet)
      /\ rDone \in [File -> Seq(Outcome)] /\ got \in [File -> Seq(File \X Nat)]
      /\ \A f \in File : Len(got[f]) \in Nat
  <2>1. got \in [File -> Seq(File \X Nat)] /\ rDone \in [File -> Seq(Outcome)]
    BY DEF SentInv, TypeOK, HistoryOK
  <2>2. \A f \in File : got[f] \in Seq(File \X Nat)
    BY <2>1
  <2> QED
    BY <1>1, <2>1, <2>2, Typed, LenProperties
<1>4. tx'[p] \in TxType
  BY DEF SentInv, TypeOK, MachinesOK
<1>5. /\ Offered(p) \subseteq File /\ Offered(o) \subseteq File
      /\ \A f \in Offered(p) : f \notin Offered(o)
  BY <1>1, OfferedApart
<1>6. /\ tx[p].offer = NoFile \/ (tx[p].offer \in File /\ tx[p].offer = Current(p, tx[p]))
      /\ tx[o].offer = NoFile \/ (tx[o].offer \in File /\ tx[o].offer = Current(o, tx[o]))
      /\ tx[p].state \notin Transferring \/ tx[p].offer # NoFile \/ SendsNothing(t, tx[p], k)
  BY <1>1, <1>2, <1>5, PulledLast
<1>7. /\ Wire(o, net'[p], net'[o], tx[o], got') /\ Standing(rx'[p], res[p], got')
      /\ AllStored(o, rDone', got') /\ Elsewhere(o, got, got', rDone, rDone')
  <2>1. Phase(o, net[p], net[o], tx[o], rx[p])
    BY <1>1 DEF PhaseInv
  <2>2. Ordered(o, net[p], tx[o]) /\ Level(o, net[p], tx[o], rx[p], rDone, opened)
    BY <1>1 DEF ReceivedInv
  <2>3. /\ Wire(o, net[p], net[o], tx[o], got) /\ Standing(rx[p], res[p], got)
        /\ AllStored(o, rDone, got)
    BY <1>1 DEF DataInv
  <2>4. res[p] = "run" \/ Ignores(rx'[p], rx[p], net[p], net'[p], k)
    BY <1>2
  <2>5. /\ tx[o] \in TxType /\ net[p] \in Seq(Packet) /\ net[o] \in Seq(Packet) /\ o \in Peer
        /\ rDone \in [File -> Seq(Outcome)] /\ got \in [File -> Seq(File \X Nat)]
        /\ ReceiveStep(rx[p], rx'[p], net[p], net'[p], k, rDone, rDone', got, got', opened, opened')
        /\ Adds(net'[o], net[o], k)
    BY <1>1, <1>2, <1>3
  <2>6. tx[o].offer = NoFile \/ (tx[o].offer \in File /\ tx[o].offer = Current(o, tx[o]))
    BY <1>6
  <2> HIDE DEF o
  <2> QED
    BY <2>1, <2>2, <2>3, <2>4, <2>5, <2>6, ReceiveWire
<1>8. Wire(p, net'[o], net'[p], t, got)
  <2>1. Phase(p, net[o], net[p], tx[p], rx[o])
    BY DEF PhaseInv
  <2>2. Wire(p, net[o], net[p], tx[p], got) /\ Standing(rx[o], res[o], got)
    BY <1>1 DEF DataInv
  <2>3. /\ tx[p] \in TxType /\ t \in TxType /\ net[p] \in Seq(Packet) /\ net[o] \in Seq(Packet)
        /\ SendStep(p, tx[p], t, net[o], net[p], net'[p], k, sDone, sDone')
        /\ Adds(net'[o], net[o], k)
    BY <1>2, <1>3
  <2>4. \A f \in File : Len(got[f]) \in Nat
    BY <1>3
  <2>5. tx[p].offer = NoFile \/ (tx[p].offer \in File /\ tx[p].offer = Current(p, tx[p]))
    BY <1>6
  <2>6. tx[p].state \notin Transferring \/ tx[p].offer # NoFile \/ SendsNothing(t, tx[p], k)
    BY <1>6
  <2> HIDE DEF o
  <2> QED
    BY <2>1, <2>2, <2>3, <2>4, <2>5, <2>6, SendWire
<1>9. tx'[p].state \in Transferring => Current(p, tx'[p]) \in Offered(p)
  <2>1. CASE res[p] = "run"
    <3>1. res'[p] = "run" => TxShape(p, tx'[p])
      BY DEF SentInv, Shape
    <3>2. tx'[p].state \in Transferring =>
            /\ tx'[p].next \in 1..(Len(Offers[p]) + 1) /\ tx'[p].next > 1
      BY <1>2, <2>1, <3>1 DEF TxShape
    <3>3. tx'[p].state \in Transferring => tx'[p].next - 1 \in 1..Len(Offers[p])
      BY <3>2, OffersAreFiles
    <3> QED
      BY <3>3 DEF Current, Offered
  <2>2. CASE res[p] # "run"
    <3>1. t.state \in Transferring => tx[p].state \in Transferring
      BY <1>2, <2>2 DEF SendsNothing, Stays, Transferring, BeforeFinfo, FromEnd
    <3>2. tx'[p].state \in Transferring => t.state \in Transferring
      BY <1>2 DEF SyncStep, Transferring
    <3>3. tx'[p].next = tx[p].next
      BY <1>2, <2>2 DEF SyncStep, SendsNothing, SameFile
    <3> QED
      BY <3>1, <3>2, <3>3 DEF DataInv, Current
  <2> QED
    BY <2>1, <2>2
<1>10. Wire(p, net'[o], net'[p], tx'[p], got')
  <2>1. tx'[p].offer # NoFile => tx'[p].offer \in Offered(p)
    <3>1. CASE res'[p] # "run"
      BY <3>1 DEF SentInv, Shape
    <3>2. CASE res'[p] = "run"
      <4>1. TxShape(p, tx'[p])
        BY <3>2 DEF SentInv, Shape
      <4>2. tx'[p].offer # NoFile =>
              /\ tx'[p].next \in 1..(Len(Offers[p]) + 1) /\ tx'[p].next > 1
              /\ tx'[p].offer = Offers[p][tx'[p].next - 1]
        BY <4>1 DEF TxShape
      <4>3. tx'[p].offer # NoFile => tx'[p].next - 1 \in 1..Len(Offers[p])
        BY <4>2, OffersAreFiles
      <4> QED
        BY <4>2, <4>3 DEF Offered
    <3> QED
      BY <3>1, <3>2
  <2>2. t.offer = tx'[p].offer
    BY <1>2 DEF SyncStep, SameFile
  <2>3. t.offer # NoFile => Len(got[t.offer]) \in Nat
    BY <1>3, <1>5, <2>1, <2>2
  <2>4. Wire(p, net'[o], net'[p], tx'[p], got)
    BY <1>2, <1>4, <1>8, <2>3, SyncWire
  <2> QED
    BY <1>5, <1>7, <1>9, <2>1, <2>4, OtherFiles DEF Elsewhere
<1>11. /\ Standing(rx'[o], res'[o], got')
       /\ AllStored(p, rDone', got')
  <2>1. rx[o].state = "Data" => rx[o].file \in Offered(p)
    BY <1>1, AtWork
  <2>2. Standing(rx[o], res[o], got) /\ AllStored(p, rDone, got)
    BY <1>1 DEF DataInv
  <2> QED
    BY <1>2, <1>5, <1>7, <2>1, <2>2 DEF Standing, Stored, AllStored, Elsewhere
<1>12. ASSUME NEW f \in File, \A q \in Peer : f \notin Offered(q)
       PROVE  got'[f] = <<>>
  BY <1>1, <1>7, <1>12 DEF DataInv, Elsewhere
<1>13. tx'[o].state \in Transferring => Current(o, tx'[o]) \in Offered(o)
  BY <1>1, <1>2 DEF DataInv
<1> HIDE DEF o
<1> QED
  BY <1>1, <1>2, <1>7, <1>9, <1>10, <1>11, <1>12, <1>13 DEF DataInv, o

\* And so does the end of a Run.
LEMMA StopData ==
  ASSUME SentInv, PhaseInv, ReceivedInv, DataInv, NEW p \in Peer, StopStep(p)
  PROVE  DataInv'
<1> DEFINE o == Other(p)
           t == tx[p]
           u == tx'[p]
           r == rx[p]
           v == rx'[p]
<1>1. o \in Peer /\ Other(o) = p /\ o # p /\ \A q \in Peer : q = p \/ q = o
  BY TheOther
<1>2. /\ tx'[o] = tx[o] /\ rx'[o] = rx[o] /\ res'[o] = res[o] /\ res'[p] # "run"
      /\ SendStop(u, t, net[p], net'[p], sDone, sDone')
      /\ ReceiveStop(v, r, net'[p], rDone, rDone', got, got', opened, opened')
      /\ Adds(net'[o], net[o], Nothing)
  BY DEF StopStep, OtherEnd
<1>3. /\ u.offer = NoFile /\ u.next = t.next
      /\ u.state = t.state \/ u.state \in FromEnd
      /\ net'[p] = <<>> /\ got' = got
      /\ v.state = r.state /\ v.pos = r.pos /\ v.file = r.file /\ ~v.open
      /\ rDone' = IF r.open THEN Complete(rDone, r.file, "Aborted") ELSE rDone
  BY <1>2 DEF SendStop, ReceiveStop, Shut
<1>4. net[p] \in Seq(Packet) /\ net[o] \in Seq(Packet) /\ rDone \in [File -> Seq(Outcome)]
  BY <1>1, Typed DEF SentInv, TypeOK, HistoryOK
<1>5. u.state \in Transferring => t.state \in Transferring
  BY <1>3, TxStates
<1>6. /\ Less(net'[p], net[p]) /\ Nothing.t \notin Mattering
      /\ ~(tx[o].state \in Transferring /\ Nothing.t \in {"DATAACK", "RPOS"})
  BY <1>3, <1>4, LessFew, Kinds DEF Mattering, Answer
<1>7. Wire(p, net'[o], net'[p], u, got')
  <2>1. ASSUME u.state \in Transferring
        PROVE  Wire(p, net'[o], net'[p], u, got)
    <3>1. Wire(p, net[o], net[p], t, got)
      BY DEF DataInv
    <3>2. ~u.skip /\ u.offer # NoFile => AtEnd(u) /\ InWindow(u, Len(got[u.offer]))
      BY <1>3
    <3> QED
      BY <1>2, <1>3, <1>4, <1>5, <1>6, <2>1, <3>1, <3>2, SameWire
  <2> QED
    BY <1>3, <2>1 DEF Wire
<1>8. Wire(o, net'[p], net'[o], tx'[o], got')
  <2>1. Wire(o, net[p], net[o], tx[o], got)
    BY <1>1 DEF DataInv
  <2>2. Wire(o, net'[p], net'[o], tx[o], got)
    BY <1>2, <1>6, <2>1, AnswersWire
  <2> QED
    BY <1>2, <1>3, <2>2
<1>9. /\ Standing(v, res'[p], got') /\ Standing(rx'[o], res'[o], got')
  <2>1. Standing(r, res[p], got) /\ Standing(rx[o], res[o], got)
    BY <1>1 DEF DataInv
  <2> QED
    BY <1>2, <1>3, <2>1 DEF Standing
<1>10. ASSUME NEW q \in Peer
       PROVE  AllStored(q, rDone', got')
  <2>1. AllStored(q, rDone, got)
    BY DEF DataInv
  <2>2. ASSUME r.open, NEW f \in Offered(q)
        PROVE  Stored(f, rDone', got')
    <3>1. f \in File /\ Stored(f, rDone, got)
      BY <2>1, <2>2, OfferedApart DEF AllStored
    <3>2. rDone' = Complete(rDone, r.file, "Aborted") /\ "Aborted" \in Outcome
      BY <1>3, <2>2 DEF Outcome
    <3>3. "Aborted" = "nil" /\ r.file = f => Len(got[f]) >= Actual[f]
      OBVIOUS
    <3>4. Stored(f, rDone', got)
      BY <1>4, <3>1, <3>2, <3>3, StillStored
    <3> QED
      BY <1>3, <3>4
  <2> QED
    BY <1>3, <2>1, <2>2 DEF AllStored
<1>11. /\ u.state \in Transferring => Current(p, u) \in Offered(p)
       /\ tx'[o].state \in Transferring => Current(o, tx'[o]) \in Offered(o)
  BY <1>1, <1>2, <1>3, <1>5 DEF DataInv, Current
<1> HIDE DEF o, t, u, r, v
<1>12. \A f \in File : (\A q \in Peer : f \notin Offered(q)) => got'[f] = <<>>
  BY <1>3 DEF DataInv
<1> QED
  BY <1>1, <1>7, <1>8, <1>9, <1>10, <1>11, <1>12 DEF DataInv, o, u, v

\* It holds at the start.
LEMMA InitData == Init => DataInv
<1> SUFFICES ASSUME Init PROVE DataInv
  OBVIOUS
<1>1. /\ \A p \in Peer : tx[p].state = "Start" /\ rx[p].state = "Init"
      /\ \A f \in File : rDone[f] = <<>> /\ got[f] = <<>>
  BY DEF Init, newTx, newRx
<1>2. <<>> # <<"nil">> /\ Len(<<>>) = 0
  OBVIOUS
<1>3. ASSUME NEW f \in File
      PROVE  Stored(f, rDone, got)
  <2>1. got[f] = Content(f, 0, 0)
    BY <1>1 DEF Content
  <2>2. 0 <= Actual[f]
    BY FileAssumption
  <2> QED
    BY <1>1, <1>2, <2>1, <2>2 DEF Stored
<1>4. ASSUME NEW p \in Peer
      PROVE  /\ Wire(p, net[Other(p)], net[p], tx[p], got)
             /\ tx[p].state \in Transferring => Current(p, tx[p]) \in Offered(p)
             /\ Standing(rx[p], res[p], got)
             /\ AllStored(p, rDone, got)
  BY <1>1, <1>3, OfferedApart DEF Wire, Transferring, Standing, AllStored
<1> QED
  BY <1>1, <1>4 DEF DataInv

\* Every step keeps it.
LEMMA NextData ==
  ASSUME Patient, SentInv, SentInv', HandshakeInv, PhaseInv, ReceivedInv, DataInv, [Next]_vars
  PROVE  DataInv'
<1>1. CASE UNCHANGED <<tx, rx, net, res, sDone, rDone, opened, got>>
  BY <1>1 DEF DataInv, Wire, Standing, AllStored, Stored
<1>2. CASE \E p \in Peer : (\E t, k : RunStep(p, t, k)) \/ StopStep(p)
  BY <1>2, RunData, StopData
<1> QED
  BY <1>1, <1>2, NextMoves

\* A file that was completed is held to its end, and no further unless it was
\* resumed there.
LEMMA DataImplies ==
  ASSUME SentInv, ReceivedInv, DataInv
  PROVE  Integrity /\ WindowHeld
<1>1. Integrity
  <2> SUFFICES ASSUME NEW f \in File
               PROVE  /\ got[f] = Content(f, 0, Len(got[f]))
                      /\ rDone[f] = <<"nil">> =>
                            \/ Len(got[f]) = Actual[f]
                            \/ Len(got[f]) > Actual[f] /\ Len(got[f]) \in ResumeAt
    BY DEF Integrity
  <2>1. CASE \E p \in Peer : f \in Offered(p)
    <3>1. Stored(f, rDone, got)
      BY <2>1 DEF DataInv, AllStored
    <3>2. Len(got[f]) \in Nat /\ Actual[f] \in Nat
      <4>1. got[f] \in Seq(File \X Nat)
        BY DEF SentInv, TypeOK, HistoryOK
      <4> QED
        BY <4>1, LenProperties, FileAssumption
    <3> QED
      BY <3>1, <3>2 DEF Stored
  <2>2. CASE ~\E p \in Peer : f \in Offered(p)
    <3>1. got[f] = <<>> /\ rDone[f] = <<>>
      BY <2>2 DEF DataInv, ReceivedInv
    <3>2. got[f] = Content(f, 0, Len(got[f])) /\ <<>> # <<"nil">>
      BY <3>1 DEF Content
    <3> QED
      BY <3>1, <3>2
  <2> QED
    BY <2>1, <2>2
<1>2. WindowHeld
  BY DEF WindowHeld, DataInv, Wire, InWindow
<1> QED
  BY <1>1, <1>2

\* What the layers above start from, in every state.
LEMMA InData ==
  ASSUME Patient
  PROVE  Spec => [](SentInv /\ HandshakeInv /\ PhaseInv /\ ReceivedInv /\ DataInv)
<1>1. Init => SentInv /\ HandshakeInv /\ PhaseInv /\ ReceivedInv /\ DataInv
  BY InitSent, InitHandshake, InitPhase, InitReceived, InitData
<1>2. SentInv /\ HandshakeInv /\ PhaseInv /\ ReceivedInv /\ DataInv /\ [Next]_vars
        => (SentInv /\ HandshakeInv /\ PhaseInv /\ ReceivedInv /\ DataInv)'
  BY NextSent, NextHandshake, NextPhase, NextReceived, NextData
<1> QED
  BY <1>1, <1>2, PTL DEF Spec

\* What a writer holds is the file's content, in place and without a gap; a file
\* completed without an error is held to its end (rxData, rxEOF).
THEOREM FilesIntact ==
  ASSUME Patient
  PROVE  Spec => []Integrity
<1>1. SentInv /\ ReceivedInv /\ DataInv => Integrity
  BY DataImplies
<1> QED
  BY <1>1, InData, PTL

\* A sender knows of no more than its receiver has, and keeps to its window
\* (sendData, txDataAck, txRpos, txTimeout in htxDataAck).
THEOREM WindowRespected ==
  ASSUME Patient
  PROVE  Spec => []WindowHeld
<1>1. SentInv /\ ReceivedInv /\ DataInv => WindowHeld
  BY DataImplies
<1> QED
  BY <1>1, InData, PTL

-----------------------------------------------------------------------------
(* What the two handlers are told of a file.                               *)

\* What a sender may be told, its receiver having been told d.
Compatible(o, d) ==
    CASE o = "nil" -> d = <<"nil">>
      [] o = "Defer" -> d \in {<<"Defer">>, <<"Range">>}
      [] o = "Skip" -> d \in {<<"Skip">>, <<"Write">>}
      [] o = "TooLarge" -> d \in {<<"SenderSkip">>, <<"Write">>}
      [] o \in {"Read", "Range"} -> d \in {<<"SenderSkip">>, <<"Write">>, <<"nil">>}
      [] OTHER -> o = "Aborted"
Agreed(f, told, done) == \A o \in Outcome : told[f] = <<o>> => Compatible(o, done[f])
AllAgreed(s, told, done) == \A f \in Offered(s) \ BadOffer : Agreed(f, told, done)

\* A receiver has told its handler what it tells the sender: that it refused a
\* file, or gave it up.
Spoken(r, done) ==
    /\ r.refused # NoFile =>
          \/ r.refusedAck = ackHaveFile /\ done[r.refused] = <<"Skip">>
          \/ r.refusedAck = ackDefer /\ done[r.refused] \in {<<"Defer">>, <<"Range">>}
    /\ r.state = "Data" => r.pos <= SafeMax /\ (r.pos < 0 => done[r.file] = <<"Write">>)

\* A sender gives a file up for a reason, which d allows for.
Excused(t, f, d) ==
    IF t.skip
    THEN /\ t.err \in {"Skip", "Read", "TooLarge", "Range"}
         /\ t.err = "Skip" => d = <<"Write">>
         /\ t.err = "TooLarge" => Actual[f] > SafeMax
    ELSE t.err = "nil" /\ t.pos <= SafeMax

\* A receiver that is done with the file under way had all of it, or was told
\* that there would be no more.
Left(t, f, r, d) ==
    r.state = "Finfo" =>
        \/ d = <<"nil">> /\ Actual[f] <= SafeMax
        \/ t.skip /\ d \in {<<"SenderSkip">>, <<"Write">>}

\* What is on the way of it, and the requests that come back.
Reaches(k, t) ==
    /\ k.t = "DATA" => k.off + k.n <= SafeMax
    /\ k.t = "EOF" => k.off <= SafeMax /\ (k.off < 0 => t.skip)
Requests(k, d) == k.t = "RPOS" => k.off <= SafeMax /\ (k.off < 0 => d = <<"Write">>)

Verdict(s, n, m, t, r, done) ==
    LET f == Current(s, t) IN
    /\ t.state = "FinfoAck" /\ ~t.eob => ~t.skip /\ t.err = "nil"
    /\ t.state \in Transferring =>
        /\ \A k \in Among(n) : Reaches(k, t)
        /\ \A k \in Among(m) : Requests(k, done[f])
        /\ Left(t, f, r, done[f]) /\ Excused(t, f, done[f])

VerdictInv ==
    \A p \in Peer :
        /\ Verdict(p, net[Other(p)], net[p], tx[p], rx[Other(p)], rDone)
        /\ Spoken(rx[p], rDone) /\ AllAgreed(p, sDone, rDone)

-----------------------------------------------------------------------------
(* The sender's steps.                                                     *)

\* The same file under way.
LEMMA SameVerdict ==
  ASSUME NEW s, NEW n, NEW m, NEW t, NEW r, NEW done, Verdict(s, n, m, t, r, done),
         t.state \in Transferring, NEW u, u.state \in Transferring, u.next = t.next,
         ~t.skip \/ u.skip, Excused(u, Current(s, t), done[Current(s, t)]),
         NEW mm, Less(mm, m), NEW k, k.t \in Mattering => Reaches(k, u), NEW nn, Adds(nn, n, k)
  PROVE  Verdict(s, nn, mm, u, r, done)
<1> DEFINE f == Current(s, t)
           d == done[f]
<1>1. Current(s, u) = f /\ u.state # "FinfoAck"
  BY DEF Current, Transferring
<1>2. ASSUME NEW j \in Among(nn)
      PROVE  Reaches(j, u)
  <2>1. {"DATA", "EOF"} \subseteq Mattering
    BY DEF Mattering, Forward
  <2>2. CASE j.t \notin Mattering
    BY <2>1, <2>2 DEF Reaches
  <2>3. CASE j.t \in Mattering
    <3>1. (j \in Among(n) \/ j = k) /\ (j \in Among(n) => Reaches(j, t))
      BY <2>3 DEF Adds, Verdict
    <3> QED
      BY <2>3, <3>1 DEF Reaches
  <2> QED
    BY <2>2, <2>3
<1>3. \A j \in Among(mm) : Requests(j, d)
  BY DEF Verdict, Less
<1>4. Left(u, f, r, d)
  BY DEF Verdict, Left
<1> HIDE DEF d
<1> QED
  BY <1>1, <1>2, <1>3, <1>4 DEF Verdict, d

\* A packet that is none of a file's.
LEMMA ReachesAnswers ==
  ASSUME NEW k, k.t \notin Forward, NEW u
  PROVE  k.t \in Mattering => Reaches(k, u)
  BY Kinds DEF Reaches, Forward

\* sync leaves a sender where it is.
LEMMA SyncVerdict ==
  ASSUME NEW s, NEW n, NEW m, NEW t, NEW u, NEW r, NEW done, Verdict(s, n, m, t, r, done),
         NEW v, SyncStep(u, t, v)
  PROVE  Verdict(s, n, m, u, r, done)
<1>1. /\ u.next = t.next /\ u.skip = t.skip /\ u.pos = t.pos /\ u.err = t.err /\ u.eob = t.eob
      /\ u.state = "FinfoAck" => t.state = "FinfoAck"
      /\ u.state \in Transferring => t.state \in Transferring
  BY DEF SyncStep, SameFile, SameData, Transferring
<1>2. Current(s, u) = Current(s, t)
  BY <1>1 DEF Current
<1> QED
  BY <1>1, <1>2 DEF Verdict, Reaches, Left, Excused

\* Whatever the sender does, what it gives up it gives up for a reason.
LEMMA SendVerdict ==
  ASSUME NEW s, NEW n \in Seq(Packet), NEW m \in Seq(Packet), NEW t \in TxType, NEW r,
         Phase(s, n, m, t, r), NEW u \in TxType, NEW mm, NEW k, NEW told, NEW next,
         SendStep(s, t, u, n, m, mm, k, told, next), NEW nn, Adds(nn, n, k),
         NEW done, Verdict(s, n, m, t, r, done), Spoken(r, done),
         t.offer = NoFile \/ t.offer = Current(s, t),
         t.state \notin Transferring \/ t.offer # NoFile \/ SendsNothing(u, t, k)
  PROVE  Verdict(s, nn, mm, u, r, done)
<1> DEFINE f == Current(s, t)
           d == done[f]
<1>1. /\ Less(m, m) /\ SafeMax \in Nat /\ t.pos \in Nat /\ u.pos \in Nat
      /\ t.skip \in BOOLEAN /\ u.skip \in BOOLEAN
  BY LessFew, FileAssumption DEF TxType
<1>2. t.state \in Transferring => Excused(t, f, d)
  BY DEF Verdict
<1>3. CASE SendsNothing(u, t, k) /\ Less(mm, m)
  <2>1. /\ u.next = t.next /\ u.skip = t.skip /\ u.pos = t.pos /\ u.err = t.err /\ u.eob = t.eob
        /\ k.t \notin Forward
        /\ u.state = "FinfoAck" => t.state = "FinfoAck"
        /\ u.state \in Transferring => t.state \in Transferring
    BY <1>3 DEF SendsNothing, SameFile, SameData, Stays, Transferring, BeforeFinfo, FromEnd
  <2>2. CASE u.state \in Transferring
    <3>1. Excused(u, f, d)
      BY <1>2, <2>1, <2>2 DEF Excused
    <3>2. k.t \in Mattering => Reaches(k, u)
      BY <2>1, ReachesAnswers
    <3> QED
      BY <1>3, <2>1, <2>2, <3>1, <3>2, SameVerdict
  <2>3. CASE u.state \notin Transferring
    BY <2>1, <2>3 DEF Verdict
  <2> QED
    BY <2>2, <2>3
<1>4. CASE SendsBlock(u, t, k) /\ mm = m
  <2>1. /\ t.state \in Transferring /\ u.state \in Transferring /\ u.next = t.next
        /\ ~t.skip /\ ~u.skip /\ u.err = t.err /\ u.pos <= SafeMax
    BY <1>4 DEF SendsBlock, SameFile, Transferring
  <2>2. PICK i \in 1..MaxBlock : u.pos = t.pos + i /\ k = Pkt("DATA", t.offer, t.pos, i, 0)
    BY <1>4 DEF SendsBlock
  <2>3. Reaches(k, u)
    BY <2>1, <2>2 DEF Reaches, Pkt
  <2>4. Excused(u, f, d)
    BY <1>2, <2>1 DEF Excused
  <2> QED
    BY <1>1, <1>4, <2>1, <2>3, <2>4, SameVerdict
<1>5. CASE ReachesEnd(u, t, k) /\ mm = m
  <2>1. /\ t.state \in Transferring /\ u.state \in Transferring /\ u.next = t.next
        /\ k.t \notin Forward /\ u.pos = t.pos /\ (t.skip => u.skip)
    BY <1>5 DEF ReachesEnd, SameFile, Transferring
  <2>2. \/ u.skip = t.skip /\ u.err = t.err
        \/ u.skip /\ u.err = "Read"
        \/ u.skip /\ u.err = "TooLarge" /\ Actual[t.offer] > SafeMax
    BY <1>5 DEF ReachesEnd
  <2>3. t.offer # NoFile \/ (u.skip = t.skip /\ u.err = t.err)
    BY <2>1 DEF SendsNothing, SameData
  <2>4. Excused(u, f, d)
    <3>1. CASE u.skip = t.skip /\ u.err = t.err
      BY <1>2, <2>1, <3>1 DEF Excused
    <3>2. CASE u.skip /\ u.err = "Read"
      BY <3>2 DEF Excused
    <3>3. CASE u.skip /\ u.err = "TooLarge" /\ Actual[t.offer] > SafeMax /\ t.offer # NoFile
      BY <3>3 DEF Excused
    <3> QED
      BY <2>2, <2>3, <3>1, <3>2, <3>3
  <2>5. k.t \in Mattering => Reaches(k, u)
    BY <2>1, ReachesAnswers
  <2> QED
    BY <1>1, <1>5, <2>1, <2>4, <2>5, SameVerdict
<1>6. CASE SendsEOF(u, t, k) /\ mm = m
  <2>1. /\ t.state \in Transferring /\ u.state \in Transferring /\ u.next = t.next
        /\ u.skip = t.skip /\ u.pos = t.pos /\ u.err = t.err
        /\ k = OffPkt("EOF", IF t.skip THEN offsetSkip ELSE t.pos)
    BY <1>6 DEF SendsEOF, SameFile, SameData, Transferring
  <2>2. k.t = "EOF" /\ k.off = IF t.skip THEN offsetSkip ELSE t.pos
    BY <2>1 DEF OffPkt, Pkt
  <2>3. Excused(u, f, d)
    BY <1>2, <2>1 DEF Excused
  <2>4. Reaches(k, u)
    BY <1>1, <1>2, <2>1, <2>2 DEF Reaches, Excused, offsetSkip
  <2> QED
    BY <1>1, <1>6, <2>1, <2>3, <2>4, SameVerdict
<1>7. CASE Repeats(u, t, n, m, k) \/ AnnouncesNext(s, u, t, k, told, next)
  <2>1. u.state = "FinfoAck" /\ u.state \notin Transferring
    BY <1>7 DEF Repeats, AnnouncesNext, Transferring
  <2>2. ~u.eob => ~u.skip /\ u.err = "nil"
    <3>1. CASE Repeats(u, t, n, m, k)
      <4>1. t.state = "FinfoAck" /\ u.eob = t.eob /\ u.skip = t.skip /\ u.err = t.err
        BY <3>1 DEF Repeats, SameCursor, SameData, Phase, Abreast
      <4> QED
        BY <4>1 DEF Verdict
    <3>2. CASE AnnouncesNext(s, u, t, k, told, next)
      BY <3>2 DEF AnnouncesNext
    <3> QED
      BY <1>7, <3>1, <3>2
  <2> QED
    BY <2>1, <2>2 DEF Verdict
<1>8. CASE k = Nothing /\ HearsFinfoAck(u, t, m, mm, told, next)
  <2>1. PICK j : /\ Took(m, mm, j, "FINFOACK")
                 /\ \/ t.eob /\ u.state = "Rend"
                    \/ FileOver(u, t)
                    \/ /\ ~t.eob /\ j.off >= 0 /\ SameCursor(u, t)
                       /\ u.state = "EOF" /\ u.skip /\ u.err = "Range"
                    \/ /\ ~t.eob /\ j.off >= 0 /\ SameCursor(u, t) /\ u.state = "Xdata"
                       /\ u.pos = j.off /\ u.skip = t.skip /\ u.err = t.err
    BY <1>8 DEF HearsFinfoAck
  <2>2. /\ t.state = "FinfoAck" /\ Void(n, Forward) /\ Answered(t.lastFinfo, j.off, r)
        /\ Void(mm, Answer)
    BY <2>1, TookVoid DEF Phase, Replied
  <2>3. (t.eob <=> t.lastFinfo = EOB) /\ (~t.eob => t.lastFinfo = f /\ ~t.skip /\ t.err = "nil")
    BY <2>2 DEF Phase, Abreast, Verdict
  <2>4. Void(nn, Forward)
    BY <1>8, <2>2, AddsVoid, Kinds
  <2>5. /\ \A a \in Among(nn) : Reaches(a, u)
        /\ \A a \in Among(mm) : \A b : Requests(a, b)
    BY <2>2, <2>4 DEF Void, Reaches, Requests, Forward, Answer
  <2>6. CASE u.state \notin Transferring
    <3>1. u.state # "FinfoAck"
      BY <2>1, <2>6 DEF FileOver
    <3> QED
      BY <2>6, <3>1 DEF Verdict
  <2>7. CASE u.state \in Transferring
    <3>1. /\ ~t.eob /\ j.off >= 0 /\ SameCursor(u, t)
          /\ \/ u.skip /\ u.err = "Range"
             \/ u.pos = j.off /\ u.skip = t.skip /\ u.err = t.err
      BY <2>1, <2>7 DEF FileOver, Transferring
    <3>2. j.off \in Int
      BY <2>1, TookVoid, AmongPackets
    <3>3. r.state = "Data" /\ r.file = f /\ r.pos = j.off
      <4>1. ~(j.off < 0)
        BY <3>1, <3>2
      <4> QED
        BY <2>2, <2>3, <3>1, <4>1 DEF Answered
    <3>4. j.off <= SafeMax
      BY <3>3 DEF Spoken
    <3>5. Excused(u, f, d)
      BY <2>3, <3>1, <3>4 DEF Excused
    <3>6. Left(u, f, r, d)
      BY <3>3 DEF Left
    <3>7. Current(s, u) = f /\ u.state # "FinfoAck"
      BY <2>7, <3>1 DEF SameCursor, Current, Transferring
    <3> HIDE DEF f
    <3> QED
      BY <2>5, <3>5, <3>6, <3>7 DEF Verdict
  <2> QED
    BY <2>6, <2>7
<1>9. CASE k = Nothing /\ HearsDataAck(u, t, m, mm)
  <2>1. /\ t.state \in Transferring /\ u.state \in Transferring /\ u.next = t.next
        /\ Less(mm, m) /\ k.t \notin Forward
        /\ u.skip = t.skip /\ u.pos = t.pos /\ u.err = t.err
    BY <1>9, TookVoid, Kinds DEF HearsDataAck, SameFile, SameData, Transferring
  <2>2. Excused(u, f, d)
    BY <1>2, <2>1 DEF Excused
  <2>3. k.t \in Mattering => Reaches(k, u)
    BY <2>1, ReachesAnswers
  <2> QED
    BY <2>1, <2>2, <2>3, SameVerdict
<1>10. CASE k = Nothing /\ HearsRpos(u, t, m, mm)
  <2>1. PICK j : /\ Took(m, mm, j, "RPOS")
                 /\ \/ /\ j.off >= 0 /\ u.pos = j.off /\ u.skip = t.skip /\ u.err = t.err
                       /\ u.state \in {"Xdata", "Xwait"}
                    \/ /\ u.state = "EOF" /\ u.skip
                       /\ \/ j.off < 0 /\ u.err = IF t.err = "nil" THEN "Skip" ELSE t.err
                          \/ j.off >= 0 /\ u.err = "Range"
    BY <1>10 DEF HearsRpos
  <2>2. /\ t.state \in Transferring /\ u.state \in Transferring /\ u.next = t.next
        /\ Less(mm, m) /\ k.t \notin Forward /\ (~t.skip \/ u.skip)
    BY <1>10, <2>1, TookVoid, Kinds DEF HearsRpos, SameFile, Transferring
  <2>3. j.off <= SafeMax /\ (j.off < 0 => d = <<"Write">>)
    <3>1. Requests(j, d) /\ j.t = "RPOS"
      BY <2>1, <2>2, TookVoid DEF Verdict
    <3> QED
      BY <3>1 DEF Requests
  <2>4. Excused(u, f, d)
    <3> HIDE DEF f, d
    <3>1. CASE u.pos = j.off /\ u.skip = t.skip /\ u.err = t.err
      BY <1>2, <2>2, <2>3, <3>1 DEF Excused
    <3>2. CASE u.skip /\ u.err = "Range"
      BY <3>2 DEF Excused
    <3>3. CASE u.skip /\ j.off < 0 /\ u.err = (IF t.err = "nil" THEN "Skip" ELSE t.err)
      BY <1>2, <2>2, <2>3, <3>3 DEF Excused
    <3> QED
      BY <2>1, <3>1, <3>2, <3>3
  <2>5. k.t \in Mattering => Reaches(k, u)
    BY <2>2, ReachesAnswers
  <2> QED
    BY <2>2, <2>4, <2>5, SameVerdict
<1>11. CASE HearsEOFAck(u, t, m, mm, told, next)
  BY <1>11 DEF HearsEOFAck, FileOver, Verdict, Transferring
<1> QED
  BY <1>3, <1>4, <1>5, <1>6, <1>7, <1>8, <1>9, <1>10, <1>11 DEF SendStep

\* A call of one outcome, to a sender that was told nothing yet or too much.
LEMMA ToldOnce ==
  ASSUME NEW told \in [File -> Seq(Outcome)], NEW f \in File, NEW o \in Outcome, NEW next,
         next = Complete(told, f, o), NEW done, Compatible(o, done[f])
  PROVE  Agreed(f, next, done)
<1>1. told[f] \in Seq(Outcome) /\ next[f] = Append(told[f], o)
  BY CompleteTells
<1>2. \A a \in Outcome : a # o => next[f] # <<a>>
  BY <1>1, LastCall
<1> QED
  BY <1>2 DEF Agreed

\* Whom the sender tells what.
Tells(t, told, next, done) ==
    \A f \in File \ BadOffer : next[f] = told[f] \/ (f = t.offer /\ Agreed(f, next, done))

\* What it tells fits what the receiver told.
LEMMA SendTellsRight ==
  ASSUME NEW s, NEW n \in Seq(Packet), NEW m \in Seq(Packet), NEW t \in TxType, NEW r,
         Phase(s, n, m, t, r), NEW u, NEW mm, NEW k, NEW told \in [File -> Seq(Outcome)], NEW next,
         SendStep(s, t, u, n, m, mm, k, told, next),
         NEW done, Verdict(s, n, m, t, r, done), Spoken(r, done),
         \/ u.state # "Finfo"
         \/ t.state \notin Transferring \cup {"FinfoAck"}
         \/ t.state = "FinfoAck" /\ t.eob
         \/ t.offer \in File /\ t.offer = Current(s, t)
  PROVE  Tells(t, told, next, done)
<1> DEFINE f == Current(s, t)
           d == done[f]
<1>1. {"nil", "Skip", "Defer", "TooLarge", "Range", "Read"} \subseteq Outcome
  BY DEF Outcome
<1>2. CASE next = told
  BY <1>2 DEF Tells
<1>3. CASE AnnouncesNext(s, u, t, k, told, next)
  BY <1>3 DEF AnnouncesNext, Tells
<1>4. ASSUME NEW o \in Outcome, next = Complete(told, t.offer, o), Compatible(o, d), t.offer \in File,
             t.offer = f
      PROVE  Tells(t, told, next, done)
  <2> DEFINE e == t.offer
  <2>1. e \in File /\ next = Complete(told, e, o) /\ Compatible(o, done[e])
    BY <1>4
  <2> HIDE DEF e
  <2>2. Agreed(e, next, done)
    BY <1>4, <2>1, ToldOnce
  <2>3. \A a \in File : a # e => next[a] = told[a]
    BY <1>4, <2>1, CompleteTells
  <2> QED
    BY <2>2, <2>3 DEF Tells, e
<1>5. CASE HearsFinfoAck(u, t, m, mm, told, next) /\ next # told
  <2>1. PICK j : /\ Took(m, mm, j, "FINFOACK") /\ ~t.eob /\ j.off < 0 /\ FileOver(u, t)
                 /\ next = Complete(told, t.offer, IF j.off = ackHaveFile THEN "Skip" ELSE "Defer")
    BY <1>5 DEF HearsFinfoAck
  <2>2. t.state = "FinfoAck" /\ Answered(t.lastFinfo, j.off, r)
    BY <2>1, TookVoid DEF Phase, Replied
  <2>3. t.lastFinfo # EOB /\ t.lastFinfo # NoFile /\ t.lastFinfo = f
    BY <2>1, <2>2 DEF Phase, Abreast
  <2>4. r.refused = f /\ r.refusedAck = j.off /\ f # NoFile
    BY <2>1, <2>2, <2>3 DEF Answered
  <2>5. t.offer \in File /\ t.offer = f
    BY <2>1, <2>2 DEF FileOver, Transferring
  <2> HIDE DEF f
  <2>6. CASE j.off = ackHaveFile
    <3>1. d = <<"Skip">>
      BY <2>4, <2>6 DEF Spoken, ackHaveFile, ackDefer
    <3>2. Compatible("Skip", d)
      BY <3>1 DEF Compatible
    <3>3. next = Complete(told, t.offer, "Skip")
      BY <2>1, <2>6
    <3> HIDE DEF d
    <3> QED
      BY <1>1, <1>4, <2>5, <3>2, <3>3
  <2>7. CASE j.off # ackHaveFile
    <3>1. d \in {<<"Defer">>, <<"Range">>}
      BY <2>4, <2>7 DEF Spoken
    <3>2. Compatible("Defer", d)
      BY <3>1 DEF Compatible
    <3>3. next = Complete(told, t.offer, "Defer")
      BY <2>1, <2>7
    <3> HIDE DEF d
    <3> QED
      BY <1>1, <1>4, <2>5, <3>2, <3>3
  <2> QED
    BY <2>6, <2>7
<1>6. CASE HearsEOFAck(u, t, m, mm, told, next)
  <2>1. PICK j : Took(m, mm, j, "EOFACK")
    BY <1>6 DEF HearsEOFAck
  <2>2. /\ t.state \in Transferring /\ next = Complete(told, t.offer, eofOutcome(t))
        /\ u.state = "Finfo"
    BY <1>6 DEF HearsEOFAck, FileOver, Transferring
  <2>3. t.offer \in File /\ t.offer = f
    BY <2>2 DEF Transferring
  <2>4. r.state = "Finfo"
    <3>1. ~Void(m, {"EOFACK"})
      BY <2>1, TookVoid DEF Void
    <3> QED
      BY <2>2, <3>1 DEF Phase, Abreast
  <2>5. /\ \/ d = <<"nil">> /\ Actual[f] <= SafeMax
           \/ t.skip /\ d \in {<<"SenderSkip">>, <<"Write">>}
        /\ Excused(t, f, d)
    BY <2>2, <2>4 DEF Verdict, Left
  <2> HIDE DEF f, d
  <2>6. CASE ~t.skip
    <3>1. eofOutcome(t) = "nil" /\ d = <<"nil">>
      BY <2>5, <2>6 DEF eofOutcome
    <3>2. Compatible("nil", d)
      BY <3>1 DEF Compatible
    <3> QED
      BY <1>1, <1>4, <2>2, <2>3, <3>1, <3>2
  <2>7. CASE t.skip
    <3>1. eofOutcome(t) = t.err /\ t.err \in {"Skip", "Read", "TooLarge", "Range"}
      BY <2>5, <2>7 DEF eofOutcome, Excused
    <3>2. t.err = "Skip" => d = <<"Write">>
      BY <2>5, <2>7 DEF Excused
    <3>3. t.err = "TooLarge" => d \in {<<"SenderSkip">>, <<"Write">>}
      <4>1. Actual[f] <= SafeMax /\ Actual[f] > SafeMax => FALSE
        <5>1. Actual[f] \in Nat /\ SafeMax \in Nat
          BY <2>3, FileAssumption
        <5> QED
          BY <5>1
      <4> QED
        BY <2>5, <2>7, <4>1 DEF Excused
    <3>4. d \in {<<"nil">>, <<"SenderSkip">>, <<"Write">>}
      BY <2>5
    <3>5. Compatible(t.err, d)
      BY <3>1, <3>2, <3>3, <3>4 DEF Compatible
    <3> QED
      BY <1>1, <1>4, <2>2, <2>3, <3>1, <3>5
  <2> QED
    BY <2>6, <2>7
<1> QED
  BY <1>2, <1>3, <1>5, <1>6 DEF SendStep

-----------------------------------------------------------------------------
(* The receiver's steps.                                                   *)

\* What a handler was told stays: no file is completed twice.
Grown(done, next) == \A f \in File : done[f] # <<>> => next[f] = done[f]

\* One file more.
LEMMA OneMore ==
  ASSUME NEW done \in [File -> Seq(Outcome)], NEW f \in File, done[f] = <<>>, NEW o \in Outcome,
         NEW next, next = Complete(done, f, o)
  PROVE  Grown(done, next) /\ next[f] = <<o>>
<1>1. next[f] = <<o>>
  BY DEF Complete
<1>2. \A e \in File : e # f => next[e] = done[e]
  BY CompleteTells
<1> QED
  BY <1>1, <1>2 DEF Grown

\* Nothing that rests on a call is undone by another.
LEMMA GrownVerdict ==
  ASSUME NEW done, NEW next, Grown(done, next)
  PROVE  /\ \A s, n, m, t, r : Verdict(s, n, m, t, r, done)
              /\ (t.state \in Transferring => Current(s, t) \in File) => Verdict(s, n, m, t, r, next)
         /\ \A r \in RxType : Spoken(r, done) /\ (r.state = "Data" => r.file \in File)
              => Spoken(r, next)
         /\ \A told : \A f \in File : Agreed(f, told, done) => Agreed(f, told, next)
<1>1. /\ <<>> # <<"nil">> /\ <<>> # <<"Skip">> /\ <<>> # <<"Defer">> /\ <<>> # <<"Range">>
      /\ <<>> # <<"Write">> /\ <<>> # <<"SenderSkip">>
  OBVIOUS
<1>2. ASSUME NEW s, NEW n, NEW m, NEW t, NEW r, Verdict(s, n, m, t, r, done),
             t.state \in Transferring => Current(s, t) \in File
      PROVE  Verdict(s, n, m, t, r, next)
  <2> DEFINE f == Current(s, t)
             d == done[f]
             e == next[f]
  <2>1. t.state \in Transferring => (d # <<>> => e = d)
    BY <1>2 DEF Grown
  <2>2. /\ t.state = "FinfoAck" /\ ~t.eob => ~t.skip /\ t.err = "nil"
        /\ t.state \in Transferring =>
              /\ \A k \in Among(n) : Reaches(k, t)
              /\ \A k \in Among(m) : Requests(k, d)
              /\ Left(t, f, r, d) /\ Excused(t, f, d)
    BY <1>2 DEF Verdict
  <2> HIDE DEF d, e
  <2>3. ASSUME t.state \in Transferring
        PROVE  /\ \A k \in Among(m) : Requests(k, e)
               /\ Left(t, f, r, e) /\ Excused(t, f, e)
    BY <1>1, <2>1, <2>2, <2>3 DEF Requests, Left, Excused
  <2> QED
    BY <2>2, <2>3 DEF Verdict, e
<1>3. ASSUME NEW r \in RxType, Spoken(r, done), r.state = "Data" => r.file \in File
      PROVE  Spoken(r, next)
  <2>1. r.refused = NoFile \/ r.refused \in File
    BY DEF RxType
  <2>2. r.refused # NoFile => (done[r.refused] # <<>> => next[r.refused] = done[r.refused])
    BY <2>1 DEF Grown
  <2>3. r.state = "Data" => (done[r.file] # <<>> => next[r.file] = done[r.file])
    BY <1>3 DEF Grown
  <2> QED
    BY <1>1, <1>3, <2>2, <2>3 DEF Spoken
<1>4. ASSUME NEW f \in File, NEW told, Agreed(f, told, done)
      PROVE  Agreed(f, told, next)
  <2>1. ASSUME NEW o \in Outcome, Compatible(o, done[f])
        PROVE  Compatible(o, next[f])
    <3>1. CASE done[f] # <<>>
      BY <2>1, <3>1 DEF Grown
    <3>2. CASE done[f] = <<>>
      <4>1. o \notin {"nil", "Defer", "Skip", "TooLarge", "Read", "Range"}
        BY <1>1, <2>1, <3>2 DEF Compatible
      <4>2. o = "Aborted"
        BY <2>1, <4>1 DEF Compatible
      <4> QED
        BY <4>2 DEF Compatible
    <3> QED
      BY <3>1, <3>2
  <2> QED
    BY <1>4, <2>1 DEF Agreed
<1> QED
  BY <1>2, <1>3, <1>4

\* A receiver that answers.
LEMMA AnswersVerdict ==
  ASSUME NEW s, NEW n, NEW m, NEW t, NEW r, NEW done, Verdict(s, n, m, t, r, done),
         NEW v, \/ v.state # "Finfo" \/ r.state = "Finfo" \/ t.state \notin Transferring
                \/ Left(t, Current(s, t), v, done[Current(s, t)]),
         NEW nn, Less(nn, n), NEW k, NEW mm, Adds(mm, m, k),
         t.state \notin Transferring \/ Requests(k, done[Current(s, t)])
  PROVE  Verdict(s, nn, mm, t, v, done)
<1> DEFINE f == Current(s, t)
           d == done[f]
<1> HIDE DEF d
<1>1. /\ t.state = "FinfoAck" /\ ~t.eob => ~t.skip /\ t.err = "nil"
      /\ t.state \in Transferring =>
            /\ \A j \in Among(n) : Reaches(j, t)
            /\ \A j \in Among(m) : Requests(j, d)
            /\ Left(t, f, r, d) /\ Excused(t, f, d) /\ Requests(k, d)
            /\ (v.state # "Finfo" \/ r.state = "Finfo" \/ Left(t, f, v, d))
  BY DEF Verdict, d
<1>2. ASSUME t.state \in Transferring
      PROVE  Left(t, f, v, d)
  BY <1>1, <1>2 DEF Left
<1>3. ASSUME t.state \in Transferring, NEW j \in Among(mm)
      PROVE  Requests(j, d)
  <2>1. "RPOS" \in Mattering
    BY DEF Mattering, Answer
  <2> QED
    BY <1>1, <1>3, <2>1 DEF Adds, Requests
<1>4. ASSUME t.state \in Transferring, NEW j \in Among(nn)
      PROVE  Reaches(j, t)
  BY <1>1, <1>4 DEF Less
<1> QED
  BY <1>1, <1>2, <1>3, <1>4 DEF Verdict, d

\* The same without the packet it took, and with its answer.
Answers(s, nn, mm, t, v, done, next) ==
    Verdict(s, nn, mm, t, v, next) /\ Spoken(v, next) /\ Grown(done, next)

\* Whatever the receiver does with a packet, its handler has been told what its
\* sender will be.
LEMMA ReceiveVerdict ==
  ASSUME NEW s \in Peer, NEW n \in Seq(Packet), NEW m, NEW t \in TxType, NEW r \in RxType,
         Phase(s, n, m, t, r), NEW done \in [File -> Seq(Outcome)], NEW op, Ordered(s, n, t),
         Level(s, n, t, r, done, op), NEW g, Wire(s, n, m, t, g), NEW live, Standing(r, live, g),
         Verdict(s, n, m, t, r, done), Spoken(r, done),
         NEW v \in RxType, NEW nn, NEW k, NEW next, NEW h,
         NEW nop, ReceiveStep(r, v, n, nn, k, done, next, g, h, op, nop),
         live = "run" \/ Ignores(v, r, n, nn, k), NEW mm, Adds(mm, m, k),
         t.state \in Transferring => Current(s, t) \in Offered(s)
  PROVE  Answers(s, nn, mm, t, v, done, next)
<1> DEFINE f == Current(s, t)
<1>1. /\ t.state \in TxState /\ Offered(s) \subseteq File /\ SafeMax \in Nat
      /\ Grown(done, done) /\ ~(offsetSkip >= 0) /\ offsetSkip <= SafeMax /\ offsetSkip < 0
      /\ {"Skip", "Defer", "Range", "Write", "SenderSkip", "nil"} \subseteq Outcome
  BY OfferedApart, FileAssumption DEF TxType, Grown, offsetSkip, Outcome
<1>2. r.state = "Data" => r.file \in Offered(s) /\ (r.open => done[r.file] = <<>>)
  BY DEF Level
<1>3. t.state \in Transferring => r.state = "Finfo" \/ (r.state = "Data" /\ r.file = f)
  BY DEF Phase, Abreast
<1>4. CASE Ignores(v, r, n, nn, k) /\ next = done
  <2>1. /\ Less(nn, n) /\ k.t # "RPOS" /\ v.refused = r.refused /\ v.refusedAck = r.refusedAck
        /\ v.file = r.file /\ v.pos = r.pos
        /\ v.state = r.state \/ (r.state = "Init" /\ v.state = "Finfo")
    BY <1>4 DEF Ignores, SamePlace, SameRx, Answer
  <2>2. v.state # "Finfo" \/ r.state = "Finfo" \/ t.state \notin Transferring
    BY <1>3, <2>1
  <2>3. \A d : Requests(k, d)
    BY <2>1 DEF Requests
  <2>4. Verdict(s, nn, mm, t, v, done)
    BY <2>1, <2>2, <2>3, AnswersVerdict
  <2>5. Spoken(v, done)
    BY <2>1 DEF Spoken
  <2> QED
    BY <1>1, <1>4, <2>4, <2>5 DEF Answers
<1>5. ASSUME NEW j, Took(n, nn, j, "FINFO"),
             \/ AnswersFinfo(v, r, j, k) /\ next = done
             \/ Refuses(v, r, j, k, done, next)
             \/ OpensFile(v, r, j, k, g, h) /\ next = done
      PROVE  Answers(s, nn, mm, t, v, done, next)
  <2>1. j \in Among(n) /\ j.t = "FINFO" /\ n # <<>> /\ j = Head(n)
    BY <1>5, TookVoid DEF Took
  <2>2. t.state \notin Transferring
    BY <2>1 DEF Phase, Announced, Transferring
  <2>3. Verdict(s, nn, mm, t, v, next)
    BY <2>2 DEF Verdict
  <2>4. CASE AnswersFinfo(v, r, j, k) /\ next = done
    <3>1. Spoken(v, done)
      BY <2>4 DEF AnswersFinfo, SamePlace, SameRx, Spoken
    <3> QED
      BY <1>1, <2>3, <2>4, <3>1 DEF Answers
  <2>5. CASE Refuses(v, r, j, k, done, next)
    <3> DEFINE e == j.f
    <3>1. e \in File /\ e \in Offered(s) /\ done[e] = <<>>
      BY <2>1, <2>5, NewFile DEF Refuses, Met
    <3>2. /\ v.state = "Finfo" /\ v.refused = e
          /\ \/ v.refusedAck = ackHaveFile /\ next = Complete(done, e, "Skip")
             \/ v.refusedAck = ackDefer /\ \E o \in {"Defer", "Range"} : next = Complete(done, e, o)
      BY <2>5 DEF Refuses
    <3> HIDE DEF e
    <3>3. /\ Grown(done, next)
          /\ \/ v.refusedAck = ackHaveFile /\ next[e] = <<"Skip">>
             \/ v.refusedAck = ackDefer /\ next[e] \in {<<"Defer">>, <<"Range">>}
      <4>1. CASE v.refusedAck = ackHaveFile /\ next = Complete(done, e, "Skip")
        BY <1>1, <3>1, <4>1, OneMore
      <4>2. ASSUME v.refusedAck = ackDefer, NEW o \in {"Defer", "Range"}, next = Complete(done, e, o)
            PROVE  Grown(done, next) /\ next[e] \in {<<"Defer">>, <<"Range">>}
        BY <1>1, <3>1, <4>2, OneMore
      <4> QED
        BY <3>2, <4>1, <4>2
    <3>4. Spoken(v, next)
      BY <3>2, <3>3 DEF Spoken
    <3> QED
      BY <2>3, <3>3, <3>4 DEF Answers
  <2>6. CASE OpensFile(v, r, j, k, g, h) /\ next = done
    <3>1. v.refused = NoFile /\ v.pos \in ResumeAt /\ v.pos <= SafeMax
      BY <2>6 DEF OpensFile
    <3>2. v.pos \in Nat /\ ~(v.pos < 0)
      <4>1. v.pos \in Nat
        BY <3>1, HandlerAssumption
      <4> QED
        BY <4>1
    <3>3. Spoken(v, done)
      BY <3>1, <3>2 DEF Spoken
    <3> QED
      BY <1>1, <2>3, <2>6, <3>3 DEF Answers
  <2> QED
    BY <1>5, <2>4, <2>5, <2>6
<1>6. ASSUME NEW j, Took(n, nn, j, "DATA") \/ Took(n, nn, j, "EOF"), AsksAgain(v, r, j, k),
             next = done
      PROVE  Answers(s, nn, mm, t, v, done, next)
  <2>1. /\ Less(nn, n) /\ r.state = "Data" /\ v.state = "Data" /\ k.off = r.pos
        /\ v.refused = r.refused /\ v.refusedAck = r.refusedAck /\ v.file = r.file /\ v.pos = r.pos
    BY <1>6, TookVoid DEF AsksAgain, SamePlace, SameRx, Pkt
  <2>2. t.state \notin Transferring \/ Requests(k, done[f])
    BY <1>3, <2>1 DEF Spoken, Requests
  <2>3. Verdict(s, nn, mm, t, v, done)
    BY <2>1, <2>2, AnswersVerdict
  <2>4. Spoken(v, done)
    BY <2>1 DEF Spoken
  <2> QED
    BY <1>1, <1>6, <2>3, <2>4 DEF Answers
<1>7. ASSUME NEW j, Took(n, nn, j, "DATA"), FailsToWrite(v, r, j, k, done, next)
      PROVE  Answers(s, nn, mm, t, v, done, next)
  <2> DEFINE e == r.file
  <2>1. /\ r.state = "Data" /\ v.state = "Data" /\ v.file = e /\ v.refused = r.refused
        /\ v.refusedAck = r.refusedAck /\ v.pos = offsetSkip /\ k.off = offsetSkip
        /\ next = Complete(done, e, "Write") /\ e \in File /\ done[e] = <<>>
    BY <1>1, <1>2, <1>7 DEF FailsToWrite, Shut, Pkt
  <2> HIDE DEF e
  <2>2. Grown(done, next) /\ next[e] = <<"Write">>
    BY <1>1, <2>1, OneMore
  <2>3. Verdict(s, n, m, t, r, next)
    BY <1>1, <2>2, GrownVerdict
  <2>4. t.state \notin Transferring \/ Requests(k, next[f])
    BY <1>1, <1>3, <2>1, <2>2 DEF Requests, e
  <2>5. Less(nn, n)
    BY <1>7, TookVoid
  <2>6. Verdict(s, nn, mm, t, v, next)
    BY <2>1, <2>3, <2>4, <2>5, AnswersVerdict
  <2>7. Spoken(r, next)
    BY <1>1, <1>2, <2>2, GrownVerdict
  <2>8. Spoken(v, next)
    BY <1>1, <2>1, <2>2, <2>7 DEF Spoken
  <2> QED
    BY <2>2, <2>6, <2>8 DEF Answers
<1>8. ASSUME NEW j, Took(n, nn, j, "DATA"), TakesBlock(v, r, j, k, g, h), next = done
      PROVE  Answers(s, nn, mm, t, v, done, next)
  <2>1. /\ j \in Among(n) /\ j.t = "DATA" /\ j.off >= 0 /\ j.off \in Int /\ j.n \in Nat
        /\ Less(nn, n)
    BY <1>8, TookVoid, AmongPackets DEF Packet
  <2>2. /\ r.state = "Data" /\ v.state = "Data" /\ v.pos = j.off + j.n
        /\ v.refused = r.refused /\ v.refusedAck = r.refusedAck /\ k.t # "RPOS"
    BY <1>8 DEF TakesBlock, SameRx, OffPkt, Pkt, Nothing, Ctl
  <2>3. t.state \in Transferring
    BY <1>1, <2>1, <2>2, Underway
  <2>4. v.pos <= SafeMax /\ ~(v.pos < 0)
    <3>1. Reaches(j, t)
      BY <2>1, <2>3 DEF Verdict
    <3> QED
      BY <2>1, <2>2, <3>1 DEF Reaches
  <2>5. Spoken(v, done)
    BY <2>2, <2>4 DEF Spoken
  <2>6. \A d : Requests(k, d)
    BY <2>2 DEF Requests
  <2>7. Verdict(s, nn, mm, t, v, done)
    BY <2>1, <2>2, <2>6, AnswersVerdict
  <2> QED
    BY <1>1, <1>8, <2>5, <2>7 DEF Answers
<1>9. ASSUME NEW j, Took(n, nn, j, "EOF"), ClosesFile(v, r, j, k, done, next)
      PROVE  Answers(s, nn, mm, t, v, done, next)
  <2>1. j \in Among(n) /\ j.t = "EOF" /\ j.off \in Int /\ Less(nn, n)
    BY <1>9, TookVoid, AmongPackets
  <2>2. /\ r.state = "Data" /\ v.state = "Finfo" /\ v.refused = r.refused
        /\ v.refusedAck = r.refusedAck /\ k.t = "EOFACK"
    BY <1>9 DEF ClosesFile, Shut, Ctl, Pkt
  <2>3. t.state \in Transferring /\ r.file = f
    BY <1>1, <2>1, <2>2, Underway
  <2>4. f \in File /\ f \in Offered(s) /\ (r.open => done[f] = <<>>)
    BY <1>1, <1>2, <2>2, <2>3
  <2>5. Reaches(j, t) /\ Fits(j, f)
    BY <2>1, <2>3 DEF Verdict, Wire
  <2>6. PICK o \in {"SenderSkip", "nil"} :
          /\ IF j.off < 0 THEN o = "SenderSkip" ELSE o = "nil" /\ j.off = r.pos
          /\ next = IF r.open THEN Complete(done, f, o) ELSE done
    BY <1>9, <2>3 DEF ClosesFile
  <2>7. live = "run"
    BY <2>2 DEF Ignores, SamePlace, SameRx
  <2> HIDE DEF f
  <2>8. Grown(done, next) /\ Left(t, f, v, next[f])
    <3>1. CASE r.open
      <4>1. Grown(done, next) /\ next[f] = <<o>>
        BY <1>1, <2>4, <2>6, <3>1, OneMore
      <4>2. CASE j.off < 0
        BY <2>1, <2>5, <2>6, <4>1, <4>2 DEF Reaches, Left
      <4>3. CASE ~(j.off < 0)
        <5>1. j.off >= Actual[f] /\ j.off <= SafeMax
          BY <2>1, <2>5, <4>3 DEF Reaches, Fits
        <5>2. Actual[f] <= SafeMax
          BY <1>1, <2>1, <2>4, <5>1, FileAssumption
        <5> QED
          BY <2>6, <4>1, <4>3, <5>2 DEF Left
      <4> QED
        BY <4>2, <4>3
    <3>2. CASE ~r.open
      <4>1. r.pos = offsetSkip
        BY <2>2, <2>7, <3>2 DEF Standing
      <4>2. done[f] = <<"Write">>
        BY <1>1, <2>2, <2>3, <4>1 DEF Spoken
      <4>3. j.off < 0
        BY <1>1, <2>1, <2>6, <4>1
      <4>4. t.skip
        BY <2>1, <2>5, <4>3 DEF Reaches
      <4> QED
        BY <1>1, <2>6, <3>2, <4>2, <4>4 DEF Left
    <3> QED
      BY <3>1, <3>2
  <2>9. Verdict(s, n, m, t, r, next)
    BY <2>4, <2>8, GrownVerdict DEF f
  <2>10. \A d : Requests(k, d)
    BY <2>2 DEF Requests
  <2>11. Verdict(s, nn, mm, t, v, next)
    BY <2>1, <2>8, <2>9, <2>10, AnswersVerdict DEF f
  <2>12. Spoken(r, next)
    BY <1>1, <1>2, <2>8, GrownVerdict
  <2>13. Spoken(v, next)
    BY <2>2, <2>12 DEF Spoken
  <2> QED
    BY <2>8, <2>11, <2>13 DEF Answers
<1>10. ASSUME NEW j, Took(n, nn, j, "EOF"), r.state = "Finfo", SamePlace(v, r),
              k = Ctl("EOFACK"), next = done
       PROVE  Answers(s, nn, mm, t, v, done, next)
  <2>1. /\ Less(nn, n) /\ k.t # "RPOS" /\ v.state = "Finfo"
        /\ v.refused = r.refused /\ v.refusedAck = r.refusedAck
    BY <1>10, TookVoid DEF Ctl, Pkt, SamePlace, SameRx
  <2>2. \A d : Requests(k, d)
    BY <2>1 DEF Requests
  <2>3. Verdict(s, nn, mm, t, v, done)
    BY <1>10, <2>1, <2>2, AnswersVerdict
  <2>4. Spoken(v, done)
    BY <2>1 DEF Spoken
  <2> QED
    BY <1>1, <1>10, <2>3, <2>4 DEF Answers
<1> QED
  BY <1>4, <1>5, <1>6, <1>7, <1>8, <1>9, <1>10 DEF ReceiveStep

-----------------------------------------------------------------------------
(* The steps.                                                              *)

\* The other direction is told nothing by this sender.
LEMMA OthersAgreed ==
  ASSUME NEW s \in Peer, NEW t, t.offer = NoFile \/ t.offer \in Offered(s), NEW told, NEW next, NEW done,
         Tells(t, told, next, done)
  PROVE  /\ AllAgreed(s, told, done) => AllAgreed(s, next, done)
         /\ \A d : AllAgreed(Other(s), told, d) => AllAgreed(Other(s), next, d)
<1>1. /\ Other(s) \in Peer /\ Offered(s) \subseteq File /\ Offered(Other(s)) \subseteq File
      /\ \A f \in Offered(s) : f \notin Offered(Other(s))
      /\ NoFile \notin File
  BY TheOther, OfferedApart, MarkerAssumption
<1>2. ASSUME NEW f \in Offered(s) \ BadOffer, Agreed(f, told, done)
      PROVE  Agreed(f, next, done)
  BY <1>1, <1>2 DEF Tells, Agreed
<1>3. ASSUME NEW f \in Offered(Other(s)) \ BadOffer, NEW d, Agreed(f, told, d)
      PROVE  Agreed(f, next, d)
  BY <1>1, <1>3 DEF Tells, Agreed
<1> QED
  BY <1>2, <1>3 DEF AllAgreed

\* A step of a running peer keeps it.
LEMMA RunVerdict ==
  ASSUME SentInv, PhaseInv, ReceivedInv, DataInv, VerdictInv, SentInv', NEW p \in Peer,
         NEW t, NEW k, RunStep(p, t, k)
  PROVE  VerdictInv'
<1> DEFINE o == Other(p)
<1>1. o \in Peer /\ Other(o) = p /\ o # p /\ \A q \in Peer : q = p \/ q = o
  BY TheOther
<1>2. /\ t \in TxType /\ tx'[o] = tx[o] /\ rx'[o] = rx[o] /\ res' = res
      /\ SendStep(p, tx[p], t, net[o], net[p], net'[p], k, sDone, sDone')
      /\ SyncStep(tx'[p], t, rx'[p]) /\ Adds(net'[o], net[o], k)
      /\ ReceiveStep(rx[p], rx'[p], net[p], net'[p], k, rDone, rDone', got, got', opened, opened')
      /\ res[p] # "run" => SendsNothing(t, tx[p], k) /\ Ignores(rx'[p], rx[p], net[p], net'[p], k)
  BY DEF RunStep, OtherEnd
<1>3. /\ tx[p] \in TxType /\ tx[o] \in TxType /\ net[p] \in Seq(Packet) /\ net[o] \in Seq(Packet)
      /\ sDone \in [File -> Seq(Outcome)] /\ rDone \in [File -> Seq(Outcome)]
      /\ rx[p] \in RxType /\ rx'[p] \in RxType /\ rx[o] \in RxType
  BY <1>1, Typed DEF SentInv, TypeOK, HistoryOK, MachinesOK
<1>4. /\ tx[p].offer = NoFile \/ (tx[p].offer \in Offered(p) /\ tx[p].offer = Current(p, tx[p]))
      /\ tx[p].state \notin Transferring \/ tx[p].offer # NoFile \/ SendsNothing(t, tx[p], k)
      /\ Offered(p) \subseteq File /\ Offered(o) \subseteq File
  BY <1>1, <1>2, PulledLast, OfferedApart
<1>5. Answers(o, net'[p], net'[o], tx[o], rx'[p], rDone, rDone')
  <2>1. Phase(o, net[p], net[o], tx[o], rx[p])
    BY <1>1 DEF PhaseInv
  <2>2. Ordered(o, net[p], tx[o]) /\ Level(o, net[p], tx[o], rx[p], rDone, opened)
    BY <1>1 DEF ReceivedInv
  <2>3. Wire(o, net[p], net[o], tx[o], got) /\ Standing(rx[p], res[p], got)
    BY <1>1 DEF DataInv
  <2>4. Verdict(o, net[p], net[o], tx[o], rx[p], rDone) /\ Spoken(rx[p], rDone)
    BY <1>1 DEF VerdictInv
  <2>5. res[p] = "run" \/ Ignores(rx'[p], rx[p], net[p], net'[p], k)
    BY <1>2
  <2>6. tx[o].state \in Transferring => Current(o, tx[o]) \in Offered(o)
    BY <1>1 DEF DataInv
  <2>7. /\ o \in Peer /\ net[p] \in Seq(Packet) /\ tx[o] \in TxType
        /\ rx[p] \in RxType /\ rx'[p] \in RxType /\ rDone \in [File -> Seq(Outcome)]
        /\ ReceiveStep(rx[p], rx'[p], net[p], net'[p], k, rDone, rDone', got, got', opened, opened')
        /\ Adds(net'[o], net[o], k)
    BY <1>1, <1>2, <1>3
  <2> HIDE DEF o
  <2> QED
    BY <2>1, <2>2, <2>3, <2>4, <2>5, <2>6, <2>7, ReceiveVerdict
<1>6. /\ Phase(p, net[o], net[p], tx[p], rx[o])
      /\ Verdict(p, net[o], net[p], tx[p], rx[o], rDone) /\ Spoken(rx[o], rDone)
  BY <1>1 DEF PhaseInv, VerdictInv
<1>7. Verdict(p, net'[o], net'[p], t, rx[o], rDone)
  <2>1. tx[p].offer = NoFile \/ tx[p].offer = Current(p, tx[p])
    BY <1>4
  <2>2. tx[p].state \notin Transferring \/ tx[p].offer # NoFile \/ SendsNothing(t, tx[p], k)
    BY <1>4
  <2>3. /\ net[o] \in Seq(Packet) /\ net[p] \in Seq(Packet) /\ tx[p] \in TxType /\ t \in TxType
        /\ SendStep(p, tx[p], t, net[o], net[p], net'[p], k, sDone, sDone')
        /\ Adds(net'[o], net[o], k)
    BY <1>2, <1>3
  <2> HIDE DEF o
  <2> QED
    BY <1>6, <2>1, <2>2, <2>3, SendVerdict
<1>8. Tells(tx[p], sDone, sDone', rDone)
  <2>1. \/ t.state # "Finfo"
        \/ tx[p].state \notin Transferring \cup {"FinfoAck"}
        \/ tx[p].state = "FinfoAck" /\ tx[p].eob
        \/ tx[p].offer \in File /\ tx[p].offer = Current(p, tx[p])
    <3>1. CASE res[p] = "run"
      <4>1. TxShape(p, tx[p])
        BY <3>1 DEF SentInv, Shape
      <4>2. tx[p].state \in Transferring \/ (tx[p].state = "FinfoAck" /\ ~tx[p].eob) => tx[p].offer # NoFile
        BY <4>1 DEF TxShape
      <4> QED
        BY <1>4, <4>2
    <3>2. CASE res[p] # "run"
      <4>1. t.state = "Finfo" => tx[p].state \notin Transferring \cup {"FinfoAck"}
        BY <1>2, <3>2 DEF SendsNothing, Stays, Transferring, BeforeFinfo, FromEnd
      <4> QED
        BY <4>1
    <3> QED
      BY <3>1, <3>2
  <2>2. /\ net[o] \in Seq(Packet) /\ net[p] \in Seq(Packet) /\ tx[p] \in TxType
        /\ sDone \in [File -> Seq(Outcome)]
        /\ SendStep(p, tx[p], t, net[o], net[p], net'[p], k, sDone, sDone')
    BY <1>2, <1>3
  <2> HIDE DEF o
  <2> QED
    BY <1>6, <2>1, <2>2, SendTellsRight
<1>9. Verdict(p, net'[o], net'[p], tx'[p], rx'[o], rDone')
  <2>1. Verdict(p, net'[o], net'[p], tx'[p], rx[o], rDone)
    BY <1>2, <1>7, SyncVerdict
  <2>2. tx'[p].state \in Transferring => Current(p, tx'[p]) \in File
    BY <1>4, RunData DEF DataInv
  <2>3. Grown(rDone, rDone')
    BY <1>5 DEF Answers
  <2> QED
    BY <1>2, <2>1, <2>2, <2>3, GrownVerdict
<1>10. Spoken(rx'[o], rDone')
  <2>1. rx[o].state = "Data" => rx[o].file \in File
    BY <1>1, <1>4, AtWork
  <2>2. Grown(rDone, rDone')
    BY <1>5 DEF Answers
  <2> QED
    BY <1>2, <1>3, <1>6, <2>1, <2>2, GrownVerdict
<1>11. AllAgreed(p, sDone', rDone') /\ AllAgreed(o, sDone', rDone')
  <2>1. AllAgreed(p, sDone, rDone) /\ AllAgreed(o, sDone, rDone)
    BY <1>1 DEF VerdictInv
  <2>2. AllAgreed(p, sDone', rDone) /\ AllAgreed(o, sDone', rDone)
    BY <1>4, <1>8, <2>1, OthersAgreed
  <2>3. Grown(rDone, rDone')
    BY <1>5 DEF Answers
  <2> QED
    BY <1>4, <2>2, <2>3, GrownVerdict DEF AllAgreed
<1>12. Verdict(o, net'[p], net'[o], tx'[o], rx'[p], rDone') /\ Spoken(rx'[p], rDone')
  BY <1>2, <1>5 DEF Answers
<1> HIDE DEF o
<1> QED
  BY <1>1, <1>9, <1>10, <1>11, <1>12 DEF VerdictInv, o

\* And so does the end of a Run.
LEMMA StopVerdict ==
  ASSUME SentInv, ReceivedInv, DataInv, VerdictInv, NEW p \in Peer, StopStep(p)
  PROVE  VerdictInv'
<1> DEFINE o == Other(p)
           t == tx[p]
           u == tx'[p]
           r == rx[p]
           v == rx'[p]
<1>1. o \in Peer /\ Other(o) = p /\ o # p /\ \A q \in Peer : q = p \/ q = o
  BY TheOther
<1>2. /\ tx'[o] = tx[o] /\ rx'[o] = rx[o]
      /\ SendStop(u, t, net[p], net'[p], sDone, sDone')
      /\ ReceiveStop(v, r, net'[p], rDone, rDone', got, got', opened, opened')
      /\ Adds(net'[o], net[o], Nothing)
  BY DEF StopStep, OtherEnd
<1>3. /\ net[p] \in Seq(Packet) /\ net[o] \in Seq(Packet)
      /\ sDone \in [File -> Seq(Outcome)] /\ rDone \in [File -> Seq(Outcome)]
      /\ r \in RxType /\ rx[o] \in RxType
  BY <1>1, Typed DEF SentInv, TypeOK, HistoryOK, MachinesOK
<1>4. /\ t.offer = NoFile \/ t.offer \in Offered(p)
      /\ Offered(p) \subseteq File /\ Offered(o) \subseteq File
      /\ \A q \in Peer : rx[q].state = "Data" => rx[q].file \in File
      /\ \A q \in Peer : tx[q].state \in Transferring => Current(q, tx[q]) \in File
  <2>1. \A q \in Peer : rx[q].state = "Data" => rx[q].file \in File
    BY <1>1, AtWork, OfferedApart
  <2> QED
    BY <1>1, <2>1, PulledLast, OfferedApart DEF DataInv
<1>5. Grown(rDone, rDone')
  <2>1. CASE r.open
    <3>1. r.file \in File /\ rDone[r.file] = <<>>
      <4>1. Level(o, net[p], tx[o], r, rDone, opened)
        BY <1>1 DEF ReceivedInv
      <4> QED
        BY <1>4, <2>1, <4>1 DEF Level
    <3>2. rDone' = Complete(rDone, r.file, "Aborted") /\ "Aborted" \in Outcome
      BY <1>2, <2>1 DEF ReceiveStop, Outcome
    <3> QED
      BY <1>3, <3>1, <3>2, OneMore
  <2>2. CASE ~r.open
    BY <1>2, <2>2 DEF ReceiveStop, Grown
  <2> QED
    BY <2>1, <2>2
<1>6. /\ Less(net'[p], net[p]) /\ Nothing.t \notin Mattering /\ Nothing.t # "RPOS"
  BY <1>2, <1>3, LessFew, Kinds DEF ReceiveStop, Mattering, Answer
<1>7. Spoken(v, rDone') /\ Spoken(rx'[o], rDone')
  <2>1. Spoken(r, rDone) /\ Spoken(rx[o], rDone)
    BY <1>1 DEF VerdictInv
  <2>2. Spoken(r, rDone') /\ Spoken(rx[o], rDone')
    BY <1>1, <1>3, <1>4, <1>5, <2>1, GrownVerdict
  <2>3. /\ v.state = r.state /\ v.pos = r.pos /\ v.file = r.file
        /\ v.refused = r.refused /\ v.refusedAck = r.refusedAck
    BY <1>2 DEF ReceiveStop, Shut
  <2> QED
    BY <1>2, <2>2, <2>3 DEF Spoken
<1>8. Verdict(o, net'[p], net'[o], tx'[o], v, rDone')
  <2>1. Verdict(o, net[p], net[o], tx[o], r, rDone)
    BY <1>1 DEF VerdictInv
  <2>2. Verdict(o, net[p], net[o], tx[o], r, rDone')
    BY <1>1, <1>4, <1>5, <2>1, GrownVerdict
  <2>3. v.state # "Finfo" \/ r.state = "Finfo"
    BY <1>2 DEF ReceiveStop
  <2>4. \A d : Requests(Nothing, d)
    BY <1>6 DEF Requests
  <2>5. Less(net'[p], net[p]) /\ Adds(net'[o], net[o], Nothing)
    BY <1>2, <1>6
  <2> HIDE DEF o, r, v
  <2>6. Verdict(o, net'[p], net'[o], tx[o], v, rDone')
    BY <2>2, <2>3, <2>4, <2>5, AnswersVerdict
  <2> QED
    BY <1>2, <2>6 DEF o
<1>9. Verdict(p, net'[o], net'[p], u, rx'[o], rDone')
  <2>1. Verdict(p, net[o], net[p], t, rx[o], rDone)
    BY DEF VerdictInv
  <2>2. Verdict(p, net[o], net[p], t, rx[o], rDone')
    BY <1>1, <1>4, <1>5, <2>1, GrownVerdict
  <2>3. /\ u.next = t.next /\ u.eob = t.eob /\ u.pos = t.pos /\ u.skip = t.skip /\ u.err = t.err
        /\ u.state = t.state \/ u.state \in FromEnd
    BY <1>2 DEF SendStop, SameData
  <2>4. CASE u.state \in Transferring
    <3>1. t.state \in Transferring
      BY <2>3, <2>4, TxStates
    <3>2. Excused(u, Current(p, t), rDone'[Current(p, t)])
      BY <2>2, <2>3, <3>1 DEF Verdict, Excused
    <3>3. ~t.skip \/ u.skip
      BY <2>3
    <3>4. Nothing.t \in Mattering => Reaches(Nothing, u)
      BY <1>6
    <3>5. Less(net'[p], net[p]) /\ Adds(net'[o], net[o], Nothing) /\ u.next = t.next
      BY <1>2, <1>6, <2>3
    <3> HIDE DEF o, t, u
    <3>6. Verdict(p, net'[o], net'[p], u, rx[o], rDone')
      BY <2>2, <2>4, <3>1, <3>2, <3>3, <3>4, <3>5, SameVerdict
    <3> QED
      BY <1>2, <3>6 DEF o
  <2>5. CASE u.state \notin Transferring
    <3>1. u.state = "FinfoAck" => t.state = "FinfoAck"
      BY <2>3 DEF FromEnd
    <3> QED
      BY <2>2, <2>3, <2>5, <3>1 DEF Verdict
  <2> QED
    BY <2>4, <2>5
<1>10. AllAgreed(p, sDone', rDone') /\ AllAgreed(o, sDone', rDone')
  <2>1. AllAgreed(p, sDone, rDone) /\ AllAgreed(o, sDone, rDone)
    BY <1>1 DEF VerdictInv
  <2>2. Tells(t, sDone, sDone', rDone)
    <3>1. CASE t.offer = NoFile
      BY <1>2, <3>1 DEF SendStop, Tells
    <3>2. CASE t.offer # NoFile
      <4> DEFINE e == t.offer
      <4>1. e \in File /\ sDone' = Complete(sDone, e, "Aborted")
        BY <1>2, <1>4, <3>2 DEF SendStop
      <4>2. Compatible("Aborted", rDone[e]) /\ "Aborted" \in Outcome
        BY DEF Compatible, Outcome
      <4> HIDE DEF e
      <4>3. Agreed(e, sDone', rDone)
        BY <1>3, <4>1, <4>2, ToldOnce
      <4>4. \A f \in File : f # e => sDone'[f] = sDone[f]
        BY <1>3, <4>1 DEF Complete
      <4> QED
        BY <4>3, <4>4 DEF Tells, e
    <3> QED
      BY <3>1, <3>2
  <2>3. AllAgreed(p, sDone', rDone) /\ AllAgreed(o, sDone', rDone)
    BY <1>4, <2>1, <2>2, OthersAgreed
  <2> QED
    BY <1>4, <1>5, <2>3, GrownVerdict DEF AllAgreed
<1> HIDE DEF o, t, u, r, v
<1> QED
  BY <1>1, <1>7, <1>8, <1>9, <1>10 DEF VerdictInv, o, u, v

\* It holds at the start.
LEMMA InitVerdict == Init => VerdictInv
<1> SUFFICES ASSUME Init PROVE VerdictInv
  OBVIOUS
<1>1. /\ \A p \in Peer : tx[p].state = "Start" /\ rx[p].state = "Init" /\ rx[p].refused = NoFile
      /\ \A f \in File : sDone[f] = <<>>
  BY DEF Init, newTx, newRx
<1>2. \A o : <<>> # <<o>>
  OBVIOUS
<1>3. ASSUME NEW p \in Peer
      PROVE  AllAgreed(p, sDone, rDone)
  BY <1>1, <1>2, OfferedApart DEF AllAgreed, Agreed
<1>4. ASSUME NEW p \in Peer
      PROVE  /\ Verdict(p, net[Other(p)], net[p], tx[p], rx[Other(p)], rDone)
             /\ Spoken(rx[p], rDone)
  BY <1>1 DEF Verdict, Spoken, Transferring
<1> QED
  BY <1>3, <1>4 DEF VerdictInv

\* Every step keeps it.
LEMMA NextVerdict ==
  ASSUME Patient, SentInv, SentInv', HandshakeInv, PhaseInv, ReceivedInv, DataInv, VerdictInv,
         [Next]_vars
  PROVE  VerdictInv'
<1>1. CASE UNCHANGED <<tx, rx, net, res, sDone, rDone, opened, got>>
  BY <1>1 DEF VerdictInv, Verdict, Spoken, AllAgreed, Agreed
<1>2. CASE \E p \in Peer : (\E t, k : RunStep(p, t, k)) \/ StopStep(p)
  BY <1>2, RunVerdict, StopVerdict
<1> QED
  BY <1>1, <1>2, NextMoves

\* Each outcome a sender was told fits the one its receiver was told.
LEMMA VerdictImplies == VerdictInv => Agreement
<1> SUFFICES ASSUME VerdictInv, NEW p \in Peer, NEW f \in Offered(p) \ BadOffer
             PROVE  CASE sDone[f] = <<"nil">> -> rDone[f] = <<"nil">>
                      [] sDone[f] = <<"Defer">> -> rDone[f] \in {<<"Defer">>, <<"Range">>}
                      [] sDone[f] = <<"Skip">> -> rDone[f] \in {<<"Skip">>, <<"Write">>}
                      [] sDone[f] = <<"TooLarge">> -> rDone[f] \in {<<"SenderSkip">>, <<"Write">>}
                      [] sDone[f] \in {<<"Read">>, <<"Range">>} ->
                            rDone[f] \in {<<"SenderSkip">>, <<"Write">>, <<"nil">>}
                      [] OTHER -> TRUE
  BY DEF Agreement
<1>1. \A o \in Outcome : sDone[f] = <<o>> => Compatible(o, rDone[f])
  BY DEF VerdictInv, AllAgreed, Agreed
<1>2. /\ sDone[f] = <<"nil">> => rDone[f] = <<"nil">>
      /\ sDone[f] = <<"Defer">> => rDone[f] \in {<<"Defer">>, <<"Range">>}
      /\ sDone[f] = <<"Skip">> => rDone[f] \in {<<"Skip">>, <<"Write">>}
      /\ sDone[f] = <<"TooLarge">> => rDone[f] \in {<<"SenderSkip">>, <<"Write">>}
      /\ sDone[f] \in {<<"Read">>, <<"Range">>} =>
            rDone[f] \in {<<"SenderSkip">>, <<"Write">>, <<"nil">>}
  BY <1>1 DEF Compatible, Outcome
<1> QED
  BY <1>2

\* What the sender's handler is told of a file is what happened to it at the
\* receiver (txFinfoAck, txRpos, txEOFAck; acceptFinfo, rxData, rxEOF).
THEOREM HandlersAgree ==
  ASSUME Patient
  PROVE  Spec => []Agreement
<1>1. /\ Init => SentInv /\ HandshakeInv /\ PhaseInv /\ ReceivedInv /\ DataInv /\ VerdictInv
      /\ VerdictInv => Agreement
  BY InitSent, InitHandshake, InitPhase, InitReceived, InitData, InitVerdict, VerdictImplies
<1>2. SentInv /\ HandshakeInv /\ PhaseInv /\ ReceivedInv /\ DataInv /\ VerdictInv /\ [Next]_vars
        => (SentInv /\ HandshakeInv /\ PhaseInv /\ ReceivedInv /\ DataInv /\ VerdictInv)'
  BY NextSent, NextHandshake, NextPhase, NextReceived, NextData, NextVerdict
<1> QED
  BY <1>1, <1>2, PTL DEF Spec

-----------------------------------------------------------------------------
(* The handlers' contract: what each step is to FileDelivery.              *)

\* An offer rejected by its sender is not announced, and its receiver knows
\* nothing of it; an open writer is one AcceptFile returned.
Usable(t) == t.offer \notin BadOffer /\ t.lastFinfo \notin BadOffer
Unheard(op, done) == \A f \in BadOffer : f \notin op /\ done[f] = <<>>
AcceptedInv ==
    /\ \A p \in Peer : Usable(tx[p]) /\ (rx[p].open => rx[p].file \in opened)
    /\ Unheard(opened, rDone)

\* The receiver's turn has come for the i-th file of s.
Turn(s, i, done, op) ==
    /\ \A j \in i..Len(Offers[s]) : Offers[s][j] \notin op /\ done[Offers[s][j]] = <<>>
    /\ \A j \in 1..(i - 1) : Offers[s][j] \in op => done[Offers[s][j]] # <<>>

\* A file is opened, grows, or is over.
Accepts(s, done, g, h, op, nop) ==
    \E i \in 1..Len(Offers[s]) : LET f == Offers[s][i] IN
        /\ Turn(s, i, done, op) /\ f \notin BadOffer /\ nop = op \cup {f}
        /\ \E n \in Nat : h = [g EXCEPT ![f] = Content(f, 0, n)]
Grows(done, g, h, op) ==
    \E f \in File \cap op :
        /\ done[f] = <<>>
        /\ \E n \in (Len(g[f]) + 1)..Actual[f] : h = [g EXCEPT ![f] = Content(f, 0, n)]
Ends(s, done, next, g, op) ==
    \E i \in 1..Len(Offers[s]), o \in Outcome : LET f == Offers[s][i] IN
        /\ next = Complete(done, f, o) /\ done[f] = <<>> /\ f \notin BadOffer
        /\ CASE o \in {"Skip", "Defer", "Range"} -> Turn(s, i, done, op)
             [] o = "nil" -> f \in op /\ Len(g[f]) >= Actual[f]
             [] OTHER -> f \in op
ReceiveMove(s, done, next, g, h, op, nop) ==
    \/ next = done /\ h = g /\ nop = op
    \/ next = done /\ Accepts(s, done, g, h, op, nop)
    \/ next = done /\ Grows(done, g, h, op) /\ nop = op
    \/ h = g /\ nop = op /\ Ends(s, done, next, g, op)

\* No FINFO names a rejected offer.
LEMMA SendUsable ==
  ASSUME NEW s, NEW t, NEW u, NEW n, NEW m, NEW mm, NEW k, NEW told, NEW next,
         SendStep(s, t, u, n, m, mm, k, told, next), Usable(t)
  PROVE  Usable(u)
<1>1. NoFile \notin BadOffer /\ EOB \notin BadOffer
  BY MarkerAssumption, FileAssumption
<1>2. CASE SendsNothing(u, t, k) \/ SendsBlock(u, t, k) \/ ReachesEnd(u, t, k) \/ SendsEOF(u, t, k)
  BY <1>2 DEF SendsNothing, SendsBlock, ReachesEnd, SendsEOF, SameFile, Usable
<1>3. CASE Repeats(u, t, n, m, k)
  BY <1>3 DEF Repeats, SameCursor, Usable
<1>4. CASE AnnouncesNext(s, u, t, k, told, next)
  BY <1>1, <1>4 DEF AnnouncesNext, Usable
<1>5. CASE HearsFinfoAck(u, t, m, mm, told, next)
  BY <1>1, <1>5 DEF HearsFinfoAck, FileOver, SameCursor, Usable
<1>6. CASE HearsDataAck(u, t, m, mm) \/ HearsRpos(u, t, m, mm)
  BY <1>6 DEF HearsDataAck, HearsRpos, SameFile, Usable
<1>7. CASE HearsEOFAck(u, t, m, mm, told, next)
  BY <1>1, <1>7 DEF HearsEOFAck, FileOver, Usable
<1> QED
  BY <1>2, <1>3, <1>4, <1>5, <1>6, <1>7 DEF SendStep

\* An open writer was accepted.
LEMMA ReceiveOpen ==
  ASSUME NEW r, NEW v, NEW n, NEW nn, NEW k, NEW done, NEW next, NEW g, NEW h, NEW op, NEW nop,
         ReceiveStep(r, v, n, nn, k, done, next, g, h, op, nop), r.open => r.file \in op, v.open
  PROVE  v.file \in nop
  BY DEF ReceiveStep, Ignores, AnswersFinfo, Refuses, OpensFile, AsksAgain, FailsToWrite,
         TakesBlock, ClosesFile, SamePlace, SameRx, Shut

\* A FINFO that a receiver takes for a new one comes in its turn.
LEMMA NewTurn ==
  ASSUME NEW s \in Peer, NEW n \in Seq(Packet), NEW m, NEW t, NEW r, Phase(s, n, m, t, r),
         NEW done, NEW op, Ordered(s, n, t), Level(s, n, t, r, done, op), Usable(t),
         NEW nn, NEW j, Took(n, nn, j, "FINFO"), j.f \in File, r.state = "Finfo", j.f # r.refused
  PROVE  \E i \in 1..Len(Offers[s]) : /\ Offers[s][i] = j.f /\ Turn(s, i, done, op)
                                      /\ j.f \notin BadOffer /\ done[j.f] = <<>>
<1> DEFINE f == j.f
           i == Place(s, f)
<1>1. n # <<>> /\ j = Head(n) /\ j.t = "FINFO" /\ j \in Among(n) /\ Announcement(j)
  BY TookVoid DEF Took, Announcement
<1>2. f \in Offered(s) /\ ~Met(r, done, f)
  BY <1>1, NewFile
<1>3. f \notin BadOffer
  BY <1>1 DEF Phase, Announced, Usable
<1>4. i \in 1..Len(Offers[s]) /\ Offers[s][i] = f /\ Len(Offers[s]) \in Nat
  BY <1>2, PlaceOf
<1>5. \A e \in Offered(s) : Met(r, done, e) => Place(s, e) <= i
  BY <1>1 DEF Level
<1>6. \A e \in Offered(s) : e \in op => Met(r, done, e)
  BY DEF Level
<1>7. \A e : done[e] # <<>> => Met(r, done, e)
  BY DEF Met
<1>8. ~r.open
  BY DEF Level
<1> HIDE DEF i
<1>9. ASSUME NEW a \in i..Len(Offers[s])
      PROVE  Offers[s][a] \notin op /\ done[Offers[s][a]] = <<>>
  <2>1. a \in 1..Len(Offers[s])
    BY <1>4, <1>9
  <2>2. Offers[s][a] \in Offered(s) /\ Place(s, Offers[s][a]) = a
    BY <2>1, PlaceOf
  <2>3. ~Met(r, done, Offers[s][a])
    <3>1. CASE a = i
      BY <1>2, <1>4, <3>1
    <3>2. CASE a # i
      <4>1. ~(a <= i)
        BY <1>4, <1>9, <3>2
      <4> QED
        BY <1>5, <2>2, <4>1
    <3> QED
      BY <3>1, <3>2
  <2> QED
    BY <1>6, <1>7, <2>2, <2>3
<1>10. ASSUME NEW a \in 1..(i - 1), Offers[s][a] \in op
       PROVE  done[Offers[s][a]] # <<>>
  <2>1. a \in 1..Len(Offers[s])
    BY <1>4, <1>10
  <2>2. Offers[s][a] \in Offered(s)
    BY <2>1, PlaceOf
  <2> QED
    BY <1>6, <1>8, <1>10, <2>2 DEF Met
<1>11. Turn(s, i, done, op)
  BY <1>9, <1>10 DEF Turn
<1> QED
  BY <1>2, <1>3, <1>4, <1>11 DEF Met

\* A block at the end of what an open writer holds.
LEMMA TakesMore ==
  ASSUME NEW f \in File, NEW r, r.file = f, r.open, NEW v, NEW j \in Packet, Fits(j, f),
         j.t = "DATA", NEW k, NEW g \in [File -> Seq(File \X Nat)], NEW h, TakesBlock(v, r, j, k, g, h),
         r.pos = Len(g[f]), NEW done, done[f] = <<>>, Stored(f, done, g), NEW op, f \in op
  PROVE  h = g \/ Grows(done, g, h, op)
<1> DEFINE a == Len(g[f])
           b == j.n
           c == a + b
<1>1. a \in Nat /\ b \in Nat /\ Actual[f] \in Nat
  BY FileAssumption DEF Packet
<1>2. /\ j.f = f /\ j.off = a /\ c <= Actual[f]
      /\ h = [g EXCEPT ![f] = g[f] \o Content(f, a, b)]
  BY DEF Fits, TakesBlock
<1>3. g[f] = Content(f, 0, a)
  BY DEF Stored
<1> HIDE DEF a, b
<1>4. Content(f, 0, a) \o Content(f, a, b) = Content(f, 0, c)
  BY <1>1, ContentGrows
<1>5. h = [g EXCEPT ![f] = Content(f, 0, c)]
  BY <1>2, <1>3, <1>4
<1>6. c \in Nat /\ (b = 0 => c = a) /\ (b # 0 => c \in (a + 1)..Actual[f])
  BY <1>1, <1>2
<1> HIDE DEF c
<1>7. CASE b = 0
  BY <1>3, <1>5, <1>6, <1>7
<1>8. CASE b # 0
  BY <1>5, <1>6, <1>8 DEF Grows, a
<1> QED
  BY <1>7, <1>8

\* Whatever a receiver does with a packet, it is one of these.
LEMMA ReceiveMoves ==
  ASSUME NEW s \in Peer, NEW n \in Seq(Packet), NEW m, NEW t \in TxType, NEW r,
         Phase(s, n, m, t, r), NEW done \in [File -> Seq(Outcome)], NEW op, Ordered(s, n, t),
         Level(s, n, t, r, done, op), NEW g \in [File -> Seq(File \X Nat)], Wire(s, n, m, t, g),
         NEW live, Standing(r, live, g), AllStored(s, done, g), Usable(t), Unheard(op, done),
         r.open => r.file \in op, NEW v, NEW nn, NEW k, NEW next, NEW h, NEW nop,
         ReceiveStep(r, v, n, nn, k, done, next, g, h, op, nop)
  PROVE  ReceiveMove(s, done, next, g, h, op, nop)
<1>1. /\ t.state \in TxState /\ Offered(s) \subseteq File
      /\ {"Skip", "Defer", "Range", "Write", "SenderSkip", "nil"} \subseteq Outcome
  BY OfferedApart DEF TxType, Outcome
<1>2. ASSUME r.open
      PROVE  /\ r.state = "Data" /\ r.file \in Offered(s) /\ r.file \in File
             /\ r.file \in op /\ done[r.file] = <<>> /\ r.file \notin BadOffer
  BY <1>1, <1>2 DEF Level, Unheard
<1>3. ASSUME r.open, NEW o \in {"Write", "SenderSkip", "nil"}, next = Complete(done, r.file, o),
             o = "nil" => Len(g[r.file]) >= Actual[r.file]
      PROVE  Ends(s, done, next, g, op)
  <2>1. PICK i \in 1..Len(Offers[s]) : Offers[s][i] = r.file
    BY <1>2, <1>3 DEF Offered
  <2> QED
    BY <1>1, <1>2, <1>3, <2>1 DEF Ends
<1>4. CASE next = done /\ h = g /\ nop = op
  BY <1>4 DEF ReceiveMove
<1>5. ASSUME NEW j, Took(n, nn, j, "FINFO"), Refuses(v, r, j, k, done, next), h = g, nop = op
      PROVE  ReceiveMove(s, done, next, g, h, op, nop)
  <2>1. PICK i \in 1..Len(Offers[s]) : /\ Offers[s][i] = j.f /\ Turn(s, i, done, op)
                                       /\ j.f \notin BadOffer /\ done[j.f] = <<>>
    BY <1>5, NewTurn DEF Refuses
  <2>2. PICK o \in {"Skip", "Defer", "Range"} : next = Complete(done, j.f, o)
    BY <1>5 DEF Refuses
  <2>3. Ends(s, done, next, g, op)
    BY <1>1, <2>1, <2>2 DEF Ends
  <2> QED
    BY <1>5, <2>3 DEF ReceiveMove
<1>6. ASSUME NEW j, Took(n, nn, j, "FINFO"), OpensFile(v, r, j, k, g, h), next = done,
             nop = op \cup {j.f}
      PROVE  ReceiveMove(s, done, next, g, h, op, nop)
  <2>1. PICK i \in 1..Len(Offers[s]) : /\ Offers[s][i] = j.f /\ Turn(s, i, done, op)
                                       /\ j.f \notin BadOffer
    <3>1. j.f \in File /\ r.state = "Finfo" /\ j.f # r.refused
      BY <1>6 DEF OpensFile
    <3> QED
      BY <1>6, <3>1, NewTurn
  <2>2. v.pos \in Nat /\ h = [g EXCEPT ![j.f] = Content(j.f, 0, v.pos)]
    BY <1>6, HandlerAssumption DEF OpensFile
  <2>3. Accepts(s, done, g, h, op, nop)
    BY <1>6, <2>1, <2>2 DEF Accepts
  <2> QED
    BY <1>6, <2>3 DEF ReceiveMove
<1>7. ASSUME NEW j, FailsToWrite(v, r, j, k, done, next), h = g, nop = op
      PROVE  ReceiveMove(s, done, next, g, h, op, nop)
  <2>1. Ends(s, done, next, g, op)
    BY <1>3, <1>7 DEF FailsToWrite
  <2> QED
    BY <1>7, <2>1 DEF ReceiveMove
<1>8. ASSUME NEW j, Took(n, nn, j, "DATA"), TakesBlock(v, r, j, k, g, h), next = done, nop = op
      PROVE  ReceiveMove(s, done, next, g, h, op, nop)
  <2>1. CASE ~r.open
    BY <1>4, <1>8, <2>1 DEF TakesBlock
  <2>2. CASE r.open
    <3> DEFINE f == r.file
    <3>1. /\ j \in Among(n) /\ j \in Packet /\ j.t = "DATA" /\ j.off = r.pos
          /\ r.state = "Data" /\ f \in Offered(s) /\ f \in File /\ f \in op /\ done[f] = <<>>
      BY <1>2, <1>8, <2>2, TookVoid, AmongPackets DEF TakesBlock
    <3>2. Fits(j, f)
      BY <1>1, <3>1, Underway DEF Wire
    <3>3. r.pos = Len(g[f]) /\ Stored(f, done, g)
      BY <2>2, <3>1 DEF Standing, AllStored
    <3>4. r.file = f
      OBVIOUS
    <3> HIDE DEF f
    <3>5. h = g \/ Grows(done, g, h, op)
      BY <1>8, <2>2, <3>1, <3>2, <3>3, <3>4, TakesMore
    <3> QED
      BY <1>8, <3>5 DEF ReceiveMove
  <2> QED
    BY <2>1, <2>2
<1>9. ASSUME NEW j, Took(n, nn, j, "EOF"), ClosesFile(v, r, j, k, done, next), h = g, nop = op
      PROVE  ReceiveMove(s, done, next, g, h, op, nop)
  <2>1. PICK o \in {"SenderSkip", "nil"} :
          /\ IF j.off < 0 THEN o = "SenderSkip" ELSE o = "nil" /\ j.off = r.pos
          /\ next = IF r.open THEN Complete(done, r.file, o) ELSE done
    BY <1>9 DEF ClosesFile
  <2>2. CASE ~r.open
    BY <1>4, <1>9, <2>1, <2>2
  <2>3. CASE r.open
    <3>1. j \in Among(n) /\ j.t = "EOF" /\ j.off \in Int
      BY <1>9, TookVoid, AmongPackets
    <3>2. o = "nil" => Len(g[r.file]) >= Actual[r.file]
      <4>1. SUFFICES ASSUME o = "nil" PROVE Len(g[r.file]) >= Actual[r.file]
        OBVIOUS
      <4>2. j.off = r.pos /\ j.off >= 0
        BY <2>1, <3>1, <4>1
      <4>3. r.pos = Len(g[r.file])
        BY <1>2, <2>3 DEF Standing
      <4>4. t.state \in Transferring /\ r.file = Current(s, t)
        BY <1>1, <1>2, <2>3, <3>1, Underway
      <4>5. j.off >= Actual[r.file]
        BY <3>1, <4>2, <4>4 DEF Wire, Fits
      <4> QED
        BY <4>2, <4>3, <4>5
    <3>3. Ends(s, done, next, g, op)
      BY <1>3, <2>1, <2>3, <3>2
    <3> QED
      BY <1>9, <3>3 DEF ReceiveMove
  <2> QED
    BY <2>2, <2>3
<1> QED
  BY <1>4, <1>5, <1>6, <1>7, <1>8, <1>9 DEF ReceiveStep

\* It leaves what it knew of rejected offers as it was.
LEMMA MovesUnheard ==
  ASSUME NEW s \in Peer, NEW done \in [File -> Seq(Outcome)], NEW next, NEW g, NEW h, NEW op,
         NEW nop, ReceiveMove(s, done, next, g, h, op, nop), Unheard(op, done)
  PROVE  Unheard(nop, next) /\ op \subseteq nop
<1>1. CASE Accepts(s, done, g, h, op, nop) /\ next = done
  BY <1>1 DEF Accepts, Unheard
<1>2. CASE Ends(s, done, next, g, op) /\ nop = op
  BY <1>2 DEF Ends, Unheard, Complete
<1>3. CASE next = done /\ nop = op
  BY <1>3
<1> QED
  BY <1>1, <1>2, <1>3 DEF ReceiveMove

\* What a sender's handler is told in one step.
Calls(told, next, f, o) ==
    /\ next[f] = Append(told[f], o)
    /\ f \in BadOffer => o \in {"TooLarge", "Aborted"}
Tidings(told, next) ==
    \A f \in File : next[f] = told[f] \/ \E o \in Outcome : Calls(told, next, f, o)

\* A sender tells of its pending offer, or of the ones it rejects.
LEMMA SendTidings ==
  ASSUME NEW s, NEW t \in TxType, NEW u, NEW n, NEW m, NEW mm, NEW k,
         NEW told \in [File -> Seq(Outcome)], NEW next,
         SendStep(s, t, u, n, m, mm, k, told, next), Usable(t)
  PROVE  Tidings(told, next)
<1>1. ASSUME NEW o \in Outcome, next = Complete(told, t.offer, o)
      PROVE  Tidings(told, next)
  <2> SUFFICES ASSUME NEW f \in File
               PROVE  next[f] = told[f] \/ (f = t.offer /\ next[f] = Append(told[f], o))
    BY DEF Tidings, Calls, Usable
  <2> QED
    BY <1>1, CompleteTells
<1>2. {"TooLarge", "Skip", "Defer", "nil"} \subseteq Outcome /\ t.err \in Outcome
  BY DEF Outcome, TxType
<1>3. CASE next = told
  BY <1>3 DEF Tidings
<1>4. CASE AnnouncesNext(s, u, t, k, told, next)
  BY <1>2, <1>4 DEF AnnouncesNext, Tidings, Calls
<1>5. CASE HearsFinfoAck(u, t, m, mm, told, next) /\ next # told
  <2>1. PICK o \in {"Skip", "Defer"} : next = Complete(told, t.offer, o)
    BY <1>5 DEF HearsFinfoAck
  <2> QED
    BY <1>1, <1>2, <2>1
<1>6. CASE HearsEOFAck(u, t, m, mm, told, next)
  <2>1. eofOutcome(t) \in Outcome /\ next = Complete(told, t.offer, eofOutcome(t))
    BY <1>2, <1>6 DEF HearsEOFAck, eofOutcome
  <2> QED
    BY <1>1, <2>1
<1> QED
  BY <1>3, <1>4, <1>5, <1>6 DEF SendStep

\* One step tells a sender's handler or a receiver's, never both: what a machine
\* hears from the other peer is for one of them only.
LEMMA OneHandler ==
  ASSUME NEW s, NEW t, NEW u, NEW n, NEW m \in Seq(Packet), NEW mm, NEW k, NEW told, NEW next,
         SendStep(s, t, u, n, m, mm, k, told, next), next # told,
         NEW r, NEW v, NEW done, NEW after, NEW g, NEW h, NEW op, NEW nop,
         ReceiveStep(r, v, m, mm, k, done, after, g, h, op, nop)
  PROVE  after = done /\ h = g /\ nop = op
<1>1. ASSUME NEW j, Took(m, mm, j, "FINFO") \/ Took(m, mm, j, "DATA") \/ Took(m, mm, j, "EOF")
      PROVE  FALSE
  <2>1. m # <<>> /\ mm = Tail(m) /\ Head(m).t \in Forward
    BY <1>1 DEF Took, Forward
  <2>2. mm # m
    BY <2>1, EmptySeq, LenProperties, HeadTailProperties
  <2>3. ~\E i : Took(m, mm, i, "FINFOACK") \/ Took(m, mm, i, "EOFACK")
    BY <2>1 DEF Took, Forward
  <2> QED
    BY <2>2, <2>3 DEF SendStep, HearsFinfoAck, HearsEOFAck
<1> QED
  BY <1>1 DEF ReceiveStep

\* One call is some call.
LEMMA SomeCall ==
  ASSUME NEW x, Len(x) = 1
  PROVE  x # <<>>
<1>1. Len(<<>>) = 0
  OBVIOUS
<1> QED
  BY <1>1

\* A sender hears of a file once, in the order of its offers.
LEMMA ToldInTurn ==
  ASSUME SentInv, SentInv', NEW p \in Peer, NEW i \in 1..Len(Offers[p]), NEW o \in Outcome,
         sDone'[Offers[p][i]] = Append(sDone[Offers[p][i]], o)
  PROVE  /\ sDone[Offers[p][i]] = <<>> /\ sDone'[Offers[p][i]] = <<o>>
         /\ \A a \in 1..(i - 1) : sDone'[Offers[p][a]] # <<>>
<1> DEFINE f == Offers[p][i]
           t == tx'[p]
<1>1. /\ f \in File /\ Len(Offers[p]) \in Nat
      /\ \A a \in 1..Len(Offers[p]) : Offers[p][a] # NoFile
  BY OffersAreFiles
<1>2. sDone[f] \in Seq(Outcome) /\ sDone'[f] \in Seq(Outcome) /\ Len(sDone'[f]) <= 1
  <2>1. sDone \in [File -> Seq(Outcome)] /\ sDone' \in [File -> Seq(Outcome)]
    BY DEF SentInv, TypeOK, HistoryOK
  <2>2. sDone'[f] = <<>> \/ Len(sDone'[f]) = 1
    BY DEF SentInv, Ledger
  <2> QED
    BY <1>1, <2>1, <2>2
<1>3. sDone[f] = <<>> /\ sDone'[f] = <<o>>
  <2> DEFINE x == sDone[f]
             y == sDone'[f]
  <2>1. y = Append(x, o) /\ x \in Seq(Outcome) /\ Len(y) <= 1
    BY <1>2
  <2> HIDE DEF x, y
  <2>2. Len(y) = Len(x) + 1 /\ Len(x) \in Nat
    BY <2>1, AppendProperties, LenProperties
  <2>3. x = <<>>
    BY <2>1, <2>2, EmptySeq
  <2>4. y = <<o>>
    BY <2>1, <2>3
  <2> QED
    BY <2>3, <2>4 DEF x, y
<1>4. i < t.next /\ f # t.offer
  <2>1. i >= t.next \/ f = t.offer => sDone'[f] = <<>>
    BY DEF SentInv, Ledger
  <2>2. t.next \in Nat
    BY DEF SentInv, TypeOK, MachinesOK, TxType
  <2> QED
    BY <1>3, <2>1, <2>2
<1>5. t.offer # NoFile => t.next \in 2..(Len(Offers[p]) + 1) /\ t.offer = Offers[p][t.next - 1]
  <2>1. t.offer # NoFile => res'[p] = "run"
    BY DEF SentInv, Shape
  <2>2. t.offer # NoFile => TxShape(p, t)
    BY <2>1 DEF SentInv, Shape
  <2> QED
    BY <1>1, <2>2 DEF TxShape
<1> HIDE DEF t
<1>6. ASSUME NEW a \in 1..(i - 1)
      PROVE  sDone'[Offers[p][a]] # <<>>
  <2>1. a \in 1..Len(Offers[p]) /\ a < i
    BY <1>1, <1>6
  <2>2. Offers[p][a] # t.offer
    <3> SUFFICES ASSUME Offers[p][a] = t.offer PROVE FALSE
      OBVIOUS
    <3>1. t.next \in 2..(Len(Offers[p]) + 1) /\ Offers[p][a] = Offers[p][t.next - 1]
      BY <1>1, <1>5, <2>1
    <3>2. t.next - 1 \in 1..Len(Offers[p])
      BY <1>1, <3>1
    <3>3. a = t.next - 1
      BY <2>1, <3>1, <3>2, OnePlace
    <3> QED
      BY <1>4, <2>1, <3>1, <3>3
  <2>3. ~(a >= t.next)
    <3>1. t.next \in Nat
      BY DEF t, SentInv, TypeOK, MachinesOK, TxType
    <3> QED
      BY <1>4, <2>1, <3>1
  <2>4. Len(sDone'[Offers[p][a]]) = 1
    BY <2>1, <2>2, <2>3 DEF t, SentInv, Ledger
  <2> QED
    BY <2>4, SomeCall
<1> QED
  BY <1>3, <1>6

\* What a sender is told, its receiver was told before; an abort aside.
LEMMA TellsContract ==
  ASSUME SentInv, SentInv', AcceptedInv, VerdictInv', Tidings(sDone, sDone'),
         \/ rDone' = rDone
         \/ \A f \in File : sDone'[f] = sDone[f] \/ sDone'[f] = Append(sDone[f], "Aborted"),
         NEW s \in Peer, NEW i \in 1..Len(Offers[s]), NEW f, f = Offers[s][i]
  PROVE  \/ sDone'[f] = sDone[f]
         \/ /\ sDone'[f] # <<>> /\ sDone'[f] = <<Head(sDone'[f])>>
            /\ Delivery!MayTell(s, i, Head(sDone'[f]))
<1>1. f \in File /\ f \in Offered(s)
  BY OffersAreFiles DEF Offered
<1> SUFFICES ASSUME sDone'[f] # sDone[f]
             PROVE  /\ sDone'[f] # <<>> /\ sDone'[f] = <<Head(sDone'[f])>>
                    /\ Delivery!MayTell(s, i, Head(sDone'[f]))
  OBVIOUS
<1>2. PICK o \in Outcome : Calls(sDone, sDone', f, o) /\ (o = "Aborted" \/ rDone' = rDone)
  <2>1. CASE rDone' = rDone
    BY <1>1, <2>1 DEF Tidings
  <2>2. CASE \A e \in File : sDone'[e] = sDone[e] \/ sDone'[e] = Append(sDone[e], "Aborted")
    BY <1>1, <2>2 DEF Calls, Outcome
  <2> QED
    BY <2>1, <2>2
<1>3. /\ sDone[f] = <<>> /\ sDone'[f] = <<o>>
      /\ \A a \in 1..(i - 1) : sDone'[Offers[s][a]] # <<>>
  BY <1>2, ToldInTurn DEF Calls
<1>4. Head(sDone'[f]) = o /\ sDone'[f] # <<>>
  BY <1>3
<1> SUFFICES Delivery!MayTell(s, i, o)
  BY <1>3, <1>4
<1>5. CASE o = "Aborted"
  BY <1>3, <1>5 DEF Delivery!MayTell
<1>6. CASE o # "Aborted" /\ f \in BadOffer
  <2>1. o = "TooLarge" /\ f \notin opened /\ rDone[f] = <<>>
    BY <1>2, <1>6 DEF AcceptedInv, Unheard, Calls
  <2> QED
    BY <1>3, <1>6, <2>1 DEF Delivery!MayTell, Delivery!Reached
<1>7. CASE o # "Aborted" /\ f \notin BadOffer
  <2>1. Compatible(o, rDone[f])
    <3>1. AllAgreed(s, sDone', rDone') /\ rDone' = rDone
      BY <1>2, <1>7 DEF VerdictInv
    <3> QED
      BY <1>1, <1>3, <1>7, <3>1 DEF AllAgreed, Agreed
  <2>2. /\ o = "nil" => rDone[f] = <<"nil">>
        /\ o = "Defer" => rDone[f] \in {<<"Defer">>, <<"Range">>}
        /\ o = "Skip" => rDone[f] \in {<<"Skip">>, <<"Write">>}
        /\ o = "TooLarge" => rDone[f] \in {<<"SenderSkip">>, <<"Write">>}
        /\ o \notin {"nil", "Defer", "Skip", "TooLarge"} =>
              rDone[f] \in {<<"SenderSkip">>, <<"Write">>, <<"nil">>}
    BY <1>7, <2>1 DEF Compatible
  <2> QED
    BY <1>3, <1>7, <2>2 DEF Delivery!MayTell
<1> QED
  BY <1>5, <1>6, <1>7

\* FileDelivery's names for these things.
LEMMA SameNames ==
  /\ DOMAIN Offers = Peer /\ \A s \in Peer : DOMAIN Offers[s] = 1..Len(Offers[s])
  /\ \A f, n : Delivery!Prefix(f, n) = [i \in 1..n |-> <<f, i>>]
  /\ \A f : \A n \in Nat : Delivery!Prefix(f, n) = Content(f, 0, n) /\ Len(Content(f, 0, n)) = n
  /\ \A s, i : Delivery!Due(s, i) <=> Turn(s, i, rDone, opened)
<1>1. DOMAIN Offers = Peer /\ \A s \in Peer : DOMAIN Offers[s] = 1..Len(Offers[s])
  BY OffersAreFiles, OfferAssumption
<1>2. ASSUME NEW f, NEW n \in Nat
      PROVE  Delivery!Prefix(f, n) = Content(f, 0, n) /\ Len(Content(f, 0, n)) = n
  <2>1. \A i \in 1..n : 0 + i = i
    OBVIOUS
  <2> QED
    BY <2>1, ContentGrows DEF Delivery!Prefix, Content
<1>3. \A s, i : Delivery!Due(s, i) <=> Turn(s, i, rDone, opened)
  BY DEF Delivery!Due, Delivery!Reached, Turn
<1> QED
  BY <1>1, <1>2, <1>3 DEF Delivery!Prefix

\* What a receiver's handler is told of one file.
LEMMA EndsContract ==
  ASSUME rDone \in [File -> Seq(Outcome)], NEW p \in Peer, Ends(p, rDone, rDone', got, opened),
         NEW s \in Peer, NEW i \in 1..Len(Offers[s]), NEW f, f = Offers[s][i]
  PROVE  \/ rDone'[f] = rDone[f]
         \/ /\ rDone'[f] # <<>> /\ rDone'[f] = <<Head(rDone'[f])>>
            /\ Delivery!MayHear(s, i, Head(rDone'[f]))
<1>1. f \in File
  BY OffersAreFiles
<1>2. PICK a \in 1..Len(Offers[p]), o \in Outcome : LET e == Offers[p][a] IN
        /\ rDone' = Complete(rDone, e, o) /\ rDone[e] = <<>>
        /\ CASE o \in {"Skip", "Defer", "Range"} -> Turn(p, a, rDone, opened)
             [] o = "nil" -> e \in opened /\ Len(got[e]) >= Actual[e]
             [] OTHER -> e \in opened
  BY DEF Ends
<1>3. CASE f # Offers[p][a]
  BY <1>1, <1>2, <1>3 DEF Complete
<1>4. CASE f = Offers[p][a]
  <2>1. p = s /\ a = i
    BY <1>4, OnePlace
  <2>2. rDone[f] = <<>> /\ rDone'[f] = <<o>>
    BY <1>1, <1>2, <1>4 DEF Complete
  <2>3. /\ o \in {"Skip", "Defer", "Range"} => Delivery!Due(s, i)
        /\ o = "nil" => f \in opened /\ Len(got[f]) >= Actual[f]
        /\ o \notin {"Skip", "Defer", "Range", "nil"} => f \in opened
    BY <1>2, <1>4, <2>1, SameNames
  <2>4. Delivery!MayHear(s, i, o)
    BY <2>2, <2>3 DEF Delivery!MayHear
  <2>5. Head(rDone'[f]) = o /\ rDone'[f] # <<>>
    BY <2>2
  <2> QED
    BY <2>2, <2>4, <2>5
<1> QED
  BY <1>3, <1>4

\* What the two handlers are told in one step.
LEMMA SettleContract ==
  ASSUME SentInv, SentInv', AcceptedInv, VerdictInv', Tidings(sDone, sDone'),
         \/ rDone' = rDone
         \/ /\ \A f \in File : sDone'[f] = sDone[f] \/ sDone'[f] = Append(sDone[f], "Aborted")
            /\ \E p \in Peer : Ends(p, rDone, rDone', got, opened),
         opened' = opened, got' = got
  PROVE  Delivery!Settle
<1>1. rDone \in [File -> Seq(Outcome)]
  BY DEF SentInv, TypeOK, HistoryOK
<1>2. ASSUME NEW s \in Peer, NEW i \in 1..Len(Offers[s]), NEW f, f = Offers[s][i]
      PROVE  /\ \/ rDone'[f] = rDone[f]
                \/ /\ rDone'[f] # <<>> /\ rDone'[f] = <<Head(rDone'[f])>>
                   /\ Delivery!MayHear(s, i, Head(rDone'[f]))
             /\ \/ sDone'[f] = sDone[f]
                \/ /\ sDone'[f] # <<>> /\ sDone'[f] = <<Head(sDone'[f])>>
                   /\ Delivery!MayTell(s, i, Head(sDone'[f]))
  BY <1>1, <1>2, EndsContract, TellsContract
<1> QED
  BY <1>2, SameNames DEF Delivery!Settle

\* A file opened, and one that grows.
LEMMA MoveContract ==
  ASSUME SentInv, SentInv', AcceptedInv, VerdictInv', sDone' = sDone, NEW s \in Peer,
         ReceiveMove(s, rDone, rDone', got, got', opened, opened')
  PROVE  Delivery!DeliveryNext \/ UNCHANGED Delivery!delivery
<1>1. got \in [File -> Seq(File \X Nat)]
  BY DEF SentInv, TypeOK, HistoryOK
<1>2. CASE rDone' = rDone /\ got' = got /\ opened' = opened
  BY <1>2 DEF Delivery!delivery
<1>3. CASE rDone' = rDone /\ Accepts(s, rDone, got, got', opened, opened')
  <2>1. PICK i \in 1..Len(Offers[s]), n \in Nat :
          /\ Turn(s, i, rDone, opened) /\ opened' = opened \cup {Offers[s][i]}
          /\ got' = [got EXCEPT ![Offers[s][i]] = Content(Offers[s][i], 0, n)]
    BY <1>3 DEF Accepts
  <2> DEFINE f == Offers[s][i]
  <2>2. f \in File /\ got' = [got EXCEPT ![f] = Content(f, 0, n)]
    BY <2>1, OffersAreFiles
  <2> HIDE DEF f
  <2>3. got'[f] = Content(f, 0, n)
    BY <1>1, <2>2
  <2>4. Delivery!Prefix(f, Len(got'[f])) = Content(f, 0, n)
    BY <2>3, SameNames
  <2>5. got' = [got EXCEPT ![f] = Delivery!Prefix(f, Len(got'[f]))]
    BY <2>2, <2>4
  <2>6. s \in DOMAIN Offers /\ i \in DOMAIN Offers[s] /\ Delivery!Due(s, i)
    BY <2>1, SameNames
  <2>7. Delivery!Accept
    BY <1>3, <2>1, <2>5, <2>6 DEF Delivery!Accept, f
  <2> QED
    BY <2>7 DEF Delivery!DeliveryNext
<1>4. CASE rDone' = rDone /\ opened' = opened /\ Grows(rDone, got, got', opened)
  <2>0. PICK f \in File \cap opened :
          /\ rDone[f] = <<>>
          /\ \E n \in (Len(got[f]) + 1)..Actual[f] : got' = [got EXCEPT ![f] = Content(f, 0, n)]
    BY <1>4 DEF Grows
  <2>1. PICK n \in (Len(got[f]) + 1)..Actual[f] : got' = [got EXCEPT ![f] = Content(f, 0, n)]
    BY <2>0
  <2>2. n \in Nat
    <3>1. Len(got[f]) \in Nat /\ Actual[f] \in Nat
      BY <1>1, FileAssumption, LenProperties
    <3> QED
      BY <2>1, <3>1
  <2>3. Delivery!Prefix(f, n) = Content(f, 0, n)
    BY <2>2, SameNames
  <2>4. Delivery!Write
    BY <1>4, <2>0, <2>1, <2>3 DEF Delivery!Write
  <2> QED
    BY <2>4 DEF Delivery!DeliveryNext
<1>5. CASE got' = got /\ opened' = opened /\ Ends(s, rDone, rDone', got, opened)
  <2>1. Tidings(sDone, sDone')
    BY DEF Tidings
  <2>2. Delivery!Settle
    BY <1>5, <2>1, SettleContract
  <2> QED
    BY <2>2 DEF Delivery!DeliveryNext
<1> QED
  BY <1>2, <1>3, <1>4, <1>5 DEF ReceiveMove

\* What the receiver does in a step of its Run.
LEMMA RunMoves ==
  ASSUME SentInv, PhaseInv, ReceivedInv, DataInv, AcceptedInv, NEW p \in Peer, NEW t, NEW k,
         RunStep(p, t, k)
  PROVE  ReceiveMove(Other(p), rDone, rDone', got, got', opened, opened')
<1> DEFINE o == Other(p)
<1>1. o \in Peer /\ Other(o) = p /\ o # p
  BY TheOther
<1>2. /\ o \in Peer /\ net[p] \in Seq(Packet) /\ tx[o] \in TxType
      /\ rDone \in [File -> Seq(Outcome)] /\ got \in [File -> Seq(File \X Nat)]
  BY <1>1, Typed DEF SentInv, TypeOK, HistoryOK
<1>3. Phase(o, net[p], net[o], tx[o], rx[p])
  BY <1>1 DEF PhaseInv
<1>4. Ordered(o, net[p], tx[o]) /\ Level(o, net[p], tx[o], rx[p], rDone, opened)
  BY <1>1 DEF ReceivedInv
<1>5. /\ Wire(o, net[p], net[o], tx[o], got) /\ Standing(rx[p], res[p], got)
      /\ AllStored(o, rDone, got)
  BY <1>1 DEF DataInv
<1>6. Usable(tx[o]) /\ Unheard(opened, rDone) /\ (rx[p].open => rx[p].file \in opened)
  BY <1>1 DEF AcceptedInv
<1>7. ReceiveStep(rx[p], rx'[p], net[p], net'[p], k, rDone, rDone', got, got', opened, opened')
  BY DEF RunStep
<1> HIDE DEF o
<1>8. ReceiveMove(o, rDone, rDone', got, got', opened, opened')
  BY <1>2, <1>3, <1>4, <1>5, <1>6, <1>7, ReceiveMoves
<1> QED
  BY <1>8 DEF o

\* And at the end of it.
LEMMA StopEnds ==
  ASSUME SentInv, ReceivedInv, AcceptedInv, NEW p \in Peer, StopStep(p), rx[p].open
  PROVE  Ends(Other(p), rDone, rDone', got, opened)
<1> DEFINE o == Other(p)
           f == rx[p].file
<1>1. o \in Peer /\ Other(o) = p /\ o # p
  BY TheOther
<1>2. Level(o, net[p], tx[o], rx[p], rDone, opened)
  BY <1>1 DEF ReceivedInv
<1>3. f \in Offered(o) /\ f \in File /\ rDone[f] = <<>>
  BY <1>1, <1>2, OfferedApart DEF Level
<1>4. f \in opened /\ f \notin BadOffer
  BY DEF AcceptedInv, Unheard
<1>5. rDone' = Complete(rDone, f, "Aborted") /\ "Aborted" \in Outcome
  BY DEF StopStep, ReceiveStop, Outcome
<1>6. PICK i \in 1..Len(Offers[o]) : Offers[o][i] = f
  BY <1>3 DEF Offered
<1> HIDE DEF f, o
<1>7. Ends(o, rDone, rDone', got, opened)
  BY <1>3, <1>4, <1>5, <1>6 DEF Ends
<1> QED
  BY <1>7 DEF o

\* A step of a running peer keeps what is known of the accepted files, and is a
\* step of the contract.
LEMMA RunContract ==
  ASSUME SentInv, SentInv', PhaseInv, ReceivedInv, DataInv, VerdictInv', AcceptedInv,
         NEW p \in Peer, NEW t, NEW k, RunStep(p, t, k)
  PROVE  AcceptedInv' /\ (Delivery!DeliveryNext \/ UNCHANGED Delivery!delivery)
<1> DEFINE o == Other(p)
<1>1. o \in Peer /\ o # p /\ \A q \in Peer : q = p \/ q = o
  BY TheOther
<1>2. /\ tx'[o] = tx[o] /\ rx'[o] = rx[o]
      /\ SendStep(p, tx[p], t, net[o], net[p], net'[p], k, sDone, sDone')
      /\ SyncStep(tx'[p], t, rx'[p])
      /\ ReceiveStep(rx[p], rx'[p], net[p], net'[p], k, rDone, rDone', got, got', opened, opened')
  BY DEF RunStep, OtherEnd
<1>3. /\ tx[p] \in TxType /\ net[p] \in Seq(Packet)
      /\ sDone \in [File -> Seq(Outcome)] /\ rDone \in [File -> Seq(Outcome)]
  BY Typed DEF SentInv, TypeOK, HistoryOK
<1>4. ReceiveMove(o, rDone, rDone', got, got', opened, opened')
  BY RunMoves
<1>5. AcceptedInv'
  <2>1. Unheard(opened', rDone') /\ opened \subseteq opened'
    <3>1. Unheard(opened, rDone)
      BY DEF AcceptedInv
    <3> HIDE DEF o
    <3> QED
      BY <1>1, <1>3, <1>4, <3>1, MovesUnheard
  <2>2. Usable(tx'[p])
    <3>1. Usable(t)
      BY <1>2, SendUsable DEF AcceptedInv
    <3> QED
      BY <1>2, <3>1 DEF SyncStep, SameFile, Usable
  <2>3. rx'[p].open => rx'[p].file \in opened'
    BY <1>2, ReceiveOpen DEF AcceptedInv
  <2>4. Usable(tx'[o]) /\ (rx'[o].open => rx'[o].file \in opened')
    BY <1>1, <1>2, <2>1 DEF AcceptedInv
  <2> QED
    BY <1>1, <2>1, <2>2, <2>3, <2>4 DEF AcceptedInv
<1>6. CASE sDone' = sDone
  <2>1. Delivery!DeliveryNext \/ UNCHANGED Delivery!delivery
    BY <1>1, <1>4, <1>6, MoveContract
  <2> QED
    BY <1>5, <2>1
<1>7. CASE sDone' # sDone
  <2>1. rDone' = rDone /\ got' = got /\ opened' = opened
    BY <1>2, <1>3, <1>7, OneHandler
  <2>2. Tidings(sDone, sDone')
    <3>1. Usable(tx[p])
      BY DEF AcceptedInv
    <3> QED
      BY <1>2, <1>3, <3>1, SendTidings
  <2>3. Delivery!Settle
    BY <2>1, <2>2, SettleContract
  <2> QED
    BY <1>5, <2>3 DEF Delivery!DeliveryNext
<1> QED
  BY <1>6, <1>7

\* And so is the end of a Run.
LEMMA StopContract ==
  ASSUME SentInv, SentInv', ReceivedInv, VerdictInv', AcceptedInv, NEW p \in Peer, StopStep(p)
  PROVE  AcceptedInv' /\ (Delivery!DeliveryNext \/ UNCHANGED Delivery!delivery)
<1> DEFINE o == Other(p)
<1>1. o \in Peer /\ o # p /\ \A q \in Peer : q = p \/ q = o
  BY TheOther
<1>2. /\ tx'[o] = tx[o] /\ rx'[o] = rx[o]
      /\ SendStop(tx'[p], tx[p], net[p], net'[p], sDone, sDone')
      /\ ReceiveStop(rx'[p], rx[p], net'[p], rDone, rDone', got, got', opened, opened')
  BY DEF StopStep, OtherEnd
<1>3. /\ sDone \in [File -> Seq(Outcome)] /\ rDone \in [File -> Seq(Outcome)]
      /\ opened' = opened /\ got' = got /\ ~rx'[p].open
      /\ tx'[p].offer = NoFile /\ tx'[p].lastFinfo = tx[p].lastFinfo
  BY <1>2 DEF SentInv, TypeOK, HistoryOK, SendStop, ReceiveStop, Shut
<1>4. rDone' = rDone \/ Ends(o, rDone, rDone', got, opened)
  <2>1. CASE rx[p].open
    BY <2>1, StopEnds
  <2>2. CASE ~rx[p].open
    BY <1>2, <2>2 DEF ReceiveStop
  <2> QED
    BY <2>1, <2>2
<1>5. AcceptedInv'
  <2>1. Unheard(opened', rDone')
    <3>1. ReceiveMove(o, rDone, rDone', got, got', opened, opened')
      BY <1>3, <1>4 DEF ReceiveMove
    <3>2. Unheard(opened, rDone)
      BY DEF AcceptedInv
    <3> HIDE DEF o
    <3> QED
      BY <1>1, <1>3, <3>1, <3>2, MovesUnheard
  <2>2. Usable(tx'[p])
    BY <1>3, MarkerAssumption, FileAssumption DEF AcceptedInv, Usable
  <2>3. Usable(tx'[o]) /\ (rx'[o].open => rx'[o].file \in opened')
    BY <1>1, <1>2, <1>3 DEF AcceptedInv
  <2> QED
    BY <1>1, <1>3, <2>1, <2>2, <2>3 DEF AcceptedInv
<1>6. \A f \in File : sDone'[f] = sDone[f] \/ sDone'[f] = Append(sDone[f], "Aborted")
  <2>1. CASE tx[p].offer = NoFile
    BY <1>2, <2>1 DEF SendStop
  <2>2. CASE tx[p].offer # NoFile
    <3> DEFINE e == tx[p].offer
    <3>1. sDone' = Complete(sDone, e, "Aborted")
      BY <1>2, <2>2 DEF SendStop
    <3> HIDE DEF e
    <3> QED
      BY <1>3, <3>1 DEF Complete
  <2> QED
    BY <2>1, <2>2
<1>7. Tidings(sDone, sDone')
  BY <1>6 DEF Tidings, Calls, Outcome
<1>8. Delivery!Settle
  <2> HIDE DEF o
  <2> QED
    BY <1>1, <1>3, <1>4, <1>6, <1>7, SettleContract
<1> QED
  BY <1>5, <1>8 DEF Delivery!DeliveryNext

\* Nothing is known at the start.
LEMMA InitContract == Init => AcceptedInv /\ Delivery!DeliveryInit
<1>1. NoFile \notin BadOffer
  BY MarkerAssumption, FileAssumption
<1> QED
  BY <1>1, FileAssumption
     DEF Init, newTx, newRx, AcceptedInv, Usable, Unheard, Delivery!DeliveryInit

\* Every step is one of these.
LEMMA NextContract ==
  ASSUME Patient, SentInv, SentInv', HandshakeInv, PhaseInv, ReceivedInv, DataInv, VerdictInv',
         AcceptedInv, [Next]_vars
  PROVE  AcceptedInv' /\ (Delivery!DeliveryNext \/ UNCHANGED Delivery!delivery)
<1>1. CASE UNCHANGED <<tx, rx, net, res, sDone, rDone, opened, got>>
  BY <1>1 DEF AcceptedInv, Delivery!delivery
<1>2. CASE \E p \in Peer : (\E t, k : RunStep(p, t, k)) \/ StopStep(p)
  BY <1>2, RunContract, StopContract
<1> QED
  BY <1>1, <1>2, NextMoves

\* The batch implements the handlers' contract (NextFile, AcceptFile, the
\* writers and both FileCompleted, hydra.go): files are accepted in their turn
\* and one at a time, writers grow by what was sent, each side is told how a
\* file ended once, and the sender only what its receiver was told before.
THEOREM ContractKept ==
  ASSUME Patient
  PROVE  Spec => HandlerContract
<1> DEFINE Inv == SentInv /\ HandshakeInv /\ PhaseInv /\ ReceivedInv /\ DataInv /\ VerdictInv
                  /\ AcceptedInv
<1>1. Init => Inv /\ Delivery!DeliveryInit
  BY InitSent, InitHandshake, InitPhase, InitReceived, InitData, InitVerdict, InitContract
<1>2. Inv /\ [Next]_vars => Inv'
  BY NextSent, NextHandshake, NextPhase, NextReceived, NextData, NextVerdict, NextContract
<1>3. Inv /\ Inv' /\ [Next]_vars => [Delivery!DeliveryNext]_(Delivery!delivery)
  BY NextContract
<1> HIDE DEF Inv
<1> QED
  BY <1>1, <1>2, <1>3, PTL DEF Spec, HandlerContract, Delivery!DeliverySpec

=============================================================================
