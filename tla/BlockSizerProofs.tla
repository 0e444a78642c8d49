-------------------------- MODULE BlockSizerProofs --------------------------
(***************************************************************************)
(* Theorems about BlockSizer, for any line speeds, any configured sizes    *)
(* and any number of blocks and RPOSes in flight.                          *)
(***************************************************************************)
EXTENDS BlockSizer, SequenceTheorems, TLAPS

Ladder == {64, 128, 256, 512, 1024}

\* What an RPOS proposes is a size of the ladder.
LEMMA LadderRange == \A n \in Nat : ladder(n) \in Ladder
BY DEF ladder, Ladder, minBlockSize, rposMaxBlock

\* Half a size, rounded up on the ladder, is smaller than the size.
LEMMA HalfOnLadder ==
    ASSUME NEW c \in Nat, c > 0
    PROVE ladder(c \div 2) < c \/ ladder(c \div 2) = 64
<1>1. PICK h \in Nat : h = c \div 2 /\ 2 * h <= c
  OBVIOUS
<1>2. ladder(h) < 2 * h \/ ladder(h) = 64 \/ (ladder(h) = 1024 /\ 512 < h)
  BY <1>1 DEF ladder, minBlockSize, rposMaxBlock
<1>3. ladder(h) \in Nat BY <1>1, LadderRange DEF Ladder
<1> QED BY <1>1, <1>2, <1>3

\* An RPOS that proposes a size of the ladder makes blocks smaller, or 64.
LEMMA AdoptShrinks ==
    ASSUME cur \in Nat, cur > 0, NEW p \in Ladder
    PROVE /\ adopt(p) \in Ladder
          /\ adopt(p) < cur \/ adopt(p) = 64
<1>1. CASE cur > p
  <2>1. adopt(p) = ladder(p) /\ ladder(p) = p
    BY <1>1 DEF adopt, ladder, Ladder, minBlockSize, rposMaxBlock
  <2> QED BY <1>1, <2>1
<1>2. CASE ~(cur > p)
  <2>1. adopt(p) = ladder(cur \div 2) BY <1>2 DEF adopt
  <2>2. cur \div 2 \in Nat OBVIOUS
  <2> QED BY <2>1, <2>2, HalfOnLadder, LadderRange
<1> QED BY <1>1, <1>2

-----------------------------------------------------------------------------
(* The size stays within its limits.                                       *)

SizeInv ==
    /\ cur \in Nat /\ max \in Nat /\ CapHeld
    /\ rxBlkLen \in Nat /\ data \in Seq(Nat)
    /\ rpos \in Seq(Ladder)

\* It holds at first.
LEMMA SizeInit == Init => SizeInv
<1> SUFFICES ASSUME Init PROVE SizeInv OBVIOUS
<1>1. PICK baud \in Baud :
        /\ max = maxBlk(baud, cap) /\ cur = lesser(initialBlk(baud), max)
        /\ rxBlkLen = initialBlk(baud)
  BY DEF Init
<1>2. baud \in Nat /\ cap \in Nat /\ cap > 0
  BY BlockAssumption DEF Init, BlockAssumption, DataBufMax
<1>3. initialBlk(baud) \in Nat /\ initialBlk(baud) > 0 BY <1>2 DEF initialBlk
<1>4. fromBaud(baud) \in Nat /\ fromBaud(baud) > 0
  <2>1. PICK k \in Nat : k = baud \div 300 BY <1>2
  <2> QED BY <2>1 DEF fromBaud
<1>5. max \in Nat /\ max > 0 BY <1>1, <1>2, <1>4 DEF maxBlk, lesser
<1>6. cur \in Nat /\ cur > 0 /\ cur <= max BY <1>1, <1>3, <1>5 DEF lesser
<1>7. data \in Seq(Nat) /\ rpos \in Seq(Ladder) BY DEF Init
<1> QED BY <1>1, <1>3, <1>5, <1>6, <1>7 DEF SizeInv, CapHeld

\* Every step keeps it.
LEMMA SizeStep == SizeInv /\ [Next]_vars => SizeInv'
<1> SUFFICES ASSUME SizeInv, [Next]_vars PROVE SizeInv' OBVIOUS
<1> USE DEF SizeInv, CapHeld, minBlockSize
<1>1. CASE SendData
  <2>1. PICK n \in {cur} \cup {t \in Rest : t < cur} :
          /\ good(n) /\ UNCHANGED <<max, rxBlkLen, rpos>>
          /\ data' = Append(data, n) \/ data' = data
    BY <1>1 DEF SendData
  <2>2. n \in Nat BY BlockAssumption DEF BlockAssumption
  <2>3. data' \in Seq(Nat) BY <2>1, <2>2
  <2>4. cur' = cur \/ (cur < max /\ cur' = lesser(2 * cur, max)) BY <2>1 DEF good
  <2>5. cur' \in Nat /\ cur' > 0 /\ (cur' <= max \/ cur' = 64) BY <2>4 DEF lesser
  <2> QED BY <2>1, <2>3, <2>5
<1>2. CASE ReceiveData
  <2>1. Head(data) \in Nat /\ Tail(data) \in Seq(Nat) BY <1>2, HeadTailProperties DEF ReceiveData
  <2> QED BY <1>2, <2>1 DEF ReceiveData, sizer
<1>3. CASE BadPosition
  <2>1. data' \in Seq(Nat) BY <1>3, HeadTailProperties DEF BadPosition
  <2>2. rxBlkLen' \in Nat BY <1>3 DEF BadPosition
  <2>3. rpos' \in Seq(Ladder)
    <3>1. ladder(rxBlkLen') \in Ladder BY <2>2, LadderRange
    <3>2. rpos' = Append(rpos, ladder(rxBlkLen')) BY <1>3 DEF BadPosition
    <3> QED BY <3>1, <3>2, AppendProperties
  <2> QED BY <1>3, <2>1, <2>2, <2>3 DEF BadPosition, sizer
<1>4. CASE TakeRpos
  <2>1. Head(rpos) \in Ladder /\ Tail(rpos) \in Seq(Ladder)
    BY <1>4, HeadTailProperties DEF TakeRpos
  <2>2. cur' \in Ladder /\ (cur' < cur \/ cur' = 64)
    BY <1>4, <2>1, AdoptShrinks DEF TakeRpos
  <2>3. rpos' \in Seq(Ladder) /\ UNCHANGED <<max, rxBlkLen, data>> BY <1>4, <2>1 DEF TakeRpos
  <2> QED BY <2>2, <2>3 DEF Ladder
<1>5. CASE LoseRpos
  <2>1. Tail(rpos) \in Seq(Ladder) BY <1>5, HeadTailProperties DEF LoseRpos
  <2> QED BY <1>5, <2>1 DEF LoseRpos, sizer
<1>6. CASE UNCHANGED vars BY <1>6 DEF vars, sizer
<1> QED BY <1>1, <1>2, <1>3, <1>4, <1>5, <1>6 DEF Next

\* newBlockSizer, good, rpos: whatever is lost, and whatever a go-hydra
\* receiver proposes, a block is no larger than MaxBlockSize and the line
\* speed allow, or has the smallest size an RPOS can bring about.
THEOREM CapHolds == Spec => []CapHeld
<1>1. SizeInv => CapHeld BY DEF SizeInv
<1> QED BY <1>1, SizeInit, SizeStep, PTL DEF Spec

-----------------------------------------------------------------------------
(* Growth is earned.                                                       *)

\* What good has counted has been sent since the last change; since stops
\* counting where any goodNeeded is reached.
CountInv ==
    /\ goodBytes \in Nat /\ since \in Nat /\ goodNeeded \in Nat
    /\ goodNeeded <= maxGoodNeeded
    /\ goodBytes <= since \/ since = maxGoodNeeded

\* What a block does to the sizer's counters.
LEMMA GoodCounts ==
    ASSUME SizeInv, CountInv, NEW n \in Nat, n <= cur, good(n)
    PROVE /\ goodNeeded' \in Nat /\ goodNeeded' <= maxGoodNeeded
          /\ \/ cur' = cur /\ goodBytes' \in Nat /\ goodBytes' <= goodBytes + n
             \/ cur' # cur /\ goodBytes' = 0 /\ since + cur >= goodNeeded
<1> USE DEF SizeInv, CapHeld, CountInv, maxGoodNeeded
<1>1. CASE cur >= max BY <1>1 DEF good
<1>2. CASE cur < max /\ goodBytes + n < goodNeeded BY <1>2 DEF good, total
<1>3. CASE cur < max /\ goodBytes + n >= goodNeeded
  <2>1. cur' = lesser(2 * cur, max) /\ goodBytes' = 0
        /\ goodNeeded' = IF 2 * cur >= max THEN 0 ELSE goodNeeded
    BY <1>3 DEF good, total
  <2>2. cur' # cur BY <1>3, <2>1 DEF lesser
  <2>3. since + cur >= goodNeeded BY <1>3
  <2>4. goodNeeded' \in Nat /\ goodNeeded' <= 8192 BY <2>1
  <2> QED BY <2>1, <2>2, <2>3, <2>4
<1> QED BY <1>1, <1>2, <1>3

\* Every step keeps the count, given the sizes.
LEMMA CountStep == SizeInv /\ CountInv /\ [Next]_vars => CountInv'
<1> SUFFICES ASSUME SizeInv, CountInv, [Next]_vars PROVE CountInv' OBVIOUS
<1> USE DEF CountInv, maxGoodNeeded
<1>1. CASE SendData
  <2>1. PICK n \in {cur} \cup {t \in Rest : t < cur} :
          /\ good(n)
          /\ since' = IF cur' = cur THEN lesser(since + n, 8192) ELSE 0
    BY <1>1 DEF SendData
  <2>2. n \in Nat /\ n <= cur BY BlockAssumption DEF BlockAssumption, SizeInv
  <2>3. /\ goodNeeded' \in Nat /\ goodNeeded' <= maxGoodNeeded
        /\ \/ cur' = cur /\ goodBytes' \in Nat /\ goodBytes' <= goodBytes + n
           \/ cur' # cur /\ goodBytes' = 0 /\ since + cur >= goodNeeded
    BY <2>1, <2>2, GoodCounts
  <2>4. CASE cur' = cur
    <3>1. since' = lesser(since + n, 8192) BY <2>1, <2>4
    <3> QED BY <2>2, <2>3, <2>4, <3>1 DEF lesser
  <2>5. CASE cur' # cur BY <2>1, <2>3, <2>5
  <2> QED BY <2>4, <2>5
<1>2. CASE TakeRpos BY <1>2 DEF TakeRpos, startOver, lesser
<1>3. CASE ReceiveData \/ BadPosition \/ LoseRpos \/ UNCHANGED vars
  BY <1>3 DEF ReceiveData, BadPosition, LoseRpos, vars, sizer
<1> QED BY <1>1, <1>2, <1>3 DEF Next

\* A step that enlarges the block has the bytes counted.
LEMMA EarnedStep ==
    ASSUME SizeInv, CountInv, Next, cur' > cur
    PROVE \/ cur' = minBlockSize
          \/ rpos' = rpos /\ since + cur >= goodNeeded
<1>1. CASE SendData
  <2>1. PICK n \in {cur} \cup {t \in Rest : t < cur} : good(n) /\ rpos' = rpos
    BY <1>1 DEF SendData
  <2>2. n \in Nat /\ n <= cur BY BlockAssumption DEF BlockAssumption, SizeInv
  <2>3. cur' # cur BY DEF SizeInv
  <2> QED BY <2>1, <2>2, <2>3, GoodCounts
<1>2. CASE TakeRpos
  <2>1. Head(rpos) \in Ladder BY <1>2, HeadTailProperties DEF TakeRpos, SizeInv
  <2>2. cur' \in Ladder /\ (cur' < cur \/ cur' = 64)
    BY <1>2, <2>1, AdoptShrinks DEF TakeRpos, SizeInv, CapHeld
  <2> QED BY <2>2 DEF SizeInv, Ladder, minBlockSize
<1>3. CASE ReceiveData \/ BadPosition \/ LoseRpos
  BY <1>3 DEF ReceiveData, BadPosition, LoseRpos, sizer, SizeInv
<1> QED BY <1>1, <1>2, <1>3 DEF Next

\* good, rpos: an RPOS never enlarges the blocks above the floor, and a
\* block that does has been preceded by goodNeeded bytes.
THEOREM GrowthEarned == Spec => Earned
<1>1. Init => CountInv BY DEF Init, CountInv, maxGoodNeeded, defaultGoodNeeded
<1>2. SizeInv /\ CountInv /\ [Next]_vars =>
        [cur' > cur => \/ cur' = minBlockSize
                       \/ rpos' = rpos /\ since + cur >= goodNeeded]_vars
  BY EarnedStep
<1> QED BY <1>1, <1>2, SizeInit, SizeStep, CountStep, PTL DEF Spec, Earned

=============================================================================
