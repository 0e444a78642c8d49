----------------------------- MODULE BlockSizer -----------------------------
(***************************************************************************)
(* The size of DATA blocks (blocksize.go) at a sender and at its receiver, *)
(* both go-hydra: the sender doubles it as bytes go out, and adopts a      *)
(* smaller one when the receiver, seeing a gap, proposes it in an RPOS.    *)
(* The link may lose DATA blocks and RPOSes and keeps the order of those   *)
(* it delivers.  Sizes and thresholds are those of the code.               *)
(***************************************************************************)
EXTENDS Integers, Sequences

CONSTANTS
    Baud,       \* values of Config.EffectiveBaud, 0 meaning a fast link
    MaxCap,     \* values of Config.MaxBlockSize once defaulted
    Rest,       \* sizes of blocks cut short by the end of a file
    MaxFlight,  \* bound: blocks in flight
    MaxRpos     \* bound: RPOSes the receiver sends

DataBufMax == 2048
minBlockSize == 64
rposMaxBlock == 1024
defaultGoodNeeded == 1024
maxGoodNeeded == 8192

ASSUME BlockAssumption ==
    /\ Baud \subseteq Nat /\ MaxCap \subseteq 1..DataBufMax /\ Rest \subseteq Nat \ {0}
    /\ MaxFlight \in Nat /\ MaxRpos \in Nat

VARIABLES
    cap,         \* this sender's MaxBlockSize
    cur, max, goodBytes, goodNeeded,   \* the sender's blockSizer
    rxBlkLen,    \* the receiver's estimate of the block size
    data,        \* sizes of the DATA blocks in flight
    rpos,        \* sizes proposed by the RPOSes in flight
    asked,       \* RPOSes the receiver has sent
    since        \* bytes sent since the size last changed or an RPOS came

sizer == <<cap, cur, max, goodBytes, goodNeeded>>
vars == <<sizer, rxBlkLen, data, rpos, asked, since>>

lesser(a, b) == IF a < b THEN a ELSE b

initialBlk(baud) == IF baud > 0 /\ baud < 2400 THEN 256 ELSE 512

fromBaud(baud) == IF (baud \div 300) * 128 < 256 THEN 256 ELSE (baud \div 300) * 128

maxBlk(baud, maxCap) == IF baud > 0 THEN lesser(maxCap, fromBaud(baud)) ELSE maxCap

ladder(n) ==
    CASE n <= minBlockSize -> minBlockSize
      [] n > minBlockSize /\ n <= 128 -> 128
      [] n > 128 /\ n <= 256 -> 256
      [] n > 256 /\ n <= 512 -> 512
      [] OTHER -> rposMaxBlock

-----------------------------------------------------------------------------
\* newBlockSizer and newBatch.
Init ==
    /\ cap \in MaxCap
    /\ \E baud \in Baud :
        /\ max = maxBlk(baud, cap)
        /\ cur = lesser(initialBlk(baud), max)
        /\ rxBlkLen = initialBlk(baud)
    /\ goodBytes = 0 /\ goodNeeded = defaultGoodNeeded
    /\ data = <<>> /\ rpos = <<>> /\ asked = 0 /\ since = 0

\* (faulty variant) The running total is overwritten.
totalLast(n) == n

\* What goodBytes comes to with n more.
total(n) == goodBytes + n

good(n) ==
    \/ cur >= max /\ UNCHANGED <<cur, goodBytes, goodNeeded>>
    \/ /\ cur < max /\ total(n) < goodNeeded
       /\ goodBytes' = total(n) /\ UNCHANGED <<cur, goodNeeded>>
    \/ /\ cur < max /\ total(n) >= goodNeeded
       /\ cur' = lesser(2 * cur, max)
       /\ goodNeeded' = IF 2 * cur >= max THEN 0 ELSE goodNeeded
       /\ goodBytes' = 0

\* sendData: a full block, or what is left of the file; it may be lost.
SendData ==
    \E n \in {cur} \cup {t \in Rest : t < cur} :
        /\ good(n)
        /\ since' = IF cur' = cur THEN lesser(since + n, maxGoodNeeded) ELSE 0
        /\ \/ Len(data) < MaxFlight /\ data' = Append(data, n)
           \/ UNCHANGED data
        /\ UNCHANGED <<cap, max, rxBlkLen, rpos, asked>>

\* rxData takes a block it expects.
ReceiveData ==
    /\ data # <<>> /\ data' = Tail(data)
    /\ rxBlkLen' = Head(data)
    /\ UNCHANGED <<sizer, rpos, asked, since>>

\* badPosition asks for a block again, on seeing one from further on or the
\* EOF that was sent behind them all.
BadPosition ==
    /\ \/ data # <<>> /\ data' = Tail(data)
       \/ data = <<>> /\ UNCHANGED data
    /\ asked < MaxRpos /\ asked' = asked + 1
    /\ rxBlkLen' = rxBlkLen \div 2
    /\ rpos' = Append(rpos, ladder(rxBlkLen'))
    /\ UNCHANGED <<sizer, since>>

\* (faulty variant) A proposal is adopted even when it is larger.
adoptAny(proposed) == ladder(IF proposed > 0 THEN proposed ELSE cur \div 2)

\* The size an RPOS makes of the current one.
adopt(proposed) == ladder(IF proposed > 0 /\ cur > proposed THEN proposed ELSE cur \div 2)

\* (faulty variant) The bytes counted before the RPOS still count.
startOverKept == UNCHANGED goodBytes

startOver == goodBytes' = 0

\* txRpos.
TakeRpos ==
    /\ rpos # <<>> /\ rpos' = Tail(rpos)
    /\ cur' = adopt(Head(rpos))
    /\ startOver
    /\ goodNeeded' = lesser(goodNeeded + 1024, maxGoodNeeded)
    /\ since' = 0
    /\ UNCHANGED <<cap, max, rxBlkLen, data, asked>>

LoseRpos ==
    /\ rpos # <<>> /\ rpos' = Tail(rpos)
    /\ UNCHANGED <<sizer, rxBlkLen, data, asked, since>>

Next == SendData \/ ReceiveData \/ BadPosition \/ TakeRpos \/ LoseRpos

Spec == Init /\ [][Next]_vars

\* A sender that has something to send.
FairSpec == Spec /\ WF_vars(SendData) /\ WF_vars(TakeRpos)

-----------------------------------------------------------------------------
(* Properties.                                                             *)

\* No block is larger than the configured MaxBlockSize and than the line
\* speed allows, whatever was lost and proposed, except that an RPOS never
\* makes it smaller than 64 (rpos, ladder).
CapHeld == cur > 0 /\ (cur <= max \/ cur = minBlockSize)

\* An RPOS never enlarges blocks, and they grow only once goodNeeded bytes
\* have gone out since the last RPOS or change -- but for blocks below the
\* floor of 64 that an RPOS leads to (good, rpos).
Earned ==
    [][cur' > cur => \/ cur' = minBlockSize
                     \/ rpos' = rpos /\ since + cur >= goodNeeded]_vars

\* Once no RPOS comes any more, blocks grow back to the largest size.
Regrows == <>[](cur >= max)

=============================================================================
