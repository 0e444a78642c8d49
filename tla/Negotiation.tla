---------------------------- MODULE Negotiation -----------------------------
(***************************************************************************)
(* The INIT negotiation (hydra.go, caps.go, rx.go): what each end makes of *)
(* its own configuration and the peer's INIT.  A capability is its code;   *)
(* window sizes are cut to the width of their INIT field.                  *)
(***************************************************************************)
EXTENDS Integers

CONSTANTS
    Word,           \* 2^32: values of an INIT window field
    SafeMaxOffset   \* 2^31 - 2 in the code

ASSUME NegotiationAssumption ==
    Word \in Nat /\ SafeMaxOffset \in Nat \ {0} /\ SafeMaxOffset < Word

capOrder == {"XON", "TLN", "CTL", "HIC", "HI8", "BRK", "ASC", "UUE", "C32", "DEV", "FPT"}
capDefaultSupported == {"XON", "TLN", "CTL", "HIC", "HI8", "C32", "DEV", "FPT"}
capAssumed == {"XON", "TLN", "CTL", "HIC", "HI8"}
capUnion == {"ASC", "UUE", "C32", "DEV"}
capEscape == {"XON", "TLN", "CTL", "HIC", "HI8"}
decodeOnly == {"ASC", "UUE"}

\* The codes a Config lists may be anything; an empty list means the default.
Config == [supported : SUBSET STRING, desired : SUBSET STRING, txWindow : Nat, rxWindow : Nat]

parseCaps(codes) == codes \cap capOrder

localSupported(c) ==
    (IF c.supported = {} THEN capDefaultSupported ELSE parseCaps(c.supported)) \ decodeOnly

localDesired(c) ==
    IF c.desired = {} THEN {"FPT"} ELSE parseCaps(c.desired) \ decodeOnly

\* The INIT that an end with configuration c sends.
sendInit(c) ==
    [supported |-> localSupported(c), desired |-> localDesired(c),
     txWindow |-> c.txWindow % Word, rxWindow |-> c.rxWindow % Word]

\* (faulty variant) What the peer supports is not asked.
effectiveUnasked(c, p) == (localDesired(c) \cup capUnion \cup p.desired) \cap localSupported(c)

\* The option set in effect at an end with configuration c that received p.
effective(c, p) ==
    (localDesired(c) \cup capUnion \cup p.desired) \cap p.supported \cap localSupported(c)

\* The vital check; without it negotiate returns ErrIncompatible.
compatible(c, p) == localDesired(c) \cap capEscape \subseteq effective(c, p)

\* A window value with the sign bit set is junk.
windowField(w) == IF w > SafeMaxOffset THEN 0 ELSE w

\* (faulty variant) The local value is taken as it is.
mergeLocal(peer, local) == local

mergeWindow(peer, local) == IF local > 0 /\ (peer = 0 \/ local < peer) THEN local ELSE peer

rxWindow(c, p) == mergeWindow(windowField(p.txWindow), c.rxWindow)
txWindow(c, p) == mergeWindow(windowField(p.rxWindow), c.txWindow)

-----------------------------------------------------------------------------
(* What two ends with configurations a and b agree on.                     *)

bothCompatible(a, b) == compatible(a, sendInit(b)) /\ compatible(b, sendInit(a))

options(a, b) == effective(a, sendInit(b))

\* When both ends pass the vital check they have the same option set, with
\* every escape either of them asked for, and with no encoding that neither
\* can send (negotiate, localSupported).
SameOptions(a, b) ==
    bothCompatible(a, b) =>
        /\ options(a, b) = options(b, a)
        /\ (localDesired(a) \cup localDesired(b)) \cap capEscape \subseteq options(a, b)
        /\ options(a, b) \cap decodeOnly = {}

\* An end that stops after a window of unacknowledged bytes smaller than a
\* file can be has a peer that acknowledges every block (mergeWindow,
\* rxData): neither junk fields nor cut ones leave it waiting.
WindowServed(a, b) ==
    txWindow(a, sendInit(b)) \in 1..SafeMaxOffset => rxWindow(b, sendInit(a)) > 0

=============================================================================
