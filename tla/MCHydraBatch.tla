---------------------------- MODULE MCHydraBatch ----------------------------
(***************************************************************************)
(* Constants for the model-checking runs of HydraBatch.  Files a1, a2 and  *)
(* a3 are the originator's, b1 is the answerer's.                          *)
(***************************************************************************)
EXTENDS HydraBatch

CONSTANTS a1, a2, a3, b1

NoOffers == [p \in Peer |-> <<>>]
TwoFiles == [p \in Peer |-> IF p = ORG THEN <<a1, a2>> ELSE <<>>]
\* a3 is the offer that cannot be sent.
TwoAndBad == [p \in Peer |-> IF p = ORG THEN <<a1, a3, a2>> ELSE <<>>]
BothWays == [p \in Peer |-> IF p = ORG THEN <<a1>> ELSE <<b1>>]

Ones == [f \in File |-> 1]
Twos == [f \in File |-> 2]
ThreeTwo == [f \in File |-> IF f = a1 THEN 3 ELSE 2]

\* Every file announces two units; a1's source outgrew them, and the offset
\* range, and a2's shrank.
Held == [f \in File |-> IF f = a1 THEN 3 ELSE 1]

NoWindow == [p \in Peer |-> 0]
WindowAns == [p \in Peer |-> IF p = ANS THEN 1 ELSE 0]

\* Datagrams: none, one of each peer's, one of the answerer's.
DevNone == [p \in Peer |-> 0]
DevOne == [p \in Peer |-> 1]
DevAns == [p \in Peer |-> IF p = ANS THEN 1 ELSE 0]

=============================================================================
