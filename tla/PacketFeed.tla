----------------------------- MODULE PacketFeed -----------------------------
(***************************************************************************)
(* What the path from the transport to handlePacket promises, whatever it  *)
(* is built from: packets are handled in the order they arrive, each at    *)
(* most once, and none is passed over, with two exceptions.  A new batch   *)
(* may forget the oldest ones, and an overrun loses the newest one, after  *)
(* which no packet arrives any more.                                       *)
(***************************************************************************)
EXTENDS Naturals, Sequences

VARIABLES
    arrived,   \* packets numbered so far
    pending,   \* arrived and not yet handled, oldest first
    open       \* the path has not been overrun

feed == <<arrived, pending, open>>

FeedInit == arrived = 0 /\ pending = <<>> /\ open = TRUE

Arrive ==
    /\ open
    /\ arrived' = arrived + 1
    /\ pending' = Append(pending, arrived + 1)
    /\ UNCHANGED open

Handle == pending # <<>> /\ pending' = Tail(pending) /\ UNCHANGED <<arrived, open>>

Forget ==
    /\ \E n \in 1..Len(pending) : pending' = SubSeq(pending, n + 1, Len(pending))
    /\ UNCHANGED <<arrived, open>>

Overrun ==
    /\ open /\ pending # <<>>
    /\ pending' = SubSeq(pending, 1, Len(pending) - 1)
    /\ open' = FALSE
    /\ UNCHANGED arrived

FeedNext == Arrive \/ Handle \/ Forget \/ Overrun

FeedSpec == FeedInit /\ [][FeedNext]_feed

=============================================================================
