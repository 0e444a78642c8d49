------------------------------ MODULE PktInbox ------------------------------
(***************************************************************************)
(* pktInbox (session.go): the elastic queue between the reader goroutine   *)
(* and the event loop.  The queue is guarded by a mutex, so each method's  *)
(* critical section is one step; sig is the one-slot channel that tells    *)
(* the event loop the queue may have become non-empty, and is raised in a  *)
(* step of its own after the mutex is released.  A packet is its number in *)
(* the order the reader reads them.                                        *)
(***************************************************************************)
EXTENDS Naturals, Sequences

CONSTANT InboxCap   \* inboxCap, 4096 in the code

ASSUME InboxAssumption == InboxCap \in Nat \ {0}

VARIABLES
    q,      \* in.q
    sig     \* whether in.sig holds its token

inbox == <<q, sig>>

InboxInit == q = <<>> /\ sig = FALSE

\* (faulty variant) The limit is noticed a packet too late.
fullLate == Len(q) > InboxCap

full == Len(q) >= InboxCap

\* push, up to the release of the mutex.
enqueue(p) == ~full /\ q' = Append(q, p) /\ sig' = sig

\* The send to sig that ends push; kick is the same step.
raise == sig' = TRUE /\ q' = q

\* (faulty variant) A drain that runs out of budget takes the token with it.
kickConsumes == sig' = FALSE /\ q' = q

kick == raise

\* The event loop's select receives the token.
takeToken == sig /\ sig' = FALSE /\ q' = q

tryPop(p) == q # <<>> /\ p = Head(q) /\ q' = Tail(q) /\ sig' = sig

\* The token is left alone.
reset == q' = <<>> /\ sig' = sig

=============================================================================
