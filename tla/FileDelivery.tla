---------------------------- MODULE FileDelivery ----------------------------
(***************************************************************************)
(* What a batch promises the two applications (SendHandler, RecvHandler,   *)
(* FileOffer in hydra.go), whatever the protocol does to keep it.  Files   *)
(* are accepted one at a time, in the order of the offers; a file's writer *)
(* holds a prefix of the file, grows to its end at most, and is left alone *)
(* once the file is completed; each side is told how a file ended once,    *)
(* the sender in order and only what its receiver has been told before.    *)
(***************************************************************************)
EXTENDS Naturals, Sequences

CONSTANTS
    File,
    Offers,    \* [sender -> Seq(File)]
    Rejected,  \* offers that are not even announced
    Length     \* [File -> Nat]

VARIABLES
    told,      \* [File -> the outcomes its sender was told]
    heard,     \* [File -> the outcomes its receiver was told]
    opened,    \* files accepted so far
    held       \* [File -> what its writer holds]

delivery == <<told, heard, opened, held>>

Prefix(f, n) == [i \in 1..n |-> <<f, i>>]
Reached(f) == f \in opened \/ heard[f] # <<>>

DeliveryInit ==
    /\ told = [f \in File |-> <<>>] /\ heard = [f \in File |-> <<>>]
    /\ opened = {} /\ held = [f \in File |-> <<>>]

\* The receiver's turn has come for the i-th file of s.
Due(s, i) ==
    /\ \A j \in i..Len(Offers[s]) : ~Reached(Offers[s][j])
    /\ \A j \in 1..(i - 1) : Offers[s][j] \in opened => heard[Offers[s][j]] # <<>>

\* From the start, or resumed.
Accept ==
    \E s \in DOMAIN Offers : \E i \in DOMAIN Offers[s] :
        /\ Due(s, i)
        /\ opened' = opened \cup {Offers[s][i]}
        /\ held' = [held EXCEPT ![Offers[s][i]] =
                        Prefix(Offers[s][i], Len(held'[Offers[s][i]]))]
        /\ UNCHANGED <<told, heard>>

Write ==
    \E f \in opened :
        /\ heard[f] = <<>>
        /\ \E n \in (Len(held[f]) + 1)..Length[f] : held' = [held EXCEPT ![f] = Prefix(f, n)]
        /\ UNCHANGED <<told, heard, opened>>

\* A file never opened was refused; an open one ends whole with nil (longer,
\* if it was resumed so and the source has shrunk), or short.
MayHear(s, i, o) ==
    LET f == Offers[s][i] IN
    /\ heard[f] = <<>>
    /\ CASE o \in {"Skip", "Defer", "Range"} -> Due(s, i)
         [] o = "nil" -> f \in opened /\ Len(held[f]) >= Length[f]
         [] OTHER -> f \in opened

\* A sender hears of success after the receiver, of a refusal only if the
\* receiver refused, of its own error only once the receiver is done with it.
MayTell(s, i, o) ==
    LET f == Offers[s][i] IN
    /\ told[f] = <<>>
    /\ \A j \in 1..(i - 1) : told'[Offers[s][j]] # <<>>
    /\ \/ o = "Aborted"
       \/ f \in Rejected /\ o = "TooLarge" /\ ~Reached(f)
       \/ /\ f \notin Rejected /\ o # "Aborted"
          /\ CASE o = "nil" -> heard[f] = <<"nil">>
               [] o = "Defer" -> heard[f] \in {<<"Defer">>, <<"Range">>}
               [] o = "Skip" -> heard[f] \in {<<"Skip">>, <<"Write">>}
               [] o = "TooLarge" -> heard[f] \in {<<"SenderSkip">>, <<"Write">>}
               [] OTHER -> heard[f] \in {<<"SenderSkip">>, <<"Write">>, <<"nil">>}

\* FileCompleted, for one file or, when offers are passed over or a batch
\* ends, for several.
Settle ==
    /\ \A s \in DOMAIN Offers : \A i \in DOMAIN Offers[s] :
        LET f == Offers[s][i] IN
        /\ heard'[f] = heard[f] \/ (heard'[f] # <<>> /\ heard'[f] = <<Head(heard'[f])>>
                                    /\ MayHear(s, i, Head(heard'[f])))
        /\ told'[f] = told[f] \/ (told'[f] # <<>> /\ told'[f] = <<Head(told'[f])>>
                                  /\ MayTell(s, i, Head(told'[f])))
    /\ UNCHANGED <<opened, held>>

DeliveryNext == Accept \/ Write \/ Settle

DeliverySpec == DeliveryInit /\ [][DeliveryNext]_delivery

=============================================================================
