--------------------------- MODULE ReceiverProofs ---------------------------
(***************************************************************************)
(* Proofs about HydraBatch that what reaches the receiving application     *)
(* reaches it once: the outcome of every file that was opened, and every   *)
(* datagram, in order; for every choice of the constants, whatever is lost *)
(* and whichever timer fires early.                                        *)
(***************************************************************************)
EXTENDS HydraBatchProofs

-----------------------------------------------------------------------------
(* The order of the packets in a channel.                                  *)

\* l comes after k; an EOF lies between them; one lies before k, or after k.
Follows(s, k, l) == \E i, j \in 1..Len(s) : i < j /\ s[i] = k /\ s[j] = l
Cut(s, k, l) == \E i, m, j \in 1..Len(s) : i < m /\ m < j /\ s[i] = k /\ s[m].t = "EOF" /\ s[j] = l
Ahead(s, k) == \E m, j \in 1..Len(s) : m < j /\ s[m].t = "EOF" /\ s[j] = k
Behind(s, k) == \E i, m \in 1..Len(s) : i < m /\ s[i] = k /\ s[m].t = "EOF"
HasEOF(s) == \E k \in Among(s) : k.t = "EOF"

\* What a longer channel, or a shorter one, keeps of the order of n, with out
\* behind it.
Extends(m, n, out) ==
    /\ \A k \in Among(m) : k \in Among(n) \/ k \in Among(out)
    /\ \A k, l : Follows(m, k, l) =>
        \/ Follows(n, k, l) \/ (k \in Among(n) /\ l \in Among(out))
        \/ k \in Among(out) /\ l \in Among(out)
    /\ \A k, l : Cut(m, k, l) =>
        \/ Cut(n, k, l) \/ (Behind(n, k) /\ l \in Among(out))
        \/ l \in Among(out) /\ HasEOF(out)
    /\ \A k : Ahead(m, k) => \/ Ahead(n, k) \/ (HasEOF(n) /\ k \in Among(out))
                             \/ k \in Among(out) /\ HasEOF(out)
    /\ \A k : Behind(m, k) => Behind(n, k) \/ HasEOF(out)
    /\ HasEOF(m) => HasEOF(n) \/ HasEOF(out)

\* An EOF in the channel, by its place.
LEMMA EOFPlace ==
  ASSUME NEW s, NEW i \in 1..Len(s), s[i].t = "EOF"
  PROVE  HasEOF(s)
  BY DEF HasEOF, Among

\* Writing out behind n.
LEMMA ExtendsConcat ==
  ASSUME NEW n \in Seq(Packet), NEW out \in Seq(Packet)
  PROVE  Extends(n \o out, n, out)
<1> DEFINE m == n \o out
           N == Len(n)
<1>1. /\ m \in Seq(Packet) /\ Len(m) = N + Len(out) /\ N \in Nat /\ Len(out) \in Nat
      /\ \A i \in 1..Len(m) : i <= N => i \in 1..N /\ m[i] = n[i]
      /\ \A i \in 1..Len(m) : i > N => i - N \in 1..Len(out) /\ m[i] = out[i - N]
  OBVIOUS
<1> HIDE DEF m, N
<1>2. \A i \in 1..Len(m) : /\ i \in Int
                           /\ i <= N => m[i] \in Among(n)
                           /\ i > N => m[i] \in Among(out)
  <2> SUFFICES ASSUME NEW i \in 1..Len(m)
               PROVE  /\ i <= N => m[i] \in Among(n)
                      /\ i > N => m[i] \in Among(out)
    OBVIOUS
  <2>1. i <= N => m[i] \in Among(n)
    BY <1>1 DEF Among, N
  <2>2. i > N => m[i] \in Among(out)
    BY <1>1 DEF Among
  <2> QED
    BY <2>1, <2>2
<1>3. \A k \in Among(m) : k \in Among(n) \/ k \in Among(out)
  <2> SUFFICES ASSUME NEW i \in 1..Len(m)
               PROVE  m[i] \in Among(n) \/ m[i] \in Among(out)
    BY DEF Among
  <2> QED
    BY <1>1, <1>2
<1>4. ASSUME NEW i \in 1..Len(m), m[i].t = "EOF"
      PROVE  /\ i <= N => HasEOF(n)
             /\ i > N => HasEOF(out)
  BY <1>2, <1>4 DEF HasEOF
<1>5. ASSUME NEW k, NEW l, Follows(m, k, l)
      PROVE  \/ Follows(n, k, l) \/ (k \in Among(n) /\ l \in Among(out))
             \/ k \in Among(out) /\ l \in Among(out)
  <2>1. PICK i \in 1..Len(m), j \in 1..Len(m) : i < j /\ m[i] = k /\ m[j] = l
    BY <1>5 DEF Follows
  <2>2. CASE j <= N
    BY <1>1, <2>1, <2>2 DEF Follows, N
  <2>3. CASE j > N
    BY <1>1, <1>2, <2>1, <2>3
  <2> QED
    BY <1>1, <2>2, <2>3
<1>6. ASSUME NEW k, Behind(m, k)
      PROVE  Behind(n, k) \/ HasEOF(out)
  <2>1. PICK i \in 1..Len(m), j \in 1..Len(m) : i < j /\ m[i] = k /\ m[j].t = "EOF"
    BY <1>6 DEF Behind
  <2>2. CASE j <= N
    <3>1. i \in 1..N /\ j \in 1..N /\ i < j /\ n[i] = k /\ n[j].t = "EOF"
      BY <1>1, <2>1, <2>2
    <3> QED
      BY <3>1 DEF Behind, N
  <2>3. CASE j > N
    BY <1>4, <2>1, <2>3
  <2> QED
    BY <1>1, <2>2, <2>3
<1>7. ASSUME NEW k, Ahead(m, k)
      PROVE  \/ Ahead(n, k) \/ (HasEOF(n) /\ k \in Among(out))
             \/ k \in Among(out) /\ HasEOF(out)
  <2>1. PICK i \in 1..Len(m), j \in 1..Len(m) : i < j /\ m[i].t = "EOF" /\ m[j] = k
    BY <1>7 DEF Ahead
  <2>2. CASE j <= N
    BY <1>1, <2>1, <2>2 DEF Ahead, N
  <2>3. CASE j > N
    <3>1. k \in Among(out)
      BY <1>2, <2>1, <2>3
    <3>2. HasEOF(n) \/ HasEOF(out)
      BY <1>1, <1>4, <2>1
    <3> QED
      BY <3>1, <3>2
  <2> QED
    BY <1>1, <2>2, <2>3
<1>8. ASSUME NEW k, NEW l, Cut(m, k, l)
      PROVE  \/ Cut(n, k, l) \/ (Behind(n, k) /\ l \in Among(out))
             \/ l \in Among(out) /\ HasEOF(out)
  <2>1. PICK i \in 1..Len(m), e \in 1..Len(m), j \in 1..Len(m) :
          i < e /\ e < j /\ m[i] = k /\ m[e].t = "EOF" /\ m[j] = l
    BY <1>8 DEF Cut
  <2>2. CASE j <= N
    BY <1>1, <2>1, <2>2 DEF Cut, N
  <2>3. CASE j > N /\ e <= N
    <3>1. l \in Among(out)
      BY <1>2, <2>1, <2>3
    <3>2. Behind(n, k)
      <4>1. i \in 1..N /\ e \in 1..N /\ i < e /\ n[i] = k /\ n[e].t = "EOF"
        BY <1>1, <2>1, <2>3
      <4> QED
        BY <4>1 DEF Behind, N
    <3> QED
      BY <3>1, <3>2
  <2>4. CASE j > N /\ e > N
    BY <1>2, <1>4, <2>1, <2>4
  <2> QED
    BY <1>1, <2>2, <2>3, <2>4
<1>9. HasEOF(m) => HasEOF(n) \/ HasEOF(out)
  BY <1>3 DEF HasEOF
<1> QED
  BY <1>3, <1>5, <1>6, <1>7, <1>8, <1>9 DEF Extends, m

\* A channel that is emptied, or left alone.
LEMMA ExtendsLess ==
  ASSUME NEW n \in Seq(Packet), NEW out
  PROVE  Extends(<<>>, n, out) /\ Extends(n, n, out)
<1>1. Among(<<>>) = {} /\ Len(<<>>) = 0
  BY AmongFew
<1> QED
  BY <1>1 DEF Extends, Follows, Cut, Ahead, Behind, HasEOF

\* The head of a channel, and the rest.
LEMMA TailOrder ==
  ASSUME NEW n \in Seq(Packet), n # <<>>
  PROVE  /\ Extends(Tail(n), n, <<>>)
         /\ \A k \in Among(Tail(n)) : /\ k \in Among(n) /\ Follows(n, Head(n), k)
                                      /\ Head(n).t = "EOF" => Ahead(n, k)
         /\ \A k : Ahead(Tail(n), k) => Cut(n, Head(n), k)
         /\ HasEOF(Tail(n)) => Behind(n, Head(n))
         /\ Head(n).t = "EOF" => HasEOF(n)
<1> DEFINE m == Tail(n)
<1>1. /\ m \in Seq(Packet) /\ Len(n) \in Nat /\ Len(m) = Len(n) - 1 /\ Head(n) = n[1]
      /\ 1 \in 1..Len(n)
      /\ \A i \in 1..Len(m) : i + 1 \in 1..Len(n) /\ 1 < i + 1 /\ m[i] = n[i + 1]
  OBVIOUS
<1>2. Among(m) \subseteq Among(n) /\ Head(n) \in Among(n)
  BY AmongTail
<1> HIDE DEF m
<1>3. ASSUME NEW k \in Among(m)
      PROVE  Follows(n, Head(n), k) /\ (Head(n).t = "EOF" => Ahead(n, k))
  <2>1. PICK j \in 1..Len(m) : m[j] = k
    BY DEF Among
  <2> QED
    BY <1>1, <2>1 DEF Follows, Ahead
<1>4. ASSUME NEW k, NEW l, Follows(m, k, l)
      PROVE  Follows(n, k, l)
  <2>1. PICK i \in 1..Len(m), j \in 1..Len(m) : i < j /\ m[i] = k /\ m[j] = l
    BY <1>4 DEF Follows
  <2>2. i + 1 < j + 1
    BY <2>1
  <2> QED
    BY <1>1, <2>1, <2>2 DEF Follows
<1>5. ASSUME NEW k, Behind(m, k)
      PROVE  Behind(n, k)
  <2>1. PICK i \in 1..Len(m), j \in 1..Len(m) : i < j /\ m[i] = k /\ m[j].t = "EOF"
    BY <1>5 DEF Behind
  <2>2. i + 1 < j + 1
    BY <2>1
  <2> QED
    BY <1>1, <2>1, <2>2 DEF Behind
<1>6. ASSUME NEW k, Ahead(m, k)
      PROVE  Ahead(n, k) /\ Cut(n, Head(n), k)
  <2>1. PICK i \in 1..Len(m), j \in 1..Len(m) : i < j /\ m[i].t = "EOF" /\ m[j] = k
    BY <1>6 DEF Ahead
  <2>2. i + 1 < j + 1 /\ 1 < i + 1
    BY <2>1
  <2> QED
    BY <1>1, <2>1, <2>2 DEF Ahead, Cut
<1>7. ASSUME NEW k, NEW l, Cut(m, k, l)
      PROVE  Cut(n, k, l)
  <2>1. PICK i \in 1..Len(m), e \in 1..Len(m), j \in 1..Len(m) :
          i < e /\ e < j /\ m[i] = k /\ m[e].t = "EOF" /\ m[j] = l
    BY <1>7 DEF Cut
  <2>2. i + 1 < e + 1 /\ e + 1 < j + 1
    BY <2>1
  <2> QED
    BY <1>1, <2>1, <2>2 DEF Cut
<1>8. /\ HasEOF(m) => HasEOF(n)
      /\ Head(n).t = "EOF" => HasEOF(n)
  BY <1>2 DEF HasEOF
<1>9. HasEOF(m) => Behind(n, Head(n))
  <2> SUFFICES ASSUME NEW j \in 1..Len(m), m[j].t = "EOF"
               PROVE  Behind(n, Head(n))
    BY DEF HasEOF, Among
  <2> QED
    BY <1>1 DEF Behind
<1> QED
  BY <1>2, <1>3, <1>4, <1>5, <1>6, <1>7, <1>8, <1>9 DEF Extends, m

-----------------------------------------------------------------------------
(* The invariant.                                                          *)

\* The announcement of a file, and the place of a file in the offers.
Announcement(k) == k.t = "FINFO" /\ k.f \in File
Place(s, f) == CHOOSE i \in 1..Len(Offers[s]) : Offers[s][i] = f

\* What s has announced and may announce again, with n in the channel: the
\* announcements are in the order of the offers, and an EOF lies between two
\* files' announcements only.
Ordered(s, n, t) ==
    /\ t.lastFinfo # NoFile => t.state \in {"Finfo", "FinfoAck"}
    /\ t.next \in 1..(Len(Offers[s]) + 1)
    /\ t.lastFinfo \in File =>
        /\ t.lastFinfo \in Offered(s) /\ Place(s, t.lastFinfo) = t.next - 1
        /\ \A k : Behind(n, k) /\ Announcement(k) => k.f # t.lastFinfo
    /\ \A k \in Among(n) : Announcement(k) => k.f \in Offered(s) /\ Place(s, k.f) < t.next
    /\ \A k, l : Announcement(k) /\ Announcement(l) =>
        /\ Follows(n, k, l) => Place(s, k.f) <= Place(s, l.f)
        /\ Cut(n, k, l) => Place(s, k.f) < Place(s, l.f)

\* A file the receiver has opened or refused, and how another announcement of
\* it is told from a new one.
Met(r, done, f) == done[f] # <<>> \/ (r.open /\ r.file = f)
Repeat(r, f, eof) ==
    \/ r.state = "Done"
    \/ r.state = "Finfo" /\ r.refused = f
    \/ r.state = "Data" /\ r.file = f /\ ~eof

\* Where the receiver of s's files has got to.
Level(s, n, t, r, done, op) ==
    /\ r.open => r.state = "Data" /\ done[r.file] = <<>>
    /\ r.state = "Data" => r.file \in Offered(s) /\ Met(r, done, r.file)
    /\ \A f \in Offered(s) :
        /\ Len(done[f]) <= 1
        /\ f \in op => Met(r, done, f)
        /\ Met(r, done, f) =>
            /\ Place(s, f) < t.next
            /\ t.lastFinfo = f => Repeat(r, f, HasEOF(n))
            /\ \A k \in Among(n) : Announcement(k) =>
                /\ Place(s, f) <= Place(s, k.f)
                /\ k.f = f => Repeat(r, f, Ahead(n, k))

ReceivedInv ==
    /\ \A p, q \in Peer : p # q =>
        Ordered(p, net[q], tx[p]) /\ Level(p, net[q], tx[p], rx[q], rDone, opened)
    /\ \A p \in Peer : res[p] # "run" => ~rx[p].open
    /\ \A f \in File : (\A p \in Peer : f \notin Offered(p)) => rDone[f] = <<>>

-----------------------------------------------------------------------------
(* What the sender does to it.                                             *)

\* The place of a file in the offers is the only one.
LEMMA PlaceOf ==
  ASSUME NEW p \in Peer
  PROVE  /\ Len(Offers[p]) \in Nat
         /\ \A i \in 1..Len(Offers[p]) : /\ Offers[p][i] \in Offered(p)
                                         /\ Place(p, Offers[p][i]) = i
         /\ \A f \in Offered(p) : /\ f \in File
                                  /\ Place(p, f) \in 1..Len(Offers[p])
                                  /\ Offers[p][Place(p, f)] = f
<1>1. /\ Len(Offers[p]) \in Nat
      /\ \A i \in 1..Len(Offers[p]) : Offers[p][i] \in File
  BY OffersAreFiles
<1>2. ASSUME NEW f \in Offered(p)
      PROVE  /\ f \in File
             /\ Place(p, f) \in 1..Len(Offers[p])
             /\ Offers[p][Place(p, f)] = f
  <2>1. \E i \in 1..Len(Offers[p]) : Offers[p][i] = f
    BY DEF Offered
  <2> QED
    BY <1>1, <2>1 DEF Place
<1>3. ASSUME NEW i \in 1..Len(Offers[p])
      PROVE  Offers[p][i] \in Offered(p) /\ Place(p, Offers[p][i]) = i
  <2>1. Offers[p][i] \in Offered(p)
    BY DEF Offered
  <2>2. /\ Place(p, Offers[p][i]) \in 1..Len(Offers[p])
        /\ Offers[p][Place(p, Offers[p][i])] = Offers[p][i]
    BY <1>2, <2>1
  <2> HIDE DEF Place
  <2> QED
    BY <2>1, <2>2, OnePlace
<1> QED
  BY <1>1, <1>2, <1>3

\* Two files offered by one peer are told apart by their places.
LEMMA PlaceTells ==
  ASSUME NEW p \in Peer, NEW f \in Offered(p), NEW g \in Offered(p),
         Place(p, f) = Place(p, g)
  PROVE  f = g
  BY PlaceOf

\* What a step of the sender may do: nothing new; the announcement repeated;
\* another one.  An EOF is written only with no announcement outstanding.
SenderStep(p, t, u, out) ==
    /\ u.lastFinfo # NoFile => u.state \in {"Finfo", "FinfoAck"}
    /\ u.next \in t.next..(Len(Offers[p]) + 1)
    /\ \/ u.lastFinfo \notin File
       \/ u.lastFinfo = t.lastFinfo /\ u.next = t.next
       \/ u.next > t.next /\ u.lastFinfo = Offers[p][u.next - 1]
    /\ \A k \in Among(out) : /\ Announcement(k) => k.f = u.lastFinfo
                             /\ k.t = "EOF" => u.lastFinfo \notin File

\* The announcement outstanding after such a step, and before.
LEMMA Outstanding ==
  ASSUME NEW p \in Peer, NEW n, NEW t, Ordered(p, n, t), NEW u, NEW out,
         SenderStep(p, t, u, out), u.lastFinfo \in File
  PROVE  /\ u.lastFinfo \in Offered(p) /\ Place(p, u.lastFinfo) = u.next - 1
         /\ u.lastFinfo = t.lastFinfo \/ Place(p, u.lastFinfo) >= t.next
         /\ ~HasEOF(out)
<1>1. t.next \in 1..(Len(Offers[p]) + 1) /\ Len(Offers[p]) \in Nat
  BY PlaceOf DEF Ordered
<1>2. ~HasEOF(out)
  BY DEF SenderStep, HasEOF
<1>3. CASE u.lastFinfo = t.lastFinfo /\ u.next = t.next
  BY <1>2, <1>3 DEF Ordered
<1>4. CASE u.next > t.next /\ u.lastFinfo = Offers[p][u.next - 1]
  <2>1. u.next \in t.next..(Len(Offers[p]) + 1)
    BY DEF SenderStep
  <2>2. u.next - 1 \in 1..Len(Offers[p]) /\ u.next - 1 >= t.next
    BY <1>1, <1>4, <2>1
  <2> QED
    BY <1>2, <1>4, <2>2, PlaceOf
<1> QED
  BY <1>3, <1>4 DEF SenderStep

\* The announcements stay in order.
LEMMA SenderOrdered ==
  ASSUME NEW p \in Peer, NEW n, NEW t, Ordered(p, n, t), NEW u, NEW out,
         SenderStep(p, t, u, out), NEW m, Extends(m, n, out)
  PROVE  Ordered(p, m, u)
<1> DEFINE g == u.lastFinfo
<1>1. /\ t.next \in 1..(Len(Offers[p]) + 1) /\ Len(Offers[p]) \in Nat
      /\ u.next \in t.next..(Len(Offers[p]) + 1)
  BY PlaceOf DEF Ordered, SenderStep
<1>2. u.next \in 1..(Len(Offers[p]) + 1) /\ u.next >= t.next /\ u.next \in Int /\ t.next \in Int
  BY <1>1
<1>3. \A k \in Among(out) : Announcement(k) =>
         /\ k.f = g /\ g \in File /\ g \in Offered(p) /\ Place(p, g) = u.next - 1
         /\ g = t.lastFinfo \/ Place(p, g) >= t.next
         /\ ~HasEOF(out)
  BY Outstanding DEF SenderStep, Announcement
<1>4. \A k \in Among(n) : Announcement(k) =>
         /\ k.f \in Offered(p) /\ Place(p, k.f) < t.next
         /\ Place(p, k.f) \in Int
  BY PlaceOf DEF Ordered
<1>5. \A k \in Among(m) : Announcement(k) => k.f \in Offered(p) /\ Place(p, k.f) < u.next
  <2> SUFFICES ASSUME NEW k \in Among(m), Announcement(k)
               PROVE  k.f \in Offered(p) /\ Place(p, k.f) < u.next
    OBVIOUS
  <2>1. CASE k \in Among(n)
    BY <2>1, <1>2, <1>4
  <2>2. CASE k \in Among(out)
    BY <2>2, <1>2, <1>3
  <2> QED
    BY <2>1, <2>2 DEF Extends
<1>6. ASSUME g \in File, NEW k, Behind(m, k), Announcement(k), k.f = g
      PROVE  FALSE
  <2>1. /\ g \in Offered(p) /\ (g = t.lastFinfo \/ Place(p, g) >= t.next)
        /\ ~HasEOF(out)
    BY <1>6, Outstanding
  <2>2. Behind(n, k)
    BY <2>1, <1>6 DEF Extends
  <2>3. k \in Among(n)
    BY <2>2 DEF Behind, Among
  <2>4. g = t.lastFinfo
    BY <2>1, <2>3, <1>2, <1>4, <1>6
  <2> QED
    BY <2>2, <2>4, <1>6 DEF Ordered
<1>7. ASSUME NEW k, NEW l, Announcement(k), Announcement(l), Follows(m, k, l)
      PROVE  Place(p, k.f) <= Place(p, l.f)
  <2>1. CASE Follows(n, k, l)
    BY <2>1, <1>7 DEF Ordered
  <2>2. CASE k \in Among(n) /\ l \in Among(out)
    BY <2>2, <1>2, <1>3, <1>4, <1>7, Outstanding DEF Ordered
  <2>3. CASE k \in Among(out) /\ l \in Among(out)
    BY <2>3, <1>2, <1>3, <1>7
  <2> QED
    BY <1>7, <2>1, <2>2, <2>3 DEF Extends
<1>8. ASSUME NEW k, NEW l, Announcement(k), Announcement(l), Cut(m, k, l)
      PROVE  Place(p, k.f) < Place(p, l.f)
  <2>1. CASE Cut(n, k, l)
    BY <2>1, <1>8 DEF Ordered
  <2>2. CASE Behind(n, k) /\ l \in Among(out)
    <3>1. k \in Among(n)
      BY <2>2 DEF Behind, Among
    <3>2. /\ l.f = g /\ g \in File /\ g \in Offered(p) /\ Place(p, g) = u.next - 1
          /\ g = t.lastFinfo \/ Place(p, g) >= t.next
      BY <2>2, <1>3, <1>8
    <3>3. /\ k.f \in Offered(p) /\ Place(p, k.f) < t.next /\ Place(p, k.f) \in Int
      BY <3>1, <1>4, <1>8
    <3>4. CASE Place(p, g) >= t.next
      BY <1>2, <3>2, <3>3, <3>4
    <3>5. CASE g = t.lastFinfo
      <4>1. Place(p, g) = t.next - 1 /\ k.f # g
        BY <1>8, <2>2, <3>2, <3>5 DEF Ordered
      <4>2. Place(p, k.f) # Place(p, g)
        BY <3>2, <3>3, <4>1, PlaceTells
      <4> QED
        BY <1>2, <3>2, <3>3, <4>1, <4>2
    <3> QED
      BY <3>2, <3>4, <3>5
  <2>3. CASE l \in Among(out) /\ HasEOF(out)
    BY <2>3, <1>3, <1>8
  <2> QED
    BY <1>8, <2>1, <2>2, <2>3 DEF Extends
<1>9. g # NoFile => u.state \in {"Finfo", "FinfoAck"}
  BY DEF SenderStep
<1>10. g \in File => g \in Offered(p) /\ Place(p, g) = u.next - 1
  BY Outstanding
<1> QED
  BY <1>2, <1>5, <1>6, <1>7, <1>8, <1>9, <1>10 DEF Ordered

\* The head of what is ahead of a packet is in the channel.
LEMMA AheadEOF ==
  ASSUME NEW n, NEW k, Ahead(n, k)
  PROVE  HasEOF(n)
<1>1. PICK m \in 1..Len(n) : n[m].t = "EOF"
  BY DEF Ahead
<1> QED
  BY <1>1, EOFPlace

\* What tells a repeat needs fewer EOFs.
LEMMA RepeatWeakens ==
  ASSUME NEW r, NEW f, NEW a \in BOOLEAN, NEW b \in BOOLEAN, Repeat(r, f, a), b => a
  PROVE  Repeat(r, f, b)
  BY DEF Repeat

\* The receiver stays level with the sender.
LEMMA SenderLevel ==
  ASSUME NEW p \in Peer, NEW n, NEW t, NEW r, NEW done, NEW op,
         Ordered(p, n, t), Level(p, n, t, r, done, op),
         NEW u, NEW out, SenderStep(p, t, u, out), NEW m, Extends(m, n, out),
         NEW next, NEW nop,
         \A f \in Offered(p) : next[f] = done[f] /\ (f \in nop => f \in op)
  PROVE  Level(p, m, u, r, next, nop)
<1>1. /\ t.next \in 1..(Len(Offers[p]) + 1) /\ Len(Offers[p]) \in Nat
      /\ u.next \in t.next..(Len(Offers[p]) + 1)
  BY PlaceOf DEF Ordered, SenderStep
<1>2. u.next >= t.next /\ u.next \in Int /\ t.next \in Int
  BY <1>1
<1>3. \A f \in Offered(p) : Met(r, next, f) <=> Met(r, done, f)
  BY DEF Met
<1>4. /\ r.open => r.state = "Data" /\ next[r.file] = <<>>
      /\ r.state = "Data" => r.file \in Offered(p) /\ Met(r, next, r.file)
  BY <1>3 DEF Level
<1>5. ASSUME NEW f \in Offered(p)
      PROVE  Len(next[f]) <= 1 /\ (f \in nop => Met(r, next, f))
  BY <1>3 DEF Level
<1>6. ASSUME NEW f \in Offered(p), Met(r, next, f)
      PROVE  /\ Place(p, f) < u.next
             /\ u.lastFinfo = f => Repeat(r, f, HasEOF(m))
             /\ \A k \in Among(m) : Announcement(k) =>
                  /\ Place(p, f) <= Place(p, k.f)
                  /\ k.f = f => Repeat(r, f, Ahead(m, k))
  <2>1. /\ Met(r, done, f) /\ Place(p, f) \in Int /\ f \in File
        /\ Place(p, f) < t.next
    BY <1>3, <1>6, PlaceOf DEF Level
  <2>2. ASSUME u.lastFinfo = f
        PROVE  t.lastFinfo = f /\ ~HasEOF(out) /\ Repeat(r, f, HasEOF(n))
    <3>1. /\ f = t.lastFinfo \/ Place(p, f) >= t.next
          /\ ~HasEOF(out)
      BY <2>1, <2>2, Outstanding
    <3>2. f = t.lastFinfo
      BY <1>2, <2>1, <3>1
    <3> QED
      BY <2>1, <3>1, <3>2 DEF Level
  <2>3. Place(p, f) < u.next
    BY <1>2, <2>1
  <2>4. HasEOF(n) \in BOOLEAN /\ HasEOF(m) \in BOOLEAN
    BY DEF HasEOF
  <2>5. u.lastFinfo = f => Repeat(r, f, HasEOF(m))
    <3> SUFFICES ASSUME u.lastFinfo = f PROVE Repeat(r, f, HasEOF(m))
      OBVIOUS
    <3>1. HasEOF(m) => HasEOF(n)
      BY <2>2 DEF Extends
    <3> QED
      BY <2>2, <2>4, <3>1, RepeatWeakens
  <2>6. ASSUME NEW k \in Among(m), Announcement(k)
        PROVE  /\ Place(p, f) <= Place(p, k.f)
               /\ k.f = f => Repeat(r, f, Ahead(m, k))
    <3>0. Ahead(n, k) \in BOOLEAN /\ Ahead(m, k) \in BOOLEAN
      BY DEF Ahead
    <3>1. ASSUME k \in Among(out)
          PROVE  /\ k.f = u.lastFinfo /\ k.f \in File /\ k.f \in Offered(p) /\ ~HasEOF(out)
                 /\ k.f = t.lastFinfo \/ Place(p, k.f) >= t.next
                 /\ Place(p, k.f) \in Int
      <4>1. k.f = u.lastFinfo /\ k.f \in File
        BY <2>6, <3>1 DEF SenderStep, Announcement
      <4>2. /\ k.f \in Offered(p) /\ ~HasEOF(out)
            /\ k.f = t.lastFinfo \/ Place(p, k.f) >= t.next
        BY <4>1, Outstanding
      <4> QED
        BY <4>1, <4>2, PlaceOf
    <3>2. Place(p, f) <= Place(p, k.f)
      <4>1. CASE k \in Among(n)
        BY <2>1, <2>6, <4>1 DEF Level
      <4>2. CASE k \in Among(out) /\ k.f = t.lastFinfo
        <5>1. Place(p, k.f) = t.next - 1
          BY <3>1, <4>2 DEF Ordered
        <5> QED
          BY <1>2, <2>1, <5>1
      <4>3. CASE k \in Among(out) /\ Place(p, k.f) >= t.next
        BY <1>2, <2>1, <3>1, <4>3
      <4> QED
        BY <3>1, <4>1, <4>2, <4>3 DEF Extends
    <3>3. ASSUME k.f = f
          PROVE  Repeat(r, f, Ahead(m, k))
      <4>1. CASE k \in Among(out)
        <5>1. Ahead(m, k) => HasEOF(n)
          BY <3>1, <4>1, AheadEOF DEF Extends
        <5> QED
          BY <2>2, <2>4, <3>0, <3>1, <3>3, <4>1, <5>1, RepeatWeakens
      <4>2. CASE k \notin Among(out)
        <5>1. k \in Among(n) /\ (Ahead(m, k) => Ahead(n, k))
          BY <4>2 DEF Extends
        <5>2. Repeat(r, f, Ahead(n, k))
          BY <2>1, <2>6, <3>3, <5>1 DEF Level
        <5> QED
          BY <3>0, <5>1, <5>2, RepeatWeakens
      <4> QED
        BY <4>1, <4>2
    <3> QED
      BY <3>2, <3>3
  <2> QED
    BY <2>3, <2>5, <2>6
<1> QED
  BY <1>4, <1>5, <1>6 DEF Level

-----------------------------------------------------------------------------
(* What the receiver does to it.                                           *)

\* Nothing, whatever is lost; INIT; the next packet taken; the Run ended, with
\* the teardown.  Only the file now open may have been opened.
ReceiverStep(n, m, r, v, done, next, op, nop) ==
    /\ \A f \in nop : f \in op \/ (v.open /\ v.file = f)
    /\ \/ Extends(m, n, <<>>) /\ SameRx(v, r) /\ next = done
       \/ /\ Extends(m, n, <<>>) /\ next = done
          /\ r.state = "Init" /\ SameRx(v, [r EXCEPT !.state = "Finfo"])
       \/ n # <<>> /\ m = Tail(n) /\ RxStep(Head(n), r, v, done, next)
       \/ /\ m = <<>> /\ SameRx(v, [r EXCEPT !.open = FALSE])
          /\ \E o \in Outcome : next = IF r.open THEN Complete(done, r.file, o) ELSE done

\* A call for a file whose handler has not been told.
LEMMA FirstTold ==
  ASSUME NEW done \in [File -> Seq(Outcome)], NEW f \in File, done[f] = <<>>,
         NEW o \in Outcome, NEW next, next = Complete(done, f, o)
  PROVE  /\ Len(next[f]) <= 1 /\ next[f] # <<>>
         /\ \A g \in File : g # f => next[g] = done[g]
<1>1. next[f] = Append(<<>>, o) /\ \A g \in File : g # f => next[g] = done[g]
  BY DEF Complete
<1>2. next[f] = <<o>>
  BY <1>1
<1> QED
  BY <1>1, <1>2

\* A channel that loses packets keeps the announcements in order.
LEMMA LessOrdered ==
  ASSUME NEW s \in Peer, NEW n, NEW m, NEW t, NEW r, NEW done, NEW op,
         Ordered(s, n, t), Level(s, n, t, r, done, op), Extends(m, n, <<>>)
  PROVE  Ordered(s, m, t) /\ Level(s, m, t, r, done, op)
<1>1. Among(<<>>) = {}
  BY AmongFew
<1>2. t.next \in t.next..(Len(Offers[s]) + 1)
  <2>1. t.next \in 1..(Len(Offers[s]) + 1) /\ Len(Offers[s]) \in Nat
    BY PlaceOf DEF Ordered
  <2> QED
    BY <2>1
<1>3. SenderStep(s, t, t, <<>>)
  BY <1>1, <1>2 DEF SenderStep, Ordered
<1> QED
  BY <1>3, SenderOrdered, SenderLevel

\* An announcement that a receiver between files takes for a new one is one:
\* what it has met lies before it in the offers, and is announced no more.
LEMMA NewFile ==
  ASSUME NEW s \in Peer, NEW n \in Seq(Packet), n # <<>>, NEW t, NEW r, NEW done, NEW op,
         Ordered(s, n, t), Level(s, n, t, r, done, op), NEW k, k = Head(n),
         k.t = "FINFO", k.f \in File, r.state = "Finfo", k.f # r.refused
  PROVE  /\ k.f \in Offered(s) /\ Place(s, k.f) < t.next /\ ~Met(r, done, k.f)
         /\ \A j \in Among(Tail(n)) : Announcement(j) => Place(s, k.f) <= Place(s, j.f)
         /\ \A f \in Offered(s) : Met(r, done, f) =>
              /\ f # k.f /\ t.lastFinfo # f
              /\ \A j \in Among(Tail(n)) : Announcement(j) => j.f # f
<1>1. k \in Among(n) /\ Announcement(k)
  BY AmongTail DEF Announcement
<1>2. k.f \in Offered(s) /\ Place(s, k.f) < t.next /\ Place(s, k.f) \in Int
  BY <1>1, PlaceOf DEF Ordered
<1>3. ~Met(r, done, k.f)
  BY <1>1, <1>2 DEF Level, Repeat
<1>4. \A j \in Among(Tail(n)) : Announcement(j) =>
         /\ Place(s, k.f) <= Place(s, j.f)
         /\ j \in Among(n) /\ j.f \in Offered(s) /\ Place(s, j.f) \in Int
  BY <1>1, TailOrder, PlaceOf DEF Ordered
<1>5. ASSUME NEW f \in Offered(s), Met(r, done, f)
      PROVE  /\ f # k.f /\ t.lastFinfo # f
             /\ \A j \in Among(Tail(n)) : Announcement(j) => j.f # f
  <2>1. f # k.f /\ f \in File /\ Place(s, f) \in Int /\ t.next \in Int
    BY <1>3, <1>5, PlaceOf DEF Ordered
  <2>2. Place(s, f) <= Place(s, k.f)
    BY <1>1, <1>5 DEF Level
  <2>3. Place(s, f) # Place(s, k.f)
    BY <1>2, <2>1, PlaceTells
  <2>4. Place(s, f) < Place(s, k.f)
    BY <1>2, <2>1, <2>2, <2>3
  <2>5. t.lastFinfo # f
    <3> SUFFICES ASSUME t.lastFinfo = f PROVE FALSE
      OBVIOUS
    <3>1. Place(s, f) = t.next - 1
      BY <2>1 DEF Ordered
    <3> QED
      BY <1>2, <2>1, <2>4, <3>1
  <2>6. \A j \in Among(Tail(n)) : Announcement(j) => j.f # f
    BY <1>2, <1>4, <2>1, <2>4
  <2> QED
    BY <2>1, <2>5, <2>6
<1> QED
  BY <1>2, <1>3, <1>4, <1>5

\* A file refused.
LEMMA RefusedLevel ==
  ASSUME NEW s \in Peer, NEW n \in Seq(Packet), n # <<>>, NEW t, NEW r, NEW op,
         NEW done \in [File -> Seq(Outcome)],
         Ordered(s, n, t), Level(s, n, t, r, done, op), NEW k, k = Head(n),
         k.t = "FINFO", k.f \in File, r.state = "Finfo", k.f # r.refused,
         NEW v, v.state = "Finfo", v.open = r.open, v.file = r.file, v.refused = k.f,
         NEW o \in Outcome, NEW next, next = Complete(done, k.f, o)
  PROVE  Level(s, Tail(n), t, v, next, op)
<1> DEFINE m == Tail(n)
<1>1. /\ k.f \in Offered(s) /\ Place(s, k.f) < t.next /\ ~Met(r, done, k.f)
      /\ \A j \in Among(m) : Announcement(j) => Place(s, k.f) <= Place(s, j.f)
      /\ \A f \in Offered(s) : Met(r, done, f) =>
           /\ f # k.f /\ t.lastFinfo # f
           /\ \A j \in Among(m) : Announcement(j) => j.f # f
  BY NewFile
<1>2. Ordered(s, m, t) /\ Level(s, m, t, r, done, op)
  BY TailOrder, LessOrdered
<1> HIDE DEF m
<1>3. ~r.open /\ ~v.open
  BY <1>2 DEF Level
<1>4. /\ Len(next[k.f]) <= 1 /\ next[k.f] # <<>>
      /\ \A g \in File : g # k.f => next[g] = done[g]
  BY <1>1, FirstTold DEF Met
<1>5. \A f \in Offered(s) : Met(v, next, f) <=> (f = k.f \/ Met(r, done, f))
  BY <1>3, <1>4, PlaceOf DEF Met
<1>6. ASSUME NEW f \in Offered(s)
      PROVE  Len(next[f]) <= 1 /\ (f \in op => Met(v, next, f))
  <2>1. f \in File /\ Len(done[f]) <= 1 /\ (f \in op => Met(r, done, f))
    BY <1>2, PlaceOf DEF Level
  <2>2. CASE f = k.f
    <3>1. Len(next[f]) <= 1
      BY <1>4, <2>2
    <3>2. Met(v, next, f)
      BY <1>5, <2>2
    <3> QED
      BY <3>1, <3>2
  <2>3. CASE f # k.f
    BY <1>4, <1>5, <2>1, <2>3
  <2> QED
    BY <2>2, <2>3
<1>7. Repeat(v, k.f, HasEOF(m)) /\ \A j : Repeat(v, k.f, Ahead(m, j))
  BY DEF Repeat
<1>8. ASSUME NEW f \in Offered(s), Met(v, next, f)
      PROVE  /\ Place(s, f) < t.next
             /\ t.lastFinfo = f => Repeat(v, f, HasEOF(m))
             /\ \A j \in Among(m) : Announcement(j) =>
                  /\ Place(s, f) <= Place(s, j.f)
                  /\ j.f = f => Repeat(v, f, Ahead(m, j))
  <2>1. CASE f = k.f
    BY <2>1, <1>1, <1>7
  <2>2. CASE Met(r, done, f)
    BY <2>2, <1>1, <1>2 DEF Level
  <2> QED
    BY <1>5, <1>8, <2>1, <2>2
<1> QED
  BY <1>3, <1>6, <1>8 DEF Level, m

\* A file opened.
LEMMA OpenedLevel ==
  ASSUME NEW s \in Peer, NEW n \in Seq(Packet), n # <<>>, NEW t, NEW r, NEW op, NEW done,
         Ordered(s, n, t), Level(s, n, t, r, done, op), NEW k, k = Head(n),
         k.t = "FINFO", k.f \in File, r.state = "Finfo", k.f # r.refused,
         NEW v, v.state = "Data", v.open, v.file = k.f,
         NEW nop, \A f \in nop : f \in op \/ (v.open /\ v.file = f)
  PROVE  Level(s, Tail(n), t, v, done, nop)
<1> DEFINE m == Tail(n)
<1>1. /\ k.f \in Offered(s) /\ Place(s, k.f) < t.next /\ ~Met(r, done, k.f)
      /\ \A j \in Among(m) : Announcement(j) => Place(s, k.f) <= Place(s, j.f)
      /\ \A f \in Offered(s) : Met(r, done, f) =>
           /\ f # k.f /\ t.lastFinfo # f
           /\ \A j \in Among(m) : Announcement(j) => j.f # f
  BY NewFile
<1>2. Ordered(s, m, t) /\ Level(s, m, t, r, done, op)
  BY TailOrder, LessOrdered
<1>3. k \in Among(n) /\ Announcement(k)
  BY AmongTail DEF Announcement
<1>4. /\ HasEOF(m) => Behind(n, k)
      /\ \A j : Ahead(m, j) => Cut(n, k, j)
  BY TailOrder
<1> HIDE DEF m
<1>5. ~r.open /\ done[k.f] = <<>>
  BY <1>1, <1>2 DEF Level, Met
<1>6. \A f \in Offered(s) : Met(v, done, f) <=> (f = k.f \/ Met(r, done, f))
  BY <1>5 DEF Met
<1>7. ASSUME NEW f \in Offered(s)
      PROVE  Len(done[f]) <= 1 /\ (f \in nop => Met(v, done, f))
  BY <1>2, <1>6 DEF Level
<1>8. ~HasEOF(m) => Repeat(v, k.f, HasEOF(m))
  BY DEF Repeat
<1>9. t.lastFinfo = k.f => ~HasEOF(m)
  BY <1>3, <1>4 DEF Ordered
<1>10. ASSUME NEW j \in Among(m), Announcement(j), j.f = k.f
       PROVE  Repeat(v, k.f, Ahead(m, j))
  <2>1. ~Cut(n, k, j)
    <3>1. Place(s, k.f) \in Int
      BY <1>1, PlaceOf
    <3> QED
      BY <1>3, <1>10, <3>1 DEF Ordered
  <2>2. ~Ahead(m, j)
    BY <1>4, <2>1
  <2> QED
    BY <2>2 DEF Repeat
<1>11. ASSUME NEW f \in Offered(s), Met(v, done, f)
       PROVE  /\ Place(s, f) < t.next
              /\ t.lastFinfo = f => Repeat(v, f, HasEOF(m))
              /\ \A j \in Among(m) : Announcement(j) =>
                   /\ Place(s, f) <= Place(s, j.f)
                   /\ j.f = f => Repeat(v, f, Ahead(m, j))
  <2>1. CASE f = k.f
    BY <2>1, <1>1, <1>8, <1>9, <1>10
  <2>2. CASE Met(r, done, f)
    BY <2>2, <1>1, <1>2 DEF Level
  <2> QED
    BY <1>6, <1>11, <2>1, <2>2
<1> QED
  BY <1>1, <1>5, <1>6, <1>7, <1>11 DEF Level, m

\* The file that was being received is completed; the writer is gone.
LEMMA ClosedLevel ==
  ASSUME NEW s \in Peer, NEW n, NEW t, NEW r, NEW op, NEW done \in [File -> Seq(Outcome)],
         Level(s, n, t, r, done, op),
         NEW v, v.state = r.state, v.file = r.file, v.refused = r.refused, ~v.open,
         NEW o \in Outcome, NEW next, next = IF r.open THEN Complete(done, r.file, o) ELSE done
  PROVE  /\ Level(s, n, t, v, next, op)
         /\ \A f \in Offered(s) : Met(v, next, f) <=> Met(r, done, f)
         /\ \A f \in File \ Offered(s) : next[f] = done[f]
<1>1. CASE ~r.open
  BY <1>1 DEF Level, Met, Repeat
<1>2. CASE r.open
  <2>1. r.file \in Offered(s) /\ r.file \in File /\ done[r.file] = <<>>
    BY <1>2, PlaceOf DEF Level
  <2>2. /\ Len(next[r.file]) <= 1 /\ next[r.file] # <<>>
        /\ \A g \in File : g # r.file => next[g] = done[g]
    BY <1>2, <2>1, FirstTold
  <2>3. \A f \in Offered(s) : Met(v, next, f) <=> Met(r, done, f)
    BY <1>2, <2>2, PlaceOf DEF Met
  <2>4. \A f, a : Repeat(v, f, a) <=> Repeat(r, f, a)
    BY DEF Repeat
  <2>5. ASSUME NEW f \in Offered(s)
        PROVE  Len(next[f]) <= 1 /\ (f \in op => Met(v, next, f))
    <3>1. f \in File /\ Len(done[f]) <= 1 /\ (f \in op => Met(r, done, f))
      BY PlaceOf DEF Level
    <3>2. CASE f = r.file
      <4>1. Len(next[f]) <= 1
        BY <2>2, <3>2
      <4>2. f \in op => Met(v, next, f)
        BY <2>3, <3>1
      <4> QED
        BY <4>1, <4>2
    <3>3. CASE f # r.file
      BY <2>2, <2>3, <3>1, <3>3
    <3> QED
      BY <3>2, <3>3
  <2>6. v.state = "Data" => v.file \in Offered(s) /\ Met(v, next, v.file)
    BY <2>1, <2>2 DEF Met
  <2> QED
    BY <2>1, <2>2, <2>3, <2>4, <2>5, <2>6 DEF Level
<1> QED
  BY <1>1, <1>2

\* A file's EOF taken: none of its announcements is behind it.
LEMMA EndedLevel ==
  ASSUME NEW s \in Peer, NEW n \in Seq(Packet), n # <<>>, NEW t, NEW r \in RxType, NEW op,
         NEW done \in [File -> Seq(Outcome)], Ordered(s, n, t), Level(s, n, t, r, done, op),
         Head(n).t = "EOF", r.state = "Data",
         NEW v, v.state = "Finfo", v.file = r.file, v.refused = r.refused, ~v.open,
         NEW o \in Outcome, NEW next, next = IF r.open THEN Complete(done, r.file, o) ELSE done
  PROVE  /\ Level(s, Tail(n), t, v, next, op)
         /\ \A f \in File \ Offered(s) : next[f] = done[f]
<1> DEFINE m == Tail(n)
           w == [r EXCEPT !.open = FALSE]
<1>1. w.state = r.state /\ w.file = r.file /\ w.refused = r.refused /\ ~w.open
  BY DEF RxType
<1>2. /\ HasEOF(n)
      /\ \A j \in Among(m) : Ahead(n, j) /\ j \in Among(n)
  BY TailOrder
<1>3. Level(s, m, t, r, done, op)
  BY TailOrder, LessOrdered
<1> HIDE DEF m, w
<1>4. /\ Level(s, m, t, w, next, op)
      /\ \A f \in Offered(s) : Met(w, next, f) <=> Met(r, done, f)
      /\ \A f \in File \ Offered(s) : next[f] = done[f]
  BY <1>1, <1>3, ClosedLevel
<1>5. \A f : Met(v, next, f) <=> Met(w, next, f)
  BY <1>1 DEF Met
<1>6. ASSUME NEW f \in Offered(s), Met(r, done, f)
      PROVE  /\ t.lastFinfo # f
             /\ \A j \in Among(m) : Announcement(j) => j.f # f
  <2>1. t.lastFinfo = f => Repeat(r, f, HasEOF(n))
    BY <1>6 DEF Level
  <2>2. \A j \in Among(m) : Announcement(j) /\ j.f = f => Repeat(r, f, Ahead(n, j))
    BY <1>2, <1>6 DEF Level
  <2> QED
    BY <1>2, <2>1, <2>2 DEF Repeat
<1> QED
  BY <1>4, <1>5, <1>6 DEF Level, m

\* A machine that looks the same is as level.
LEMMA SameLevel ==
  ASSUME NEW s, NEW n, NEW t, NEW r, NEW done, NEW op, Level(s, n, t, r, done, op),
         NEW v, SameRx(v, r), NEW nop, \A f \in nop : f \in op \/ (v.open /\ v.file = f)
  PROVE  Level(s, n, t, v, done, nop)
<1>1. \A f : Met(v, done, f) <=> Met(r, done, f)
  BY DEF Met, SameRx
<1>2. \A f, a : Repeat(v, f, a) <=> Repeat(r, f, a)
  BY DEF Repeat, SameRx
<1>3. \A f \in nop : f \in op \/ Met(v, done, f)
  BY DEF Met
<1> QED
  BY <1>1, <1>2, <1>3 DEF Level, SameRx

\* Whatever the receiver does.
LEMMA ReceiverLevel ==
  ASSUME NEW s \in Peer, NEW n \in Seq(Packet), NEW t, NEW r \in RxType, NEW op,
         NEW done \in [File -> Seq(Outcome)], Ordered(s, n, t), Level(s, n, t, r, done, op),
         NEW m, NEW v, NEW next, NEW nop, ReceiverStep(n, m, r, v, done, next, op, nop)
  PROVE  /\ Ordered(s, m, t) /\ Level(s, m, t, v, next, nop)
         /\ \A f \in File \ Offered(s) : next[f] = done[f]
<1>1. \A f \in nop : f \in op \/ (v.open /\ v.file = f)
  BY DEF ReceiverStep
<1>2. CASE Extends(m, n, <<>>) /\ SameRx(v, r) /\ next = done
  BY <1>1, <1>2, LessOrdered, SameLevel
<1>3. CASE /\ Extends(m, n, <<>>) /\ next = done
           /\ r.state = "Init" /\ SameRx(v, [r EXCEPT !.state = "Finfo"])
  <2>1. Ordered(s, m, t) /\ Level(s, m, t, r, done, op)
    BY <1>3, LessOrdered
  <2>2. v.state = "Finfo" /\ v.open = r.open /\ v.file = r.file /\ v.refused = r.refused
    BY <1>3 DEF SameRx, RxType
  <2>3. ~r.open
    BY <1>3, <2>1 DEF Level
  <2>4. \A f, a : ~Repeat(r, f, a)
    BY <1>3 DEF Repeat
  <2>5. \A f : Met(v, done, f) <=> Met(r, done, f)
    BY <2>2 DEF Met
  <2>6. \A f \in nop : f \in op
    BY <1>1, <2>2, <2>3
  <2>7. Level(s, m, t, v, done, nop)
    BY <2>1, <2>2, <2>3, <2>4, <2>5, <2>6 DEF Level
  <2> QED
    BY <1>3, <2>1, <2>7
<1>4. CASE /\ m = <<>> /\ SameRx(v, [r EXCEPT !.open = FALSE])
           /\ \E o \in Outcome : next = IF r.open THEN Complete(done, r.file, o) ELSE done
  <2>1. v.state = r.state /\ v.file = r.file /\ v.refused = r.refused /\ ~v.open
    BY <1>4 DEF SameRx, RxType
  <2>2. Ordered(s, m, t) /\ Level(s, m, t, r, done, op)
    BY <1>4, ExtendsLess, LessOrdered
  <2>3. /\ Level(s, m, t, v, next, op)
        /\ \A f \in File \ Offered(s) : next[f] = done[f]
    BY <1>4, <2>1, <2>2, ClosedLevel
  <2>4. Level(s, m, t, v, next, nop)
    BY <1>1, <2>3, SameLevel DEF SameRx
  <2> QED
    BY <2>2, <2>3, <2>4
<1>5. CASE n # <<>> /\ m = Tail(n) /\ RxStep(Head(n), r, v, done, next)
  <2> DEFINE k == Head(n)
  <2>1. Extends(m, n, <<>>) /\ k \in Among(n)
    BY <1>5, TailOrder, AmongTail
  <2>2. Ordered(s, m, t) /\ Level(s, m, t, r, done, op)
    BY <2>1, LessOrdered
  <2>3. CASE SameRx(v, r) /\ next = done
    BY <2>3, <2>2, <1>1, SameLevel
  <2>4. CASE /\ k.t = "FINFO" /\ k.f = EOB /\ r.state = "Finfo"
             /\ SameRx(v, [r EXCEPT !.state = "Done"]) /\ next = done
    <3>1. v.state = "Done" /\ v.open = r.open /\ v.file = r.file /\ v.refused = r.refused
      BY <2>4 DEF SameRx, RxType
    <3>2. ~r.open
      BY <2>2, <2>4 DEF Level
    <3>3. \A f, a : Repeat(v, f, a)
      BY <3>1 DEF Repeat
    <3>4. \A f : Met(v, done, f) <=> Met(r, done, f)
      BY <3>1 DEF Met
    <3>5. \A f \in nop : f \in op
      BY <1>1, <3>1, <3>2
    <3>6. Level(s, m, t, v, done, nop)
      BY <2>2, <3>1, <3>2, <3>3, <3>4, <3>5 DEF Level
    <3> QED
      BY <2>2, <2>4, <3>6
  <2>5. CASE /\ k.t = "FINFO" /\ k.f \in File /\ r.state = "Finfo" /\ k.f # r.refused
             /\ SameRx(v, [r EXCEPT !.refused = k.f])
             /\ \E o \in Outcome : next = Complete(done, k.f, o)
    <3>1. v.state = "Finfo" /\ v.open = r.open /\ v.file = r.file /\ v.refused = k.f
      BY <2>5 DEF SameRx, RxType
    <3>2. Level(s, m, t, v, next, op)
      BY <1>5, <2>5, <3>1, RefusedLevel
    <3>3. Level(s, m, t, v, next, nop)
      BY <1>1, <3>2, SameLevel DEF SameRx
    <3>4. k.f \in Offered(s)
      BY <1>5, <2>5, NewFile
    <3>5. \A f \in File \ Offered(s) : next[f] = done[f]
      BY <2>5, <3>4 DEF Complete
    <3> QED
      BY <2>2, <3>3, <3>5
  <2>6. CASE /\ k.t = "FINFO" /\ k.f \in File /\ r.state = "Finfo" /\ k.f # r.refused
             /\ v.state = "Data" /\ v.open /\ v.file = k.f /\ v.refused = NoFile /\ next = done
    <3>1. Level(s, m, t, v, done, nop)
      BY <1>1, <1>5, <2>6, OpenedLevel
    <3> QED
      BY <2>2, <2>6, <3>1
  <2>7. CASE /\ k.t = "DATA" /\ r.state = "Data" /\ r.open /\ SameRx(v, [r EXCEPT !.open = FALSE])
             /\ \E o \in Outcome : next = Complete(done, r.file, o)
    <3>1. v.state = r.state /\ v.file = r.file /\ v.refused = r.refused /\ ~v.open
      BY <2>7 DEF SameRx, RxType
    <3>2. PICK o \in Outcome : next = IF r.open THEN Complete(done, r.file, o) ELSE done
      BY <2>7
    <3>3. /\ Level(s, m, t, v, next, op)
          /\ \A f \in File \ Offered(s) : next[f] = done[f]
      BY <2>2, <3>1, <3>2, ClosedLevel
    <3>4. Level(s, m, t, v, next, nop)
      BY <1>1, <3>3, SameLevel DEF SameRx
    <3> QED
      BY <2>2, <3>3, <3>4
  <2>8. CASE /\ k.t = "EOF" /\ r.state = "Data"
             /\ SameRx(v, [r EXCEPT !.open = FALSE, !.state = "Finfo"])
             /\ \E o \in Outcome : next = IF r.open THEN Complete(done, r.file, o) ELSE done
    <3>1. v.state = "Finfo" /\ v.file = r.file /\ v.refused = r.refused /\ ~v.open
      BY <2>8 DEF SameRx, RxType
    <3>2. /\ Level(s, m, t, v, next, op)
          /\ \A f \in File \ Offered(s) : next[f] = done[f]
      BY <1>5, <2>8, <3>1, EndedLevel
    <3>3. Level(s, m, t, v, next, nop)
      BY <1>1, <3>2, SameLevel DEF SameRx
    <3> QED
      BY <2>2, <3>2, <3>3
  <2> QED
    BY <1>5, <2>3, <2>4, <2>5, <2>6, <2>7, <2>8 DEF RxStep
<1> QED
  BY <1>2, <1>3, <1>4, <1>5 DEF ReceiverStep

-----------------------------------------------------------------------------
(* The ends of a step.                                                     *)

\* A step of p, as sender of its own files and as receiver of the other's.
LEMMA StepReceived ==
  ASSUME SentInv, ReceivedInv, NEW p \in Peer, NEW out,
         tx'[Other(p)] = tx[Other(p)], rx'[Other(p)] = rx[Other(p)],
         res'[Other(p)] = res[Other(p)], res'[p] # "run" => ~rx'[p].open,
         SenderStep(p, tx[p], tx'[p], out), Extends(net'[Other(p)], net[Other(p)], out),
         ReceiverStep(net[p], net'[p], rx[p], rx'[p], rDone, rDone', opened, opened')
  PROVE  ReceivedInv'
<1> DEFINE o == Other(p)
<1>1. o \in Peer /\ o # p /\ \A q \in Peer : q = p \/ q = o
  BY TheOther
<1>2. /\ net[p] \in Seq(Packet) /\ rx[p] \in RxType
      /\ rDone \in [File -> Seq(Outcome)]
  BY DEF SentInv, TypeOK, MachinesOK, HistoryOK
<1>3. /\ Ordered(p, net[o], tx[p]) /\ Level(p, net[o], tx[p], rx[o], rDone, opened)
      /\ Ordered(o, net[p], tx[o]) /\ Level(o, net[p], tx[o], rx[p], rDone, opened)
  BY <1>1 DEF ReceivedInv
<1>4. /\ tx'[o] = tx[o] /\ rx'[o] = rx[o] /\ res'[o] = res[o]
      /\ Extends(net'[o], net[o], out)
  OBVIOUS
<1> HIDE DEF o
<1>5. /\ Ordered(o, net'[p], tx'[o]) /\ Level(o, net'[p], tx'[o], rx'[p], rDone', opened')
      /\ \A f \in File \ Offered(o) : rDone'[f] = rDone[f]
  BY <1>1, <1>2, <1>3, <1>4, ReceiverLevel
<1>6. \A f \in Offered(p) : f \in File \ Offered(o)
  <2> SUFFICES ASSUME NEW f \in Offered(p), f \in Offered(o) PROVE FALSE
    BY PlaceOf
  <2>1. PICK i \in 1..Len(Offers[p]), j \in 1..Len(Offers[o]) : Offers[p][i] = f /\ Offers[o][j] = f
    BY DEF Offered
  <2> QED
    BY <1>1, <2>1, OnePlace
<1>7. \A f \in Offered(p) : rDone'[f] = rDone[f] /\ (f \in opened' => f \in opened)
  <2> SUFFICES ASSUME NEW f \in Offered(p), f \in opened', f \notin opened
               PROVE  FALSE
    BY <1>5, <1>6
  <2>1. rx'[p].open /\ rx'[p].file = f
    BY DEF ReceiverStep
  <2>2. f \in Offered(o)
    BY <1>5, <2>1 DEF Level
  <2> QED
    BY <1>6, <2>2
<1>8. Ordered(p, net'[o], tx'[p])
  BY <1>3, <1>4, SenderOrdered
<1>9. Level(p, net'[o], tx'[p], rx'[o], rDone', opened')
  BY <1>3, <1>4, <1>7, SenderLevel
<1>10. \A a, b \in Peer : a # b =>
          Ordered(a, net'[b], tx'[a]) /\ Level(a, net'[b], tx'[a], rx'[b], rDone', opened')
  <2> SUFFICES ASSUME NEW a \in Peer, NEW b \in Peer, a # b
               PROVE  /\ Ordered(a, net'[b], tx'[a])
                      /\ Level(a, net'[b], tx'[a], rx'[b], rDone', opened')
    OBVIOUS
  <2>1. (a = p /\ b = o) \/ (a = o /\ b = p)
    BY <1>1
  <2> QED
    BY <1>5, <1>8, <1>9, <2>1
<1>11. \A q \in Peer : res'[q] # "run" => ~rx'[q].open
  BY <1>1, <1>4 DEF ReceivedInv
<1>12. \A f \in File : (\A q \in Peer : f \notin Offered(q)) => rDone'[f] = <<>>
  BY <1>1, <1>5 DEF ReceivedInv
<1> QED
  BY <1>10, <1>11, <1>12 DEF ReceivedInv, Ordered, Level, Met

\* sync leaves what is announced alone.
LEMMA SyncSends ==
  ASSUME NEW p \in Peer, NEW x, NEW t \in TxType, NEW out, SenderStep(p, x, t, out),
         NEW r, NEW d, NEW u, u = sync(t, r, d)
  PROVE  SenderStep(p, x, u, out)
<1>1. u = t \/ \E s \in TxState : /\ t.state \notin {"Finfo", "FinfoAck"}
                                  /\ u = Advance(t, s) \/ u = Await(t, s)
  BY DEF sync, TxState
<1>2. u.next = t.next /\ u.lastFinfo = t.lastFinfo
      /\ (u = t \/ t.state \notin {"Finfo", "FinfoAck"})
  BY <1>1 DEF Advance, Await, TxType
<1> QED
  BY <1>2 DEF SenderStep

\* A step that leaves p's Run active.
LEMMA ContinueReceived ==
  ASSUME SentInv, ReceivedInv, NEW p \in Peer, res[p] = "run",
         NEW t \in TxType, NEW r, NEW d, NEW out \in Seq(Packet),
         NEW n, n[Other(p)] = net[Other(p)], n \in [Peer -> Seq(Packet)],
         Continue(p, n, t, r, d, out), SenderStep(p, tx[p], t, out),
         ReceiverStep(net[p], n[p], rx[p], r, rDone, rDone', opened, opened')
  PROVE  ReceivedInv'
<1> DEFINE u == sync(t, r, d)
<1>1. MachinesOK /\ Other(p) \in Peer /\ Other(p) # p
  BY TheOther DEF SentInv, TypeOK
<1>2. tx \in [Peer -> TxType] /\ rx \in [Peer -> RxType] /\ net \in [Peer -> Seq(Packet)]
  BY <1>1 DEF MachinesOK
<1>3. /\ tx' = [tx EXCEPT ![p] = u] /\ rx' = [rx EXCEPT ![p] = r]
      /\ net' = Deliver(n, p, out) /\ res' = res
  BY DEF Continue
<1>4. SenderStep(p, tx[p], u, out)
  BY SyncSends
<1> HIDE DEF u
<1>5. /\ tx'[p] = u /\ tx'[Other(p)] = tx[Other(p)]
      /\ rx'[p] = r /\ rx'[Other(p)] = rx[Other(p)]
  BY <1>1, <1>2, <1>3
<1>6. net'[p] = n[p]
      /\ net'[Other(p)] = IF res[Other(p)] = "run" THEN net[Other(p)] \o out ELSE <<>>
  BY <1>1, <1>3 DEF Deliver
<1>7. Extends(net'[Other(p)], net[Other(p)], out)
  BY <1>1, <1>2, <1>6, ExtendsConcat, ExtendsLess
<1> QED
  BY <1>3, <1>4, <1>5, <1>6, <1>7, StepReceived

\* The end of p's Run.
LEMMA FinishReceived ==
  ASSUME SentInv, ReceivedInv, NEW p \in Peer, NEW result,
         NEW t \in TxType, NEW r \in RxType, NEW d, NEW out \in Seq(Packet),
         Finish(p, result, t, r, d, out), SenderStep(p, tx[p], t, out), SameRx(r, rx[p])
  PROVE  ReceivedInv'
<1> DEFINE u == [t EXCEPT !.offer = NoFile]
           v == [r EXCEPT !.open = FALSE]
           n == net[Other(p)]
<1>1. MachinesOK /\ Other(p) \in Peer /\ Other(p) # p
  BY TheOther DEF SentInv, TypeOK
<1>2. /\ tx \in [Peer -> TxType] /\ rx \in [Peer -> RxType] /\ net \in [Peer -> Seq(Packet)]
      /\ res \in [Peer -> {"run", "ok", "err"}] /\ rx[p] \in RxType
  BY <1>1 DEF MachinesOK
<1>3. /\ tx' = [tx EXCEPT ![p] = u] /\ rx' = [rx EXCEPT ![p] = v]
      /\ net' = [Deliver(net, p, out) EXCEPT ![p] = <<>>]
      /\ res' = [res EXCEPT ![p] = result] /\ opened' = opened
      /\ rDone' = IF r.open THEN Complete(rDone, r.file, "Aborted") ELSE rDone
  BY DEF Finish
<1>4. u.next = t.next /\ u.lastFinfo = t.lastFinfo /\ u.state = t.state
  BY DEF TxType
<1>5. SenderStep(p, tx[p], u, out)
  BY <1>4 DEF SenderStep
<1>6. SameRx(v, [rx[p] EXCEPT !.open = FALSE]) /\ ~v.open
  BY <1>2 DEF SameRx, RxType
<1> HIDE DEF u, v
<1>7. /\ tx'[p] = u /\ tx'[Other(p)] = tx[Other(p)]
      /\ rx'[p] = v /\ rx'[Other(p)] = rx[Other(p)] /\ res'[Other(p)] = res[Other(p)]
  BY <1>1, <1>2, <1>3
<1>8. net'[p] = <<>> /\ net'[Other(p)] = IF res[Other(p)] = "run" THEN n \o out ELSE <<>>
  BY <1>1, <1>2, <1>3 DEF Deliver
<1>9. Extends(net'[Other(p)], n, out)
  <2>1. n \in Seq(Packet)
    BY <1>1, <1>2
  <2> HIDE DEF n
  <2> QED
    BY <1>8, <2>1, ExtendsConcat, ExtendsLess
<1>10. ReceiverStep(net[p], net'[p], rx[p], rx'[p], rDone, rDone', opened, opened')
  <2>1. rDone' = IF rx[p].open THEN Complete(rDone, rx[p].file, "Aborted") ELSE rDone
    BY <1>3 DEF SameRx
  <2> QED
    BY <1>3, <1>6, <1>7, <1>8, <2>1 DEF ReceiverStep, Outcome
<1> QED
  BY <1>5, <1>6, <1>7, <1>9, <1>10, StepReceived

\* A packet handled.
LEMMA HandledReceived ==
  ASSUME SentInv, ReceivedInv, NEW p \in Peer, NEW type, Hears(p, type),
         NEW t \in TxType, NEW r, NEW d, NEW out \in Seq(Packet), Handled(p, t, r, d, out),
         SenderStep(p, tx[p], t, out),
         ReceiverStep(net[p], Tail(net[p]), rx[p], r, rDone, rDone', opened, opened')
  PROVE  ReceivedInv'
<1>1. MachinesOK /\ net \in [Peer -> Seq(Packet)] /\ Other(p) # p /\ Other(p) \in Peer
  BY TheOther DEF SentInv, TypeOK, MachinesOK
<1>2. Taken(p) \in [Peer -> Seq(Packet)] /\ res[p] = "run"
  BY <1>1, HeardPacket DEF Hears
<1>3. Taken(p)[p] = Tail(net[p]) /\ Taken(p)[Other(p)] = net[Other(p)]
  BY <1>1 DEF Taken
<1> QED
  BY <1>2, <1>3, ContinueReceived DEF Handled

-----------------------------------------------------------------------------
(* The steps.                                                              *)

\* A sender that announces nothing and sends no EOF.
LEMMA QuietSender ==
  ASSUME ReceivedInv, NEW p \in Peer, NEW t, NEW out,
         t.lastFinfo = tx[p].lastFinfo \/ t.lastFinfo = NoFile, t.next = tx[p].next,
         t.state = tx[p].state \/ t.lastFinfo = NoFile
           \/ tx[p].state \notin {"Finfo", "FinfoAck"},
         \A k \in Among(out) : k.t \notin {"FINFO", "EOF"}
  PROVE  SenderStep(p, tx[p], t, out)
<1>1. Ordered(p, net[Other(p)], tx[p])
  BY TheOther DEF ReceivedInv
<1>2. tx[p].next \in tx[p].next..(Len(Offers[p]) + 1)
  <2>1. tx[p].next \in 1..(Len(Offers[p]) + 1) /\ Len(Offers[p]) \in Nat
    BY <1>1, PlaceOf DEF Ordered
  <2> QED
    BY <2>1
<1>3. t.lastFinfo # NoFile => t.state \in {"Finfo", "FinfoAck"}
  BY <1>1 DEF Ordered
<1>4. NoFile \notin File
  BY MarkerAssumption
<1> QED
  BY <1>2, <1>3, <1>4 DEF SenderStep, Announcement

\* A packet that does not concern the receiver.
LEMMA QuietReceiver ==
  ASSUME NEW n \in Seq(Packet), n # <<>>, NEW r, NEW done, NEW op
  PROVE  ReceiverStep(n, Tail(n), r, r, done, done, op, op)
<1>1. Extends(Tail(n), n, <<>>) /\ SameRx(r, r)
  BY TailOrder DEF SameRx
<1> QED
  BY <1>1 DEF ReceiverStep

\* The passes of the event loop.
LEMMA PassSender ==
  ASSUME ReceivedInv, NEW p \in Peer, NEW t, Rewound(t, tx[p]), NEW u, NEW out,
         PassStep(p, t, u, out),
         NEW w, \A k \in Among(w) : k \in Among(out) \/ k.t \notin {"FINFO", "EOF"}
  PROVE  SenderStep(p, tx[p], u, w)
<1> DEFINE x == tx[p]
<1>1. Ordered(p, net[Other(p)], x)
  BY TheOther DEF ReceivedInv
<1>2. x.next \in 1..(Len(Offers[p]) + 1) /\ Len(Offers[p]) \in Nat
  BY <1>1, PlaceOf DEF Ordered
<1>3. x.lastFinfo # NoFile => x.state \in {"Finfo", "FinfoAck"}
  BY <1>1 DEF Ordered
<1>4. /\ t.lastFinfo = x.lastFinfo /\ t.next = x.next
      /\ x.lastFinfo # NoFile => t.state \in {"Finfo", "FinfoAck"}
  BY <1>3 DEF Rewound, SameFile, Early, Transferring, FromEnd
<1>5. NoFile \notin File /\ EOB \notin File
  BY MarkerAssumption
<1> HIDE DEF x
<1>6. CASE t.state = "Finfo" /\ u.state = "FinfoAck" /\ Announces(p, t, u)
           /\ out = <<Pkt("FINFO", u.lastFinfo, 0, 0, 0)>>
  <2>1. \A k \in Among(w) : /\ Announcement(k) => k.f = u.lastFinfo
                            /\ k.t # "EOF"
    <3>1. \A k \in Among(out) : k.t = "FINFO" /\ k.f = u.lastFinfo
      <4>1. \A f : Pkt("FINFO", f, 0, 0, 0).t = "FINFO" /\ Pkt("FINFO", f, 0, 0, 0).f = f
        BY DEF Pkt
      <4> QED
        BY <1>6, <4>1, AmongFew
    <3> QED
      BY <3>1 DEF Announcement
  <2>2. \/ u.lastFinfo = x.lastFinfo /\ u.next = x.next
        \/ u.lastFinfo \notin File /\ u.next = Len(Offers[p]) + 1
        \/ /\ u.next \in (x.next + 1)..(Len(Offers[p]) + 1)
           /\ u.lastFinfo = Offers[p][u.next - 1]
    BY <1>4, <1>5, <1>6 DEF Announces
  <2>3. u.next \in x.next..(Len(Offers[p]) + 1)
    BY <1>2, <2>2
  <2>4. \/ u.lastFinfo \notin File
        \/ u.lastFinfo = x.lastFinfo /\ u.next = x.next
        \/ u.next > x.next /\ u.lastFinfo = Offers[p][u.next - 1]
    BY <1>2, <2>2
  <2> QED
    BY <1>6, <2>1, <2>3, <2>4 DEF SenderStep, x
<1>7. CASE u = t /\ out = <<>>
  <2>1. Among(out) = {}
    BY <1>7, AmongFew
  <2>2. \A k \in Among(w) : k.t \notin {"FINFO", "EOF"}
    BY <2>1
  <2>3. x.next \in x.next..(Len(Offers[p]) + 1)
    BY <1>2
  <2> QED
    BY <1>4, <1>7, <2>2, <2>3 DEF SenderStep, Announcement, x
<1>8. CASE SameFile(u, t) /\ t.state \notin {"Finfo", "FinfoAck"}
           /\ \A k \in Among(out) : k.t # "FINFO"
  <2>1. u.lastFinfo = NoFile /\ u.next = x.next
    BY <1>4, <1>8 DEF SameFile
  <2>2. x.next \in x.next..(Len(Offers[p]) + 1)
    BY <1>2
  <2> QED
    BY <1>5, <1>8, <2>1, <2>2 DEF SenderStep, Announcement, x
<1>9. \/ t.state = "Finfo" /\ u.state = "FinfoAck" /\ Announces(p, t, u)
         /\ out = <<Pkt("FINFO", u.lastFinfo, 0, 0, 0)>>
      \/ u = t /\ out = <<>>
      \/ SameFile(u, t) /\ t.state \notin {"Finfo", "FinfoAck"}
         /\ (out = <<>> \/ \E k : k.t # "FINFO" /\ (out = <<k>> \/ out = <<k, k>>))
  <2>1. /\ Ctl("START").t # "FINFO" /\ Ctl("INIT").t # "FINFO" /\ Ctl("END").t # "FINFO"
        /\ \A f, off, n : Pkt("DATA", f, off, n, 0).t # "FINFO"
        /\ \A off : OffPkt("EOF", off).t # "FINFO"
    BY DEF Ctl, OffPkt, Pkt
  <2> QED
    BY <2>1 DEF PassStep
<1>10. (out = <<>> \/ \E k : k.t # "FINFO" /\ (out = <<k>> \/ out = <<k, k>>))
       => \A k \in Among(out) : k.t # "FINFO"
  BY AmongFew
<1> QED
  BY <1>6, <1>7, <1>8, <1>9, <1>10

\* A pass, or a Run given up or left.
LEMMA LoopReceived ==
  ASSUME SentInv, ReceivedInv, NEW p \in Peer, Loop(p) \/ fireTimers(p)
  PROVE  ReceivedInv'
<1>0. /\ tx[p] \in TxType /\ rx[p] \in RxType /\ dev[p] \in DevType
      /\ net \in [Peer -> Seq(Packet)]
  BY DEF SentInv, TypeOK, MachinesOK
<1>1. <<>> \in Seq(Packet) /\ Among(<<>>) = {} /\ SameRx(rx[p], rx[p])
  BY AmongFew DEF SameRx
<1>2. CASE Finish(p, "err", tx[p], rx[p], dev[p], <<>>)
  <2>1. SenderStep(p, tx[p], tx[p], <<>>)
    BY <1>1, QuietSender
  <2> QED
    BY <1>0, <1>1, <1>2, <2>1, FinishReceived
<1>3. CASE /\ tx[p].state = "EndAck"
           /\ Finish(p, "ok", [tx[p] EXCEPT !.state = "Done"], rx[p], dev[p], <<>>)
  <2> DEFINE u == [tx[p] EXCEPT !.state = "Done"]
  <2>1. u \in TxType /\ SameFile(u, tx[p])
    BY <1>0, StateKeeps DEF TxState
  <2>2. Finish(p, "ok", u, rx[p], dev[p], <<>>)
    BY <1>3
  <2> HIDE DEF u
  <2>3. SenderStep(p, tx[p], u, <<>>)
    BY <1>1, <1>3, <2>1, QuietSender DEF SameFile
  <2> QED
    BY <1>0, <1>1, <2>1, <2>2, <2>3, FinishReceived
<1>4. ASSUME res[p] = "run", NEW t \in TxType, NEW d \in DevType,
             NEW pre \in {<<>>, <<Ctl("IDLE")>>},
             Rewound(t, tx[p]), TxShape(p, t), Pass(p, t, d, pre)
      PROVE  ReceivedInv'
  <2>1. PICK u \in TxType, out \in Seq(Packet) :
          Sent(p, t, d, u, pre, out) /\ PassStep(p, t, u, out)
    BY <1>4, PassMoves
  <2> DEFINE w == devSends(t, d)
  <2>2. w \in Seq(Packet) /\ \A k \in Among(w) : k.t \notin {"FINFO", "EOF"}
    <3>1. w \in Seq(Packet)
      BY <1>4, DevActionKeeps
    <3>2. w = <<>> \/ \E id, n : w = <<Pkt("DEVDATA", NoFile, n, 0, id)>>
      BY DEF devSends
    <3>3. \A n, id : Pkt("DEVDATA", NoFile, n, 0, id).t = "DEVDATA"
      BY DEF Pkt
    <3> QED
      BY <3>1, <3>2, <3>3, AmongFew
  <2>3. pre \in Seq(Packet) /\ \A k \in Among(pre) : k.t \notin {"FINFO", "EOF"}
    <3>1. "IDLE" \in PlainType /\ Ctl("IDLE").t = "IDLE"
      BY DEF PktType, PlainType, Ctl, Pkt
    <3>2. Ctl("IDLE") \in Packet
      BY <3>1, ControlPacket
    <3>3. pre = <<>> \/ pre = <<Ctl("IDLE")>>
      BY <1>4
    <3>4. <<>> \in Seq(Packet) /\ <<Ctl("IDLE")>> \in Seq(Packet)
      BY <3>2
    <3>5. pre \in Seq(Packet)
      BY <3>3, <3>4, Zenon
    <3> QED
      BY <3>1, <3>3, <3>5, AmongFew
  <2>4. /\ Continue(p, net, u, rx[p], devAction(t, d), pre \o w \o out)
        /\ rDone' = rDone /\ opened' = opened
    BY <2>1 DEF Sent
  <2> HIDE DEF w
  <2>5. pre \o w \in Seq(Packet) /\ (pre \o w) \o out \in Seq(Packet)
    BY <2>1, <2>2, <2>3
  <2>6. Among(pre \o w \o out) = Among(pre) \cup Among(w) \cup Among(out)
    <3>1. Among(pre \o w) = Among(pre) \cup Among(w)
      BY <2>2, <2>3, AmongConcat
    <3>2. Among((pre \o w) \o out) = Among(pre \o w) \cup Among(out)
      BY <2>1, <2>5, AmongConcat
    <3> QED
      BY <3>1, <3>2
  <2>7. SenderStep(p, tx[p], u, pre \o w \o out)
    BY <1>4, <2>1, <2>2, <2>3, <2>6, PassSender
  <2>8. ReceiverStep(net[p], net[p], rx[p], rx[p], rDone, rDone', opened, opened')
    <3>1. Extends(net[p], net[p], <<>>)
      BY <1>0, ExtendsLess
    <3> QED
      BY <1>1, <2>4, <3>1 DEF ReceiverStep
  <2> QED
    BY <1>0, <1>4, <2>4, <2>5, <2>7, <2>8, ContinueReceived
<1> QED
  BY <1>2, <1>3, <1>4, LoopMoves

\* START, INIT, INITACK, IDLE and END.
LEMMA HandshakeReceived ==
  ASSUME SentInv, ReceivedInv, NEW p \in Peer,
         handleStart(p) \/ rxInit(p) \/ handleInitAck(p) \/ txIdle(p) \/ txEnd(p)
  PROVE  ReceivedInv'
<1> DEFINE n == net[p]
<1>0. tx[p] \in TxType /\ rx[p] \in RxType /\ dev[p] \in DevType /\ n \in Seq(Packet)
  BY DEF SentInv, TypeOK, MachinesOK
<1>1. <<>> \in Seq(Packet) /\ Among(<<>>) = {}
  BY AmongFew
<1>2. "Init" \in TxState /\ "Rinit" \in TxState /\ "Xdata" \in TxState
  BY DEF TxState
<1> HIDE DEF n
<1>3. ASSUME NEW type, Hears(p, type), NEW t \in TxType, Handled(p, t, rx[p], dev[p], <<>>),
             SameFile(t, tx[p]),
             t.state = tx[p].state \/ tx[p].state \notin {"Finfo", "FinfoAck"},
             UNCHANGED <<files, devGot>>
      PROVE  ReceivedInv'
  <2>1. SenderStep(p, tx[p], t, <<>>)
    BY <1>1, <1>3, QuietSender DEF SameFile
  <2>2. n # <<>> /\ rDone' = rDone /\ opened' = opened
    BY <1>3 DEF Hears, files, n
  <2>3. ReceiverStep(n, Tail(n), rx[p], rx[p], rDone, rDone', opened, opened')
    BY <1>0, <2>2, QuietReceiver
  <2> QED
    BY <1>1, <1>3, <2>1, <2>3, HandledReceived DEF n
<1>4. CASE handleStart(p)
  <2>1. PICK t : /\ Hears(p, "START") /\ Handled(p, t, rx[p], dev[p], <<>>)
                 /\ UNCHANGED <<files, devGot>>
                 /\ \/ t = tx[p]
                    \/ tx[p].state \in {"Start", "Swait"} /\ t = Advance(tx[p], "Init")
    BY <1>4 DEF handleStart
  <2>2. t \in TxType /\ SameFile(t, tx[p])
    BY <2>1, <1>0, <1>2, AdvanceKeeps DEF SameFile
  <2> QED
    BY <1>3, <2>1, <2>2
<1>5. CASE handleInitAck(p)
  <2>1. PICK t : /\ Hears(p, "INITACK") /\ Handled(p, t, rx[p], dev[p], <<>>)
                 /\ UNCHANGED <<files, devGot>>
                 /\ \/ t = tx[p]
                    \/ tx[p].state \in {"Init", "InitAck"} /\ t = Advance(tx[p], "Rinit")
    BY <1>5 DEF handleInitAck
  <2>2. t \in TxType /\ SameFile(t, tx[p])
    BY <2>1, <1>0, <1>2, AdvanceKeeps DEF SameFile
  <2> QED
    BY <1>3, <2>1, <2>2
<1>6. CASE txIdle(p)
  <2>1. PICK t : /\ Hears(p, "IDLE") /\ Handled(p, t, rx[p], dev[p], <<>>)
                 /\ UNCHANGED <<files, devGot>>
                 /\ \/ t = tx[p]
                    \/ /\ tx[p].state = "Xwait"
                       /\ t = [Advance(tx[p], "Xdata") EXCEPT !.hdxlink = FALSE]
    BY <1>6 DEF txIdle
  <2>2. t \in TxType /\ SameFile(t, tx[p])
    <3>1. CASE t = tx[p]
      BY <3>1, <1>0 DEF SameFile
    <3>2. CASE t = [Advance(tx[p], "Xdata") EXCEPT !.hdxlink = FALSE]
      <4> DEFINE u == Advance(tx[p], "Xdata")
      <4>1. u \in TxType /\ SameFile(u, tx[p])
        BY <1>0, <1>2, AdvanceKeeps
      <4>2. t = [u EXCEPT !.hdxlink = FALSE]
        BY <3>2
      <4> HIDE DEF u
      <4>3. t \in TxType /\ SameFile(t, u)
        BY <4>1, <4>2, HdxlinkKeeps
      <4> QED
        BY <4>1, <4>3 DEF SameFile
    <3> QED
      BY <2>1, <3>1, <3>2
  <2> QED
    BY <1>3, <2>1, <2>2
<1>7. CASE rxInit(p)
  <2> DEFINE out == <<Ctl("INITACK")>>
  <2>1. PICK t, r : /\ Hears(p, "INIT") /\ Handled(p, t, r, dev[p], out)
                    /\ UNCHANGED <<files, devGot>>
                    /\ t = tx[p] \/ t = [tx[p] EXCEPT !.window = Window[p]]
                    /\ \/ rx[p].state = "Init" /\ r = [rx[p] EXCEPT !.state = "Finfo"]
                       \/ rx[p].state # "Init" /\ r = rx[p]
    BY <1>7 DEF rxInit
  <2>2. t \in TxType /\ SameFile(t, tx[p]) /\ t.state = tx[p].state
    <3>1. Window[p] \in Nat
      BY BoundAssumption
    <3> QED
      BY <2>1, <3>1, <1>0, WindowKeeps DEF SameFile
  <2>3. out \in Seq(Packet) /\ \A k \in Among(out) : k.t \notin {"FINFO", "EOF"}
    <3>1. "INITACK" \in PlainType /\ Ctl("INITACK").t = "INITACK"
      BY DEF PktType, PlainType, Ctl, Pkt
    <3>2. Ctl("INITACK") \in Packet
      BY <3>1, ControlPacket
    <3> QED
      BY <3>1, <3>2, AmongFew
  <2> HIDE DEF out
  <2>4. SenderStep(p, tx[p], t, out)
    BY <2>2, <2>3, QuietSender DEF SameFile
  <2>5. n # <<>> /\ rDone' = rDone /\ opened' = opened
    BY <2>1 DEF Hears, files, n
  <2>6. Extends(Tail(n), n, <<>>)
    BY <1>0, <2>5, TailOrder
  <2>7. ReceiverStep(n, Tail(n), rx[p], r, rDone, rDone', opened, opened')
    BY <2>1, <2>5, <2>6 DEF ReceiverStep, SameRx
  <2> QED
    BY <2>1, <2>2, <2>3, <2>4, <2>7, HandledReceived DEF n
<1>8. CASE txEnd(p)
  <2> DEFINE u == [tx[p] EXCEPT !.timer = FALSE, !.state = "Done"]
             out == <<Ctl("END"), Ctl("END"), Ctl("END")>>
  <2>1. /\ Hears(p, "END")
        /\ \/ tx[p].state \in {"End", "EndAck"} /\ Finish(p, "ok", u, rx[p], dev[p], out)
           \/ Handled(p, tx[p], rx[p], dev[p], <<>>) /\ UNCHANGED <<files, devGot>>
    BY <1>8 DEF txEnd
  <2>2. CASE Handled(p, tx[p], rx[p], dev[p], <<>>) /\ UNCHANGED <<files, devGot>>
    BY <1>0, <1>3, <2>1, <2>2 DEF SameFile
  <2>3. CASE tx[p].state \in {"End", "EndAck"} /\ Finish(p, "ok", u, rx[p], dev[p], out)
    <3>1. u \in TxType /\ u.lastFinfo = tx[p].lastFinfo /\ u.next = tx[p].next
      BY <1>0, DoneKeeps DEF TxType
    <3>2. out \in Seq(Packet) /\ \A k \in Among(out) : k.t \notin {"FINFO", "EOF"}
      <4>1. "END" \in PlainType /\ Ctl("END").t = "END"
        BY DEF PktType, PlainType, Ctl, Pkt
      <4>2. Ctl("END") \in Packet
        BY <4>1, ControlPacket
      <4> QED
        BY <4>1, <4>2, AmongFew
    <3> HIDE DEF u, out
    <3>3. SenderStep(p, tx[p], u, out)
      BY <2>3, <3>1, <3>2, QuietSender
    <3> QED
      BY <1>0, <2>3, <3>1, <3>2, <3>3, FinishReceived DEF SameRx
  <2> QED
    BY <2>1, <2>2, <2>3
<1> QED
  BY <1>4, <1>5, <1>6, <1>7, <1>8

\* The packets that concern files, and the device channel's.
LEMMA PacketReceived ==
  ASSUME SentInv, ReceivedInv, NEW p \in Peer,
         \/ rxFinfo(p) \/ acceptFinfo(p) \/ rxData(p) \/ rxEOF(p)
         \/ txFinfoAck(p) \/ txDataAck(p) \/ txRpos(p) \/ txEOFAck(p)
         \/ devRx(p) \/ devDack(p)
  PROVE  ReceivedInv'
<1> DEFINE n == net[p]
           k == Head(n)
<1>0. tx[p] \in TxType /\ rx[p] \in RxType /\ dev[p] \in DevType /\ n \in Seq(Packet)
  BY DEF SentInv, TypeOK, MachinesOK
<1>1. <<>> \in Seq(Packet) /\ Among(<<>>) = {} /\ SameRx(rx[p], rx[p])
  BY AmongFew DEF SameRx
<1>2. \A out : (\A j \in Among(out) : j.t \in Answer)
               => \A j \in Among(out) : j.t \notin {"FINFO", "EOF"}
  BY DEF Answer
<1>3. CASE rxFinfo(p) \/ acceptFinfo(p) \/ rxData(p) \/ rxEOF(p)
  <2>1. /\ Hears(p, k.t)
        /\ \E t \in TxType : \E v \in RxType : \E out \in Seq(Packet) : RxMove(p, k, t, v, out)
    BY <1>3, RxMoves
  <2>2. PICK t \in TxType, v \in RxType, out \in Seq(Packet) : RxMove(p, k, t, v, out)
    BY <2>1
  <2>3. SenderStep(p, tx[p], t, out)
    BY <1>2, <2>2, QuietSender DEF RxMove, SameFile
  <2>4. CASE Handled(p, t, v, dev[p], out) /\ RxStep(k, rx[p], v, rDone, rDone')
    <3>1. ReceiverStep(n, Tail(n), rx[p], v, rDone, rDone', opened, opened')
      BY <2>1, <2>2, <2>4 DEF ReceiverStep, RxMove, Opens, Hears
    <3> QED
      BY <2>1, <2>3, <2>4, <3>1, HandledReceived
  <2>5. CASE Finish(p, "err", t, v, dev[p], out) /\ SameRx(v, rx[p])
    BY <2>3, <2>5, FinishReceived
  <2> QED
    BY <2>2, <2>4, <2>5 DEF RxMove
<1>4. CASE txFinfoAck(p) \/ txDataAck(p) \/ txRpos(p) \/ txEOFAck(p)
  <2>1. /\ Hears(p, k.t)
        /\ \/ Finish(p, "err", tx[p], rx[p], dev[p], <<>>)
           \/ /\ rDone' = rDone /\ opened' = opened
              /\ \E u \in TxType : TxMove(tx[p], u) /\ Handled(p, u, rx[p], dev[p], <<>>)
    BY <1>4, TxMoves
  <2>2. CASE Finish(p, "err", tx[p], rx[p], dev[p], <<>>)
    <3>1. SenderStep(p, tx[p], tx[p], <<>>)
      BY <1>1, QuietSender
    <3> QED
      BY <1>0, <1>1, <2>2, <3>1, FinishReceived
  <2>3. ASSUME rDone' = rDone, opened' = opened,
               NEW u \in TxType, TxMove(tx[p], u), Handled(p, u, rx[p], dev[p], <<>>)
        PROVE  ReceivedInv'
    <3>1. SenderStep(p, tx[p], u, <<>>)
      <4>1. /\ u.next = tx[p].next
            /\ u.lastFinfo = tx[p].lastFinfo \/ u.lastFinfo = NoFile
            /\ \/ u.state = tx[p].state
               \/ u.lastFinfo = NoFile
               \/ tx[p].state \notin {"Finfo", "FinfoAck"}
        BY <2>3 DEF TxMove, SameFile, Transferring
      <4> QED
        BY <1>1, <4>1, QuietSender
    <3>2. n # <<>>
      BY <2>1 DEF Hears
    <3>3. ReceiverStep(n, Tail(n), rx[p], rx[p], rDone, rDone', opened, opened')
      BY <1>0, <2>3, <3>2, QuietReceiver
    <3> QED
      BY <1>1, <2>1, <2>3, <3>1, <3>3, HandledReceived
  <2> QED
    BY <2>1, <2>2, <2>3
<1>5. CASE devRx(p) \/ devDack(p)
  <2>1. PICK type, d, out :
          /\ Hears(p, type) /\ Handled(p, tx[p], rx[p], d, out)
          /\ rDone' = rDone /\ opened' = opened
          /\ \/ out = <<Pkt("DEVDACK", NoFile, 0, 0, k.id)>>
             \/ out = <<>>
    BY <1>5 DEF devRx, devDack, files
  <2>2. k.id \in Nat
    BY <2>1, Hearing
  <2>3. out \in Seq(Packet)
    BY <1>1, <2>1, <2>2, DackPacket
  <2>4. \A j \in Among(out) : j.t \notin {"FINFO", "EOF"}
    BY <2>1, AmongFew DEF Pkt
  <2>5. SenderStep(p, tx[p], tx[p], out)
    BY <2>4, QuietSender
  <2>6. n # <<>>
    BY <2>1 DEF Hears
  <2>7. ReceiverStep(n, Tail(n), rx[p], rx[p], rDone, rDone', opened, opened')
    BY <1>0, <2>1, <2>6, QuietReceiver
  <2> QED
    BY <1>0, <2>1, <2>3, <2>5, <2>7, HandledReceived
<1> QED
  BY <1>3, <1>4, <1>5

\* A packet lost, the application's calls, and a Run ended from outside.
LEMMA OutsideReceived ==
  ASSUME SentInv, ReceivedInv, NEW p \in Peer,
         SendDevice(p) \/ queueDev(p) \/ Corrupt(p) \/ Fail(p)
  PROVE  ReceivedInv'
<1>0. /\ tx[p] \in TxType /\ rx[p] \in RxType /\ net \in [Peer -> Seq(Packet)]
      /\ <<>> \in Seq(Packet) /\ Among(<<>>) = {} /\ SameRx(rx[p], rx[p])
  BY AmongFew DEF SentInv, TypeOK, MachinesOK, SameRx
<1>1. SenderStep(p, tx[p], tx[p], <<>>)
  BY <1>0, QuietSender
<1>2. CASE SendDevice(p) \/ queueDev(p)
  <2>1. UNCHANGED <<tx, rx, net, res, rDone, opened>>
    BY <1>2 DEF SendDevice, queueDev, files
  <2> QED
    BY <2>1 DEF ReceivedInv, Ordered, Level, Met
<1>3. CASE Corrupt(p)
  <2>1. Other(p) \in Peer /\ Other(p) # p
    BY TheOther
  <2>2. /\ net'[p] = Tail(net[p]) /\ net'[Other(p)] = net[Other(p)] /\ net[p] # <<>>
        /\ tx' = tx /\ rx' = rx /\ res' = res /\ rDone' = rDone /\ opened' = opened
    BY <1>0, <1>3, <2>1 DEF Corrupt, Taken, files
  <2>3. Extends(net[Other(p)], net[Other(p)], <<>>)
    BY <1>0, <2>1, ExtendsLess
  <2>4. ReceiverStep(net[p], Tail(net[p]), rx[p], rx[p], rDone, rDone, opened, opened)
    BY <1>0, <2>2, QuietReceiver
  <2>5. res'[p] # "run" => ~rx'[p].open
    BY <2>2 DEF ReceivedInv
  <2> QED
    BY <1>1, <2>2, <2>3, <2>4, <2>5, StepReceived
<1>4. CASE Fail(p)
  <2>1. PICK result : Finish(p, result, tx[p], rx[p], dev[p], <<>>)
    BY <1>4 DEF Fail
  <2> QED
    BY <1>0, <1>1, <2>1, FinishReceived
<1> QED
  BY <1>2, <1>3, <1>4

-----------------------------------------------------------------------------
(* The theorem.                                                            *)

\* Nothing is announced and nothing is open when both start.
LEMMA InitReceived == Init => ReceivedInv
<1> SUFFICES ASSUME Init PROVE ReceivedInv
  OBVIOUS
<1>1. \A p \in Peer : /\ net[p] = <<>> /\ rx[p] = newRx /\ tx[p] = newTx
  BY DEF Init
<1>2. (\A f \in File : rDone[f] = <<>>) /\ opened = {}
  BY DEF Init
<1>3. Among(<<>>) = {} /\ Len(<<>>) = 0
  BY AmongFew
<1>4. newTx.lastFinfo = NoFile /\ newTx.next = 1 /\ ~newRx.open /\ newRx.state = "Init"
  BY DEF newTx, newRx
<1>5. ASSUME NEW p \in Peer
      PROVE  Ordered(p, <<>>, newTx)
  <2>1. 1 \in 1..(Len(Offers[p]) + 1)
    BY PlaceOf
  <2> QED
    BY <1>3, <1>4, <2>1, MarkerAssumption DEF Ordered, Behind, Follows, Cut
<1>6. ASSUME NEW p \in Peer
      PROVE  Level(p, <<>>, newTx, newRx, rDone, opened)
  BY <1>2, <1>3, <1>4, PlaceOf DEF Level, Met
<1> QED
  BY <1>1, <1>2, <1>4, <1>5, <1>6 DEF ReceivedInv

\* Every step keeps it.
LEMMA NextReceived == SentInv /\ ReceivedInv /\ [Next]_vars => ReceivedInv'
<1> SUFFICES ASSUME SentInv, ReceivedInv, [Next]_vars PROVE ReceivedInv'
  OBVIOUS
<1>1. CASE UNCHANGED vars
  BY <1>1 DEF vars, ReceivedInv, Ordered, Level, Met
<1>2. ASSUME NEW p \in Peer, Loop(p) \/ fireTimers(p) \/ handlePacket(p)
      PROVE  ReceivedInv'
  BY <1>2, LoopReceived, HandshakeReceived, PacketReceived DEF handlePacket
<1>3. ASSUME NEW p \in Peer, SendDevice(p) \/ queueDev(p) \/ Corrupt(p) \/ Fail(p)
      PROVE  ReceivedInv'
  BY <1>3, OutsideReceived
<1> QED
  BY <1>1, <1>2, <1>3 DEF Next, Over

\* At most one call, and some, is one.
LEMMA JustOnce ==
  ASSUME NEW x \in Seq(Outcome), x # <<>>, Len(x) <= 1
  PROVE  Len(x) = 1
<1>1. Len(x) \in Nat
  OBVIOUS
<1>2. PICK n \in Nat : n = Len(x)
  BY <1>1, Zenon
<1>3. n # 0 /\ n <= 1
  BY <1>2
<1>4. n = 1
  BY <1>3
<1> QED
  BY <1>2, <1>4, Zenon

\* A file that has been met, and is not open, has been completed.
LEMMA ReceivedImplies == SentInv /\ ReceivedInv => ReceivedOnce
<1> SUFFICES ASSUME SentInv, ReceivedInv PROVE ReceivedOnce
  OBVIOUS
<1>1. rDone \in [File -> Seq(Outcome)]
  BY DEF SentInv, TypeOK, HistoryOK
<1>2. ASSUME NEW p \in Peer
      PROVE  Level(Other(p), net[p], tx[Other(p)], rx[p], rDone, opened) /\ Other(p) \in Peer
  BY TheOther DEF ReceivedInv
<1>3. ASSUME NEW f \in File
      PROVE  Len(rDone[f]) <= 1
  <2>1. CASE \E q \in Peer : f \in Offered(q)
    <3>1. PICK q \in Peer : f \in Offered(q)
      BY <2>1
    <3>2. Other(q) \in Peer /\ Other(Other(q)) = q
      BY TheOther
    <3> QED
      BY <1>2, <3>1, <3>2 DEF Level
  <2>2. CASE \A q \in Peer : f \notin Offered(q)
    <3>1. rDone[f] = <<>> /\ Len(<<>>) = 0
      BY <2>2 DEF ReceivedInv
    <3> QED
      BY <3>1
  <2> QED
    BY <2>1, <2>2
<1>4. ASSUME NEW p \in Peer, res[p] # "run", NEW f \in Offered(Other(p)) \cap opened
      PROVE  Len(rDone[f]) = 1
  <2>1. f \in File /\ Met(rx[p], rDone, f)
    BY <1>2, PlaceOf DEF Level
  <2>2. rDone[f] # <<>>
    BY <1>4, <2>1 DEF ReceivedInv, Met
  <2>3. rDone[f] \in Seq(Outcome)
    BY <1>1, <2>1
  <2>4. Len(rDone[f]) <= 1
    BY <1>3, <2>1
  <2> QED
    BY <2>2, <2>3, <2>4, JustOnce, Zenon
<1> QED
  BY <1>3, <1>4 DEF ReceivedOnce

\* RecvHandler.FileCompleted fires at most once per file, although FINFO and
\* EOF are repeated and a file is closed by its EOF, a write error, a skip or
\* the deferred teardown, and once Run has returned it has fired for every
\* file AcceptFile opened, whatever is lost and for every choice of the
\* constants.
THEOREM ReceiverExactlyOnce == Spec => []ReceivedOnce
<1>1. Spec => []ReceivedInv
  BY InitReceived, NextReceived, Invariance, PTL DEF Spec
<1> QED
  BY <1>1, Invariance, ReceivedImplies, PTL

-----------------------------------------------------------------------------
(* The device channel: the invariant.                                      *)

\* The datagrams not yet taken up, in the queue and in the channel before it,
\* are numbered on from the last one that was.
DevQueues(d) ==
    /\ d.asked = d.txID + Len(d.queue) + Len(d.devQ)
    /\ \A i \in 1..Len(d.queue) : d.queue[i] = d.txID + i
    /\ \A i \in 1..Len(d.devQ) : d.devQ[i] = d.txID + Len(d.queue) + i

\* How one direction of the device channel stands: d is the sender's DEV
\* machine, n the channel towards the receiver, m the one back, r the last id
\* the receiver took and g what its application was given.
DevLevel(d, n, m, r, g) ==
    /\ DevQueues(d)
    /\ d.pending \in {0, d.txID}
    /\ d.state = "Done" <=> d.pending = 0
    /\ r \in Nat
    /\ r <= d.txID /\ d.txID <= r + 1
    /\ d.pending = 0 => r = d.txID
    /\ g = [i \in 1..r |-> i]
    /\ \A k \in Among(n) : k.t = "DEVDATA" => k.id \in {r, d.txID} /\ k.off = k.id
    /\ \A k, l : Follows(n, k, l) /\ k.t = "DEVDATA" /\ l.t = "DEVDATA" => k.id <= l.id
    /\ \A k \in Among(m) : k.t = "DEVDACK" => k.id <= r

DeviceInv ==
    DevOn => \A p \in Peer : DevLevel(dev[p], net[Other(p)], net[p],
                                      dev[Other(p)].rxID, devGot[Other(p)])

-----------------------------------------------------------------------------
(* What the two ends do to it.                                             *)

\* The sender's side of the machine is left alone.
SameDev(e, d) ==
    /\ e.txID = d.txID /\ e.pending = d.pending /\ e.queue = d.queue
    /\ e.devQ = d.devQ /\ e.asked = d.asked
    /\ e.state = "Done" <=> d.state = "Done"

\* A step of the sending end, with m its inbox: nothing new, the next datagram
\* taken up, the one in flight acknowledged, one moved to the queue, one asked
\* for.  Whatever is written is the datagram in flight.
DevSend(m, d, e, out) ==
    /\ \/ SameDev(e, d)
       \/ /\ d.pending = 0 /\ d.queue # <<>> /\ e.state # "Done"
          /\ e.queue = Tail(d.queue) /\ e.pending = Head(d.queue) /\ e.txID = d.txID + 1
          /\ e.devQ = d.devQ /\ e.asked = d.asked
       \/ /\ \E k \in Among(m) : k.t = "DEVDACK" /\ k.id = d.txID
          /\ e.pending = 0 /\ e.state = "Done"
          /\ e.txID = d.txID /\ e.queue = d.queue /\ e.devQ = d.devQ /\ e.asked = d.asked
       \/ /\ d.devQ # <<>> /\ e.devQ = Tail(d.devQ) /\ e.queue = Append(d.queue, Head(d.devQ))
          /\ e.txID = d.txID /\ e.pending = d.pending /\ e.asked = d.asked /\ e.state = d.state
       \/ /\ e.asked = d.asked + 1 /\ e.devQ = Append(d.devQ, d.asked + 1)
          /\ e.txID = d.txID /\ e.pending = d.pending /\ e.queue = d.queue /\ e.state = d.state
    /\ \A k \in Among(out) : k.t = "DEVDATA" =>
          k.id = e.txID /\ k.off = e.pending /\ e.pending # 0

\* A step of the receiving end: n is its inbox before and o after it, r and g
\* become s and h.
DevReceive(n, o, r, s, g, h, out) ==
    \/ /\ Extends(o, n, <<>>) /\ s = r /\ h = g
       /\ \A k \in Among(out) : k.t # "DEVDACK"
    \/ /\ n # <<>> /\ o = Tail(n) /\ Head(n).t = "DEVDATA" /\ s = Head(n).id
       /\ h = IF Head(n).id # r THEN Append(g, Head(n).off) ELSE g
       /\ \A k \in Among(out) : k.t = "DEVDACK" => k.id = s

\* One more datagram.
LEMMA CountUp ==
  ASSUME NEW r \in Nat
  PROVE  Append([i \in 1..r |-> i], r + 1) = [i \in 1..(r + 1) |-> i]
<1> DEFINE g == [i \in 1..r |-> i]
<1>1. g \in Seq(Nat) /\ Len(g) = r
  OBVIOUS
<1> QED
  BY <1>1

\* The queues after a datagram is taken up, moved, or asked for.
LEMMA SendQueues ==
  ASSUME NEW m, NEW d \in DevType, NEW e \in DevType, NEW out, DevSend(m, d, e, out), DevQueues(d)
  PROVE  DevQueues(e)
<1>1. /\ d.txID \in Nat /\ d.asked \in Nat /\ d.queue \in Seq(Nat) /\ d.devQ \in Seq(Nat)
      /\ e.txID \in Nat /\ e.asked \in Nat /\ e.queue \in Seq(Nat) /\ e.devQ \in Seq(Nat)
  BY DEF DevType
<1> DEFINE a == Len(d.queue)
           b == Len(d.devQ)
<1>2. a \in Nat /\ b \in Nat
  BY <1>1
<1>3. /\ d.asked = d.txID + a + b
      /\ \A i \in 1..a : d.queue[i] = d.txID + i
      /\ \A i \in 1..b : d.devQ[i] = d.txID + a + i
  BY DEF DevQueues
<1>8. d.asked = d.txID + a + b
  BY DEF DevQueues
<1>9. /\ d.txID \in Nat /\ d.asked \in Nat /\ e.txID \in Nat /\ e.asked \in Nat
  BY <1>1
<1>4. CASE e.txID = d.txID /\ e.queue = d.queue /\ e.devQ = d.devQ /\ e.asked = d.asked
  BY <1>4 DEF DevQueues
<1>5. CASE /\ d.queue # <<>> /\ e.queue = Tail(d.queue) /\ e.txID = d.txID + 1
           /\ e.devQ = d.devQ /\ e.asked = d.asked
  <2>1. /\ Len(e.queue) = a - 1 /\ Len(e.devQ) = b
        /\ \A i \in 1..(a - 1) : e.queue[i] = d.queue[i + 1] /\ i + 1 \in 1..a
    BY <1>1, <1>5
  <2>0. e.txID = d.txID + 1 /\ e.asked = d.asked /\ e.devQ = d.devQ
    BY <1>5
  <2> HIDE DEF a, b
  <2>2. e.asked = e.txID + (a - 1) + b
    BY <1>2, <1>8, <1>9, <2>0
  <2>3. ASSUME NEW i \in 1..(a - 1) PROVE e.queue[i] = e.txID + i
    <3>1. e.queue[i] = d.txID + (i + 1)
      BY <1>3, <2>1
    <3> QED
      BY <1>2, <1>9, <2>0, <3>1
  <2>4. ASSUME NEW i \in 1..b PROVE e.devQ[i] = e.txID + (a - 1) + i
    <3>1. e.devQ[i] = d.txID + a + i
      BY <1>3, <2>0
    <3> QED
      BY <1>2, <1>9, <2>0, <3>1
  <2> QED
    BY <2>1, <2>2, <2>3, <2>4 DEF DevQueues
<1>6. CASE /\ d.devQ # <<>> /\ e.devQ = Tail(d.devQ) /\ e.queue = Append(d.queue, Head(d.devQ))
           /\ e.txID = d.txID /\ e.asked = d.asked
  <2>1. /\ Len(e.devQ) = b - 1 /\ Head(d.devQ) = d.devQ[1] /\ 1 \in 1..b
        /\ \A i \in 1..(b - 1) : e.devQ[i] = d.devQ[i + 1] /\ i + 1 \in 1..b
    BY <1>1, <1>6
  <2>2. Head(d.devQ) \in Nat
    BY <1>1, <1>6
  <2>3. /\ Len(e.queue) = a + 1 /\ e.queue[a + 1] = Head(d.devQ)
        /\ \A i \in 1..a : e.queue[i] = d.queue[i]
    BY <1>1, <1>6, <2>2
  <2>0. e.txID = d.txID /\ e.asked = d.asked
    BY <1>6
  <2> HIDE DEF a, b
  <2>4. e.asked = e.txID + (a + 1) + (b - 1)
    BY <1>2, <1>8, <1>9, <2>0
  <2>5. e.queue[a + 1] = e.txID + (a + 1)
    <3>1. e.queue[a + 1] = d.txID + a + 1
      BY <1>3, <2>1, <2>3
    <3> QED
      BY <1>2, <1>9, <2>0, <3>1
  <2>6. ASSUME NEW i \in 1..(a + 1) PROVE e.queue[i] = e.txID + i
    <3>1. i \in 1..a \/ i = a + 1
      BY <1>2
    <3> QED
      BY <1>3, <2>0, <2>3, <2>5, <3>1
  <2>7. ASSUME NEW i \in 1..(b - 1) PROVE e.devQ[i] = e.txID + (a + 1) + i
    <3>1. e.devQ[i] = d.txID + a + (i + 1)
      BY <1>3, <2>1
    <3> QED
      BY <1>2, <1>9, <2>0, <3>1
  <2> QED
    BY <2>1, <2>3, <2>4, <2>6, <2>7 DEF DevQueues
<1>7. CASE /\ e.asked = d.asked + 1 /\ e.devQ = Append(d.devQ, d.asked + 1)
           /\ e.txID = d.txID /\ e.queue = d.queue
  <2>1. /\ Len(e.devQ) = b + 1 /\ Len(e.queue) = a /\ e.devQ[b + 1] = d.asked + 1
        /\ \A i \in 1..b : e.devQ[i] = d.devQ[i]
    BY <1>1, <1>7
  <2>0. e.txID = d.txID /\ e.asked = d.asked + 1 /\ e.queue = d.queue
    BY <1>7
  <2> HIDE DEF a, b
  <2>2. e.asked = e.txID + a + (b + 1)
    BY <1>2, <1>8, <1>9, <2>0
  <2>3. e.devQ[b + 1] = e.txID + a + (b + 1)
    <3>1. d.asked + 1 = e.txID + a + (b + 1)
      BY <1>2, <1>8, <1>9, <2>0
    <3> QED
      BY <2>1, <3>1
  <2>4. ASSUME NEW i \in 1..(b + 1) PROVE e.devQ[i] = e.txID + a + i
    <3>1. i \in 1..b \/ i = b + 1
      BY <1>2
    <3> QED
      BY <1>3, <2>0, <2>1, <2>3, <3>1
  <2>5. \A i \in 1..a : e.queue[i] = e.txID + i
    BY <1>3, <2>0
  <2> QED
    BY <2>1, <2>2, <2>4, <2>5 DEF DevQueues
<1> QED
  BY <1>4, <1>5, <1>6, <1>7 DEF DevSend, SameDev

\* The sending end keeps the level.
LEMMA SendDevLevel ==
  ASSUME NEW d \in DevType, NEW e \in DevType, NEW n, NEW m, NEW r, NEW g,
         DevLevel(d, n, m, r, g), NEW out, DevSend(m, d, e, out),
         NEW nn, Extends(nn, n, out), NEW mm, Extends(mm, m, <<>>)
  PROVE  DevLevel(e, nn, mm, r, g)
<1>1. /\ d.txID \in Nat /\ d.pending \in Nat /\ e.txID \in Nat /\ e.pending \in Nat
      /\ d.queue \in Seq(Nat) /\ r \in Nat
  BY DEF DevType, DevLevel
<1>2. DevQueues(e)
  BY SendQueues DEF DevLevel
<1>3. d.pending = 0 /\ d.queue # <<>> => Head(d.queue) = d.txID + 1
  BY <1>1 DEF DevLevel, DevQueues
<1>4. (\E k \in Among(m) : k.t = "DEVDACK" /\ k.id = d.txID) => r = d.txID
  BY <1>1 DEF DevLevel
<1>5. /\ e.pending \in {0, e.txID}
      /\ e.state = "Done" <=> e.pending = 0
      /\ r <= e.txID /\ e.txID <= r + 1
      /\ e.pending = 0 => r = e.txID
      /\ e.txID = d.txID \/ (e.txID = r + 1 /\ d.txID = r)
  <2>1. CASE SameDev(e, d)
    BY <1>1, <2>1 DEF DevLevel, SameDev
  <2>2. CASE /\ d.pending = 0 /\ d.queue # <<>> /\ e.state # "Done"
             /\ e.pending = Head(d.queue) /\ e.txID = d.txID + 1
    BY <1>1, <1>3, <2>2 DEF DevLevel
  <2>3. CASE /\ \E k \in Among(m) : k.t = "DEVDACK" /\ k.id = d.txID
             /\ e.pending = 0 /\ e.state = "Done" /\ e.txID = d.txID
    BY <1>1, <1>4, <2>3 DEF DevLevel
  <2>4. CASE e.txID = d.txID /\ e.pending = d.pending /\ e.state = d.state
    BY <1>1, <2>4 DEF DevLevel
  <2> QED
    BY <2>1, <2>2, <2>3, <2>4 DEF DevSend
<1>6. \A k \in Among(out) : k.t = "DEVDATA" => k.id = e.txID /\ k.off = k.id
  BY <1>5 DEF DevSend
<1>7. \A k \in Among(n) : k.t = "DEVDATA" => k.id \in {r, e.txID} /\ k.off = k.id
  BY <1>5 DEF DevLevel
<1>8. \A k \in Among(nn) : k.t = "DEVDATA" => k.id \in {r, e.txID} /\ k.off = k.id
  BY <1>6, <1>7 DEF Extends
<1>9. ASSUME NEW k, NEW l, Follows(nn, k, l), k.t = "DEVDATA", l.t = "DEVDATA"
      PROVE  k.id <= l.id
  <2>1. CASE Follows(n, k, l)
    BY <1>9, <2>1 DEF DevLevel
  <2>2. CASE k \in Among(n) /\ l \in Among(out)
    BY <1>1, <1>5, <1>6, <1>7, <1>9, <2>2
  <2>3. CASE k \in Among(out) /\ l \in Among(out)
    BY <1>1, <1>6, <1>9, <2>3
  <2> QED
    BY <1>9, <2>1, <2>2, <2>3 DEF Extends
<1>10. \A k \in Among(mm) : k.t = "DEVDACK" => k.id <= r
  BY AmongFew DEF Extends, DevLevel
<1>11. g = [i \in 1..r |-> i]
  BY DEF DevLevel
<1> QED
  BY <1>1, <1>2, <1>5, <1>8, <1>9, <1>10, <1>11 DEF DevLevel

\* The receiving end keeps the level.
LEMMA ReceiveDevLevel ==
  ASSUME NEW d \in DevType, NEW n \in Seq(Packet), NEW m \in Seq(Packet), NEW r, NEW g,
         DevLevel(d, n, m, r, g), NEW out, NEW nn, NEW s, NEW h,
         DevReceive(n, nn, r, s, g, h, out),
         NEW mm, Extends(mm, m, out)
  PROVE  DevLevel(d, nn, mm, s, h)
<1>1. /\ d.txID \in Nat /\ d.pending \in Nat /\ r \in Nat
  BY DEF DevType, DevLevel
<1>2. CASE /\ Extends(nn, n, <<>>) /\ s = r /\ h = g
           /\ \A k \in Among(out) : k.t # "DEVDACK"
  <2>1. \A k \in Among(mm) : k.t = "DEVDACK" => k.id <= r
    BY <1>2 DEF Extends, DevLevel
  <2>2. /\ \A k \in Among(nn) : k \in Among(n)
        /\ \A k, l : Follows(nn, k, l) => Follows(n, k, l)
    BY <1>2, AmongFew DEF Extends
  <2> QED
    BY <1>2, <2>1, <2>2 DEF DevLevel
<1>3. CASE /\ n # <<>> /\ nn = Tail(n) /\ Head(n).t = "DEVDATA" /\ s = Head(n).id
           /\ h = IF Head(n).id # r THEN Append(g, Head(n).off) ELSE g
           /\ \A k \in Among(out) : k.t = "DEVDACK" => k.id = s
  <2>1. /\ Head(n) \in Among(n)
        /\ \A k \in Among(nn) : k \in Among(n) /\ Follows(n, Head(n), k)
        /\ \A k, l : Follows(nn, k, l) => Follows(n, k, l)
    BY <1>3, AmongTail, TailOrder, AmongFew DEF Extends
  <2>2. s \in {r, d.txID} /\ Head(n).off = s
    BY <1>3, <2>1 DEF DevLevel
  <2>3. s \in Nat /\ r <= s /\ s <= d.txID /\ d.txID <= s + 1 /\ (d.pending = 0 => s = d.txID)
        /\ (s = r \/ s = r + 1)
    BY <1>1, <2>2 DEF DevLevel
  <2>4. h = [i \in 1..s |-> i]
    <3>1. g = [i \in 1..r |-> i]
      BY DEF DevLevel
    <3>2. CASE s = r
      BY <1>3, <3>1, <3>2
    <3>3. CASE s = r + 1
      <4>1. h = Append(g, r + 1)
        BY <1>1, <1>3, <2>2, <3>3
      <4> QED
        BY <1>1, <3>1, <3>3, <4>1, CountUp
    <3> QED
      BY <2>3, <3>2, <3>3
  <2>5. ASSUME NEW k \in Among(nn), k.t = "DEVDATA"
        PROVE  k.id \in {s, d.txID} /\ k.off = k.id
    <3>1. k.id \in {r, d.txID} /\ k.off = k.id
      BY <2>1, <2>5 DEF DevLevel
    <3>2. s <= k.id
      BY <1>3, <2>1, <2>5 DEF DevLevel
    <3> QED
      BY <1>1, <2>3, <3>1, <3>2
  <2>6. \A k \in Among(mm) : k.t = "DEVDACK" => k.id <= s
    <3> SUFFICES ASSUME NEW k \in Among(mm), k.t = "DEVDACK" PROVE k.id <= s
      OBVIOUS
    <3>1. CASE k \in Among(out)
      BY <1>3, <2>3, <3>1
    <3>2. CASE k \in Among(m)
      <4>1. k.id <= r
        BY <3>2 DEF DevLevel
      <4>2. k \in Packet
        BY <3>2 DEF Among
      <4>3. k.id \in Nat
        BY <4>2 DEF Packet
      <4> QED
        BY <1>1, <2>3, <4>1, <4>3
    <3> QED
      BY <3>1, <3>2 DEF Extends
  <2> QED
    BY <2>1, <2>3, <2>4, <2>5, <2>6 DEF DevLevel
<1> QED
  BY <1>2, <1>3 DEF DevReceive

-----------------------------------------------------------------------------
(* The ends of a step.                                                     *)

\* A step of p, the sending end of one direction and the receiving end of the
\* other.
LEMMA StepDevice ==
  ASSUME SentInv, DeviceInv, NEW p \in Peer, NEW d \in DevType, NEW out,
         dev'[p] = d, dev'[Other(p)] = dev[Other(p)], devGot'[Other(p)] = devGot[Other(p)],
         Extends(net'[Other(p)], net[Other(p)], out), Extends(net'[p], net[p], <<>>),
         DevOn => /\ DevSend(net[p], dev[p], d, out)
                  /\ DevReceive(net[p], net'[p], dev[p].rxID, d.rxID, devGot[p], devGot'[p], out)
  PROVE  DeviceInv'
<1> DEFINE o == Other(p)
<1>1. /\ o \in Peer /\ o # p /\ Other(o) = p /\ \A q \in Peer : q = p \/ q = o
      /\ dev \in [Peer -> DevType] /\ net \in [Peer -> Seq(Packet)]
  BY TheOther DEF SentInv, TypeOK, MachinesOK
<1> SUFFICES ASSUME DevOn
             PROVE  \A q \in Peer : DevLevel(dev'[q], net'[Other(q)], net'[q],
                                             dev'[Other(q)].rxID, devGot'[Other(q)])
  BY DEF DeviceInv, DevLevel, DevQueues
<1>2. /\ DevLevel(dev[p], net[o], net[p], dev[o].rxID, devGot[o])
      /\ DevLevel(dev[o], net[p], net[o], dev[p].rxID, devGot[p])
  BY <1>1 DEF DeviceInv
<1>3. DevLevel(d, net'[o], net'[p], dev[o].rxID, devGot[o])
  BY <1>1, <1>2, SendDevLevel
<1>4. DevLevel(dev[o], net'[p], net'[o], d.rxID, devGot'[p])
  BY <1>1, <1>2, ReceiveDevLevel
<1> QED
  BY <1>1, <1>3, <1>4

\* A step that leaves p's Run active.
LEMMA ContinueDevice ==
  ASSUME SentInv, DeviceInv, NEW p \in Peer, NEW t, NEW r, NEW d \in DevType,
         NEW out \in Seq(Packet),
         NEW n, n[Other(p)] = net[Other(p)], n \in [Peer -> Seq(Packet)],
         Extends(n[p], net[p], <<>>),
         Continue(p, n, t, r, d, out), devGot'[Other(p)] = devGot[Other(p)],
         DevOn => /\ DevSend(net[p], dev[p], d, out)
                  /\ DevReceive(net[p], n[p], dev[p].rxID, d.rxID, devGot[p], devGot'[p], out)
  PROVE  DeviceInv'
<1>1. /\ Other(p) \in Peer /\ Other(p) # p
      /\ dev \in [Peer -> DevType] /\ net \in [Peer -> Seq(Packet)]
  BY TheOther DEF SentInv, TypeOK, MachinesOK
<1>2. dev' = [dev EXCEPT ![p] = d] /\ net' = Deliver(n, p, out)
  BY DEF Continue
<1>3. dev'[p] = d /\ dev'[Other(p)] = dev[Other(p)]
  BY <1>1, <1>2
<1>4. net'[p] = n[p]
      /\ net'[Other(p)] = IF res[Other(p)] = "run" THEN net[Other(p)] \o out ELSE <<>>
  BY <1>1, <1>2 DEF Deliver
<1>5. Extends(net'[Other(p)], net[Other(p)], out)
  BY <1>1, <1>4, ExtendsConcat, ExtendsLess
<1> QED
  BY <1>3, <1>4, <1>5, StepDevice

\* An end that leaves the device channel alone.
LEMMA QuietDevice ==
  ASSUME NEW m, NEW n, NEW o, Extends(o, n, <<>>), NEW d, NEW g,
         NEW out, \A k \in Among(out) : k.t \notin {"DEVDATA", "DEVDACK"}
  PROVE  DevSend(m, d, d, out) /\ DevReceive(n, o, d.rxID, d.rxID, g, g, out)
  BY DEF DevSend, DevReceive, SameDev

\* The end of p's Run.
LEMMA FinishDevice ==
  ASSUME SentInv, DeviceInv, NEW p \in Peer, NEW result, NEW t, NEW r,
         NEW out \in Seq(Packet), Finish(p, result, t, r, dev[p], out),
         \A k \in Among(out) : k.t \notin {"DEVDATA", "DEVDACK"}
  PROVE  DeviceInv'
<1>1. /\ Other(p) \in Peer /\ Other(p) # p
      /\ dev \in [Peer -> DevType] /\ net \in [Peer -> Seq(Packet)]
  BY TheOther DEF SentInv, TypeOK, MachinesOK
<1>2. /\ dev' = [dev EXCEPT ![p] = dev[p]] /\ devGot' = devGot
      /\ net' = [Deliver(net, p, out) EXCEPT ![p] = <<>>]
  BY DEF Finish
<1>3. dev'[p] = dev[p] /\ dev'[Other(p)] = dev[Other(p)] /\ dev[p] \in DevType
  BY <1>1, <1>2
<1>4. net'[p] = <<>>
      /\ net'[Other(p)] = IF res[Other(p)] = "run" THEN net[Other(p)] \o out ELSE <<>>
  BY <1>1, <1>2 DEF Deliver
<1>5. Extends(net'[Other(p)], net[Other(p)], out) /\ Extends(net'[p], net[p], <<>>)
  BY <1>1, <1>4, ExtendsConcat, ExtendsLess
<1>6. /\ DevSend(net[p], dev[p], dev[p], out)
      /\ DevReceive(net[p], net'[p], dev[p].rxID, dev[p].rxID, devGot[p], devGot'[p], out)
  BY <1>2, <1>5, QuietDevice
<1> QED
  BY <1>2, <1>3, <1>5, <1>6, StepDevice

\* A packet handled.
LEMMA HandledDevice ==
  ASSUME SentInv, DeviceInv, NEW p \in Peer, NEW type, Hears(p, type),
         NEW t, NEW r, NEW d \in DevType, NEW out \in Seq(Packet), Handled(p, t, r, d, out),
         devGot'[Other(p)] = devGot[Other(p)],
         DevSend(net[p], dev[p], d, out),
         DevReceive(net[p], Tail(net[p]), dev[p].rxID, d.rxID, devGot[p], devGot'[p], out)
  PROVE  DeviceInv'
<1>1. MachinesOK /\ net \in [Peer -> Seq(Packet)] /\ Other(p) # p /\ Other(p) \in Peer
  BY TheOther DEF SentInv, TypeOK, MachinesOK
<1>2. Taken(p) \in [Peer -> Seq(Packet)] /\ net[p] # <<>>
  BY <1>1, HeardPacket DEF Hears
<1>3. Taken(p)[p] = Tail(net[p]) /\ Taken(p)[Other(p)] = net[Other(p)]
  BY <1>1 DEF Taken
<1>4. Extends(Tail(net[p]), net[p], <<>>)
  BY <1>1, <1>2, TailOrder
<1> QED
  BY <1>2, <1>3, <1>4, ContinueDevice DEF Handled

\* A packet that does not concern the device channel.
LEMMA OtherHandled ==
  ASSUME SentInv, DeviceInv, NEW p \in Peer, NEW type, Hears(p, type),
         NEW t, NEW r, NEW out \in Seq(Packet), Handled(p, t, r, dev[p], out),
         devGot' = devGot, \A k \in Among(out) : k.t \notin {"DEVDATA", "DEVDACK"}
  PROVE  DeviceInv'
<1>1. net[p] \in Seq(Packet) /\ dev[p] \in DevType /\ net[p] # <<>>
  BY DEF SentInv, TypeOK, MachinesOK, Hears
<1>2. Extends(Tail(net[p]), net[p], <<>>)
  BY <1>1, TailOrder
<1>3. /\ DevSend(net[p], dev[p], dev[p], out)
      /\ DevReceive(net[p], Tail(net[p]), dev[p].rxID, dev[p].rxID, devGot[p], devGot'[p], out)
  BY <1>2, QuietDevice
<1> QED
  BY <1>1, <1>3, HandledDevice

-----------------------------------------------------------------------------
(* The steps.                                                              *)

\* What devAction takes up and writes.
LEMMA DevActionSends ==
  ASSUME DevOn, NEW x \in DevType, NEW d \in DevType, SameDev(d, x), d.rxID = x.rxID,
         x.state = "Done" <=> x.pending = 0, x.pending \in {0, x.txID},
         x.queue # <<>> => Head(x.queue) = x.txID + 1,
         NEW t, NEW e, e = devAction(t, d), NEW m,
         NEW out, \A k \in Among(out) : k.t = "DEVDATA" => k \in Among(devSends(t, d))
  PROVE  DevSend(m, x, e, out) /\ e.rxID = x.rxID
<1> DEFINE u == devPromote(d)
<1>1. \/ u = d
      \/ d.pending = 0 /\ d.queue # <<>> /\ u = promoted(d)
  BY DEF devPromote
<1>2. u = promoted(d) /\ d.queue # <<>> =>
        /\ u.queue = Tail(d.queue) /\ u.txID = d.txID + 1 /\ u.pending = Head(d.queue)
        /\ u.state = "Data" /\ u.devQ = d.devQ /\ u.asked = d.asked /\ u.rxID = d.rxID
        /\ u \in DevType
  BY PromotedKeeps DEF promoted, DevType
<1> HIDE DEF u
<1>3. u \in DevType
  BY <1>1, <1>2
<1>4. inFlight(u).txID = u.txID /\ inFlight(u).pending = u.pending
      /\ inFlight(u).queue = u.queue /\ inFlight(u).devQ = u.devQ
      /\ inFlight(u).asked = u.asked /\ inFlight(u).rxID = u.rxID
      /\ inFlight(u).state = "Dack"
  BY <1>3 DEF inFlight, DevType
<1>5. e = u \/ (u.state = "Data" /\ e = inFlight(u))
  BY DEF devAction, devEligible, u
<1>6. SameDev(e, u) /\ e.rxID = u.rxID
  BY <1>4, <1>5 DEF SameDev
<1>7. /\ \/ SameDev(u, x)
         \/ /\ x.pending = 0 /\ x.queue # <<>> /\ u.state # "Done"
            /\ u.queue = Tail(x.queue) /\ u.pending = Head(x.queue) /\ u.txID = x.txID + 1
            /\ u.devQ = x.devQ /\ u.asked = x.asked
      /\ u.rxID = x.rxID
  BY <1>1, <1>2 DEF SameDev
<1>8. ASSUME u.state = "Data"
      PROVE  u.pending = u.txID /\ u.pending # 0
  <2>1. x.txID \in Nat
    BY DEF DevType
  <2>2. CASE SameDev(u, x)
    BY <1>8, <2>2 DEF SameDev
  <2>3. CASE x.queue # <<>> /\ u.pending = Head(x.queue) /\ u.txID = x.txID + 1
    BY <2>1, <2>3
  <2> QED
    BY <1>7, <2>2, <2>3
<1>9. ASSUME NEW k \in Among(out), k.t = "DEVDATA"
      PROVE  k.id = e.txID /\ k.off = e.pending /\ e.pending # 0
  <2>1. k \in Among(devSends(t, d))
    BY <1>9
  <2>2. u.state = "Data" /\ k = Pkt("DEVDATA", NoFile, u.pending, 0, u.txID)
    BY <2>1, AmongFew DEF devSends, devEligible, u
  <2>3. k.id = u.txID /\ k.off = u.pending
    BY <2>2 DEF Pkt
  <2> QED
    BY <1>6, <1>8, <2>2, <2>3 DEF SameDev
<1>10. \/ SameDev(e, x)
       \/ /\ x.pending = 0 /\ x.queue # <<>> /\ e.state # "Done"
          /\ e.queue = Tail(x.queue) /\ e.pending = Head(x.queue) /\ e.txID = x.txID + 1
          /\ e.devQ = x.devQ /\ e.asked = x.asked
  BY <1>6, <1>7 DEF SameDev
<1> QED
  BY <1>6, <1>7, <1>9, <1>10 DEF DevSend

\* A pass, or a Run given up or left.
LEMMA LoopDevice ==
  ASSUME SentInv, DeviceInv, NEW p \in Peer, Loop(p) \/ fireTimers(p)
  PROVE  DeviceInv'
<1> DEFINE x == dev[p]
<1>0. /\ tx[p] \in TxType /\ rx[p] \in RxType /\ x \in DevType
      /\ net \in [Peer -> Seq(Packet)] /\ <<>> \in Seq(Packet) /\ Among(<<>>) = {}
  BY AmongFew DEF SentInv, TypeOK, MachinesOK
<1>1. CASE \E result, t : Finish(p, result, t, rx[p], x, <<>>)
  BY <1>0, <1>1, FinishDevice
<1>2. DevOn => /\ x.state = "Done" <=> x.pending = 0
               /\ x.pending \in {0, x.txID}
               /\ x.queue # <<>> => Head(x.queue) = x.txID + 1
  <2> SUFFICES ASSUME DevOn
               PROVE  /\ x.state = "Done" <=> x.pending = 0
                      /\ x.pending \in {0, x.txID}
                      /\ x.queue # <<>> => Head(x.queue) = x.txID + 1
    OBVIOUS
  <2>1. DevLevel(x, net[Other(p)], net[p], dev[Other(p)].rxID, devGot[Other(p)])
    BY DEF DeviceInv
  <2>2. x.queue \in Seq(Nat) /\ x.txID \in Nat
    BY <1>0 DEF DevType
  <2> HIDE DEF x
  <2>3. x.queue # <<>> => Head(x.queue) = x.txID + 1
    BY <2>1, <2>2 DEF DevLevel, DevQueues
  <2> QED
    BY <2>1, <2>3 DEF DevLevel
<1>3. ASSUME res[p] = "run", NEW t \in TxType, NEW d \in {x, devTimeout(x)}, d \in DevType,
             NEW pre \in {<<>>, <<Ctl("IDLE")>>}, TxShape(p, t), Pass(p, t, d, pre)
      PROVE  DeviceInv'
  <2>1. PICK u \in TxType, out \in Seq(Packet) :
          Sent(p, t, d, u, pre, out) /\ PassStep(p, t, u, out)
    BY <1>3, PassMoves
  <2> DEFINE w == devSends(t, d)
             e == devAction(t, d)
             all == pre \o w \o out
  <2>2. w \in Seq(Packet) /\ e \in DevType
    BY <1>3, DevActionKeeps
  <2>3. /\ Continue(p, net, u, rx[p], e, all)
        /\ devGot' = devGot
    BY <2>1 DEF Sent
  <2>4. \A k \in Among(out) : k.t \notin {"DEVDATA", "DEVDACK"}
    <3>1. out = <<>> \/ \E k : k.t \notin {"DEVDATA", "DEVDACK"} /\ (out = <<k>> \/ out = <<k, k>>)
      <4>1. /\ Ctl("START").t = "START" /\ Ctl("INIT").t = "INIT" /\ Ctl("END").t = "END"
            /\ \A f, off, n : Pkt("DATA", f, off, n, 0).t = "DATA"
            /\ \A f : Pkt("FINFO", f, 0, 0, 0).t = "FINFO"
            /\ \A off : OffPkt("EOF", off).t = "EOF"
        BY DEF Ctl, OffPkt, Pkt
      <4> QED
        BY <2>1, <4>1 DEF PassStep
    <3> QED
      BY <3>1, AmongFew
  <2>5. pre \in Seq(Packet) /\ \A k \in Among(pre) : k.t \notin {"DEVDATA", "DEVDACK"}
    <3>1. "IDLE" \in PlainType /\ Ctl("IDLE").t = "IDLE"
      BY DEF PktType, PlainType, Ctl, Pkt
    <3>2. <<Ctl("IDLE")>> \in Seq(Packet)
      BY <3>1, ControlPacket
    <3>3. pre = <<>> \/ pre = <<Ctl("IDLE")>>
      BY <1>3
    <3>4. pre \in Seq(Packet)
      BY <1>0, <3>2, <3>3, Zenon
    <3> QED
      BY <3>1, <3>3, <3>4, AmongFew
  <2>6. \A k \in Among(w) : k.t # "DEVDACK"
    <3>1. w = <<>> \/ \E id, n : w = <<Pkt("DEVDATA", NoFile, n, 0, id)>>
      BY DEF devSends
    <3>2. \A n, id : Pkt("DEVDATA", NoFile, n, 0, id).t = "DEVDATA"
      BY DEF Pkt
    <3> QED
      BY <3>1, <3>2, AmongFew
  <2> HIDE DEF w, e
  <2>7. all \in Seq(Packet) /\ Among(all) = Among(pre) \cup Among(w) \cup Among(out)
    <3>1. pre \o w \in Seq(Packet) /\ all \in Seq(Packet)
      BY <2>1, <2>2, <2>5
    <3>2. Among(pre \o w) = Among(pre) \cup Among(w)
      BY <2>2, <2>5, AmongConcat
    <3>3. Among((pre \o w) \o out) = Among(pre \o w) \cup Among(out)
      BY <2>1, <3>1, AmongConcat
    <3> QED
      BY <3>1, <3>2, <3>3
  <2> HIDE DEF all
  <2>8. SameDev(d, x) /\ d.rxID = x.rxID
    <3>1. CASE d = x
      BY <3>1 DEF SameDev
    <3>2. CASE d = devTimeout(x)
      <4>1. /\ d.txID = x.txID /\ d.pending = x.pending /\ d.queue = x.queue /\ d.devQ = x.devQ
            /\ d.asked = x.asked /\ d.rxID = x.rxID
            /\ d.state = IF x.state = "Dack" THEN "Data" ELSE x.state
        BY <1>0, <3>2 DEF devTimeout, DevType
      <4> QED
        BY <4>1 DEF SameDev
    <3> QED
      BY <1>3, <3>1, <3>2
  <2>9. DevOn => DevSend(net[p], x, e, all) /\ e.rxID = x.rxID
    <3> SUFFICES ASSUME DevOn PROVE DevSend(net[p], x, e, all) /\ e.rxID = x.rxID
      OBVIOUS
    <3>1. \A k \in Among(all) : k.t = "DEVDATA" => k \in Among(devSends(t, d))
      BY <2>4, <2>5, <2>7 DEF w
    <3>2. /\ x.state = "Done" <=> x.pending = 0
          /\ x.pending \in {0, x.txID}
          /\ x.queue # <<>> => Head(x.queue) = x.txID + 1
      BY <1>2
    <3>3. x \in DevType /\ d \in DevType /\ e = devAction(t, d)
      BY <1>0, <1>3 DEF e
    <3> HIDE DEF x
    <3> QED
      BY <2>8, <3>1, <3>2, <3>3, DevActionSends
  <2>10. Extends(net[p], net[p], <<>>)
    BY <1>0, ExtendsLess
  <2>11. DevOn => DevReceive(net[p], net[p], x.rxID, e.rxID, devGot[p], devGot'[p], all)
    BY <2>3, <2>4, <2>5, <2>6, <2>7, <2>9, <2>10 DEF DevReceive
  <2> HIDE DEF x
  <2> QED
    BY <1>0, <2>2, <2>3, <2>7, <2>9, <2>10, <2>11, ContinueDevice DEF x
<1> QED
  BY <1>1, <1>3, LoopMoves

\* What handling a packet that does not concern the channel comes to.
PlainStep(p) ==
    \/ \E t, r : \E out \in Seq(Packet) :
          /\ Handled(p, t, r, dev[p], out) /\ devGot' = devGot
          /\ \A k \in Among(out) : k.t \notin {"DEVDATA", "DEVDACK"}
    \/ \E result, t, r : \E out \in Seq(Packet) :
          /\ Finish(p, result, t, r, dev[p], out)
          /\ \A k \in Among(out) : k.t \notin {"DEVDATA", "DEVDACK"}

\* Every packet but the channel's own.
LEMMA PacketPlain ==
  ASSUME SentInv, NEW p \in Peer,
         \/ handleStart(p) \/ rxInit(p) \/ handleInitAck(p) \/ txIdle(p) \/ txEnd(p)
         \/ rxFinfo(p) \/ acceptFinfo(p) \/ rxData(p) \/ rxEOF(p)
         \/ txFinfoAck(p) \/ txDataAck(p) \/ txRpos(p) \/ txEOFAck(p)
  PROVE  PlainStep(p) /\ \E type : Hears(p, type)
<1>1. <<>> \in Seq(Packet) /\ Among(<<>>) = {}
  BY AmongFew
<1>2. CASE handleStart(p) \/ handleInitAck(p) \/ txIdle(p)
  BY <1>1, <1>2 DEF handleStart, handleInitAck, txIdle, PlainStep
<1>3. CASE rxInit(p) \/ txEnd(p)
  <2>1. "INITACK" \in PlainType /\ "END" \in PlainType
    BY DEF PktType, PlainType
  <2>2. Ctl("INITACK") \in Packet /\ Ctl("END") \in Packet
        /\ Ctl("INITACK").t = "INITACK" /\ Ctl("END").t = "END"
    BY <2>1, ControlPacket DEF Ctl, Pkt
  <2>3. /\ <<Ctl("INITACK")>> \in Seq(Packet)
        /\ <<Ctl("END"), Ctl("END"), Ctl("END")>> \in Seq(Packet)
        /\ Among(<<Ctl("INITACK")>>) = {Ctl("INITACK")}
        /\ Among(<<Ctl("END"), Ctl("END"), Ctl("END")>>) = {Ctl("END")}
    BY <2>2, AmongFew
  <2>4. CASE rxInit(p)
    BY <2>2, <2>3, <2>4 DEF rxInit, PlainStep
  <2>5. CASE txEnd(p)
    BY <1>1, <2>2, <2>3, <2>5 DEF txEnd, PlainStep
  <2> QED
    BY <1>3, <2>4, <2>5
<1>4. CASE rxFinfo(p) \/ acceptFinfo(p) \/ rxData(p) \/ rxEOF(p)
  <2>1. /\ Hears(p, Head(net[p]).t)
        /\ \E t \in TxType : \E v \in RxType : \E out \in Seq(Packet) :
              RxMove(p, Head(net[p]), t, v, out)
    BY <1>4, RxMoves
  <2>2. devGot' = devGot
    <3>1. CASE rxFinfo(p)
      BY <3>1 DEF rxFinfo
    <3>2. CASE acceptFinfo(p)
      BY <3>2 DEF acceptFinfo
    <3>3. \A off, isEOF : badPosition(p, off, isEOF) => devGot' = devGot
      BY DEF badPosition, Finish
    <3>4. CASE rxData(p)
      BY <3>3, <3>4 DEF rxData
    <3>5. CASE rxEOF(p)
      BY <3>3, <3>5 DEF rxEOF
    <3> QED
      BY <1>4, <3>1, <3>2, <3>4, <3>5
  <2> QED
    BY <2>1, <2>2 DEF RxMove, PlainStep, Answer
<1>5. CASE txFinfoAck(p) \/ txDataAck(p) \/ txRpos(p) \/ txEOFAck(p)
  <2>1. /\ Hears(p, Head(net[p]).t)
        /\ \/ Finish(p, "err", tx[p], rx[p], dev[p], <<>>)
           \/ \E u \in TxType : Handled(p, u, rx[p], dev[p], <<>>)
    BY <1>5, TxMoves
  <2>2. devGot' = devGot
    BY <1>5 DEF txFinfoAck, txDataAck, txRpos, txEOFAck, Finish
  <2> QED
    BY <1>1, <2>1, <2>2 DEF PlainStep
<1> QED
  BY <1>2, <1>3, <1>4, <1>5

\* Every packet.
LEMMA PacketDevice ==
  ASSUME SentInv, DeviceInv, NEW p \in Peer, handlePacket(p)
  PROVE  DeviceInv'
<1> DEFINE k == Head(net[p])
           x == dev[p]
<1>0. /\ x \in DevType /\ net[p] \in Seq(Packet)
      /\ <<>> \in Seq(Packet) /\ Among(<<>>) = {} /\ Other(p) # p /\ Other(p) \in Peer
      /\ devGot \in [Peer -> Seq(Nat)]
  BY AmongFew, TheOther DEF SentInv, TypeOK, MachinesOK, HistoryOK
<1>1. ASSUME PlainStep(p), NEW type, Hears(p, type)
      PROVE  DeviceInv'
  BY <1>1, OtherHandled, FinishDevice DEF PlainStep
<1>2. CASE devRx(p)
  <2> DEFINE e == [x EXCEPT !.rxID = k.id]
             out == <<Pkt("DEVDACK", NoFile, 0, 0, k.id)>>
  <2>1. /\ Hears(p, "DEVDATA") /\ Handled(p, tx[p], rx[p], e, out)
        /\ devGot' = IF isNewDatagram(x, k) THEN [devGot EXCEPT ![p] = Append(@, k.off)] ELSE devGot
    BY <1>2 DEF devRx
  <2>2. k.id \in Nat /\ k.t = "DEVDATA" /\ net[p] # <<>>
    BY <2>1, Hearing DEF Hears
  <2>3. e \in DevType /\ e.rxID = k.id /\ SameDev(e, x)
    BY <1>0, <2>2, RxIdKeeps DEF SameDev, DevType
  <2>4. out \in Seq(Packet) /\ \A j \in Among(out) : j.t = "DEVDACK" /\ j.id = k.id
    <3>1. Pkt("DEVDACK", NoFile, 0, 0, k.id).t = "DEVDACK" /\ Pkt("DEVDACK", NoFile, 0, 0, k.id).id = k.id
      BY DEF Pkt
    <3>2. out \in Seq(Packet)
      BY <2>2, DackPacket
    <3> QED
      BY <3>1, <3>2, AmongFew
  <2>5. /\ devGot'[Other(p)] = devGot[Other(p)]
        /\ devGot'[p] = IF k.id # x.rxID THEN Append(devGot[p], k.off) ELSE devGot[p]
    BY <1>0, <2>1 DEF isNewDatagram
  <2> HIDE DEF e, out
  <2>6. DevSend(net[p], x, e, out)
    BY <2>3, <2>4 DEF DevSend
  <2>7. DevReceive(net[p], Tail(net[p]), x.rxID, e.rxID, devGot[p], devGot'[p], out)
    BY <2>2, <2>3, <2>4, <2>5 DEF DevReceive
  <2> QED
    BY <2>1, <2>3, <2>4, <2>5, <2>6, <2>7, HandledDevice
<1>3. CASE devDack(p)
  <2>1. PICK e : /\ Hears(p, "DEVDACK") /\ Handled(p, tx[p], rx[p], e, <<>>)
                 /\ devGot' = devGot
                 /\ \/ e = x
                    \/ e = settled(x) /\ k.id = x.txID
    BY <1>3 DEF devDack
  <2>2. k.t = "DEVDACK" /\ k \in Among(net[p]) /\ net[p] # <<>>
    BY <1>0, <2>1, AmongTail DEF Hears
  <2>3. Extends(Tail(net[p]), net[p], <<>>)
    BY <1>0, <2>2, TailOrder
  <2>4. CASE e = x
    BY <1>0, <1>1, <2>1, <2>4 DEF PlainStep
  <2>5. CASE e = settled(x) /\ k.id = x.txID
    <3>1. e \in DevType
      BY <1>0, <2>5, SettledKeeps
    <3>2. /\ e.pending = 0 /\ e.state = "Done" /\ e.txID = x.txID /\ e.queue = x.queue
          /\ e.devQ = x.devQ /\ e.asked = x.asked /\ e.rxID = x.rxID
      BY <1>0, <2>5 DEF settled, DevType
    <3>3. DevSend(net[p], x, e, <<>>)
      BY <1>0, <2>2, <2>5, <3>2 DEF DevSend
    <3>4. DevReceive(net[p], Tail(net[p]), x.rxID, e.rxID, devGot[p], devGot'[p], <<>>)
      BY <1>0, <2>1, <2>3, <3>2 DEF DevReceive
    <3> QED
      BY <1>0, <2>1, <3>1, <3>3, <3>4, HandledDevice
  <2> QED
    BY <2>1, <2>4, <2>5
<1> QED
  BY <1>1, <1>2, <1>3, PacketPlain DEF handlePacket

\* A packet lost, the application's calls, and a Run ended from outside.
LEMMA OutsideDevice ==
  ASSUME SentInv, DeviceInv, NEW p \in Peer,
         SendDevice(p) \/ queueDev(p) \/ Corrupt(p) \/ Fail(p)
  PROVE  DeviceInv'
<1> DEFINE x == dev[p]
<1>0. /\ dev \in [Peer -> DevType] /\ x \in DevType /\ net \in [Peer -> Seq(Packet)]
      /\ Other(p) \in Peer /\ Other(p) # p
      /\ <<>> \in Seq(Packet) /\ Among(<<>>) = {}
  BY AmongFew, TheOther DEF SentInv, TypeOK, MachinesOK
<1>1. \A q \in Peer : Extends(net[q], net[q], <<>>)
  BY <1>0, ExtendsLess
<1>2. CASE SendDevice(p) \/ queueDev(p)
  <2>1. PICK e : /\ dev' = [dev EXCEPT ![p] = e] /\ net' = net /\ devGot' = devGot
                 /\ e = requested(x) \/ (e = queued(x) /\ x.devQ # <<>>)
    BY <1>0, <1>2 DEF SendDevice, queueDev
  <2>2. e \in DevType
    BY <1>0, <2>1, RequestedKeeps, QueuedKeeps
  <2>3. e.rxID = x.rxID /\ DevSend(net[p], x, e, <<>>)
    <3>1. CASE e = requested(x)
      <4>1. /\ e.asked = x.asked + 1 /\ e.devQ = Append(x.devQ, x.asked + 1)
            /\ e.txID = x.txID /\ e.pending = x.pending /\ e.queue = x.queue /\ e.state = x.state
            /\ e.rxID = x.rxID
        BY <1>0, <3>1 DEF requested, DevType
      <4> QED
        BY <1>0, <4>1 DEF DevSend
    <3>2. CASE e = queued(x) /\ x.devQ # <<>>
      <4>1. /\ e.devQ = Tail(x.devQ) /\ e.queue = Append(x.queue, Head(x.devQ))
            /\ e.txID = x.txID /\ e.pending = x.pending /\ e.asked = x.asked /\ e.state = x.state
            /\ e.rxID = x.rxID
        BY <1>0, <3>2 DEF queued, DevType
      <4> QED
        BY <1>0, <3>2, <4>1 DEF DevSend
    <3> QED
      BY <2>1, <3>1, <3>2
  <2>4. DevReceive(net[p], net'[p], x.rxID, e.rxID, devGot[p], devGot'[p], <<>>)
    BY <1>0, <1>1, <2>1, <2>3 DEF DevReceive
  <2>5. dev'[p] = e /\ dev'[Other(p)] = dev[Other(p)]
    BY <1>0, <2>1
  <2> QED
    BY <1>0, <1>1, <2>1, <2>2, <2>3, <2>4, <2>5, StepDevice
<1>3. CASE Corrupt(p)
  <2>1. /\ net'[p] = Tail(net[p]) /\ net'[Other(p)] = net[Other(p)] /\ net[p] # <<>>
        /\ dev' = dev /\ devGot' = devGot
    BY <1>0, <1>3 DEF Corrupt, Taken
  <2>2. Extends(Tail(net[p]), net[p], <<>>)
    BY <1>0, <2>1, TailOrder
  <2>3. /\ DevSend(net[p], x, x, <<>>)
        /\ DevReceive(net[p], net'[p], x.rxID, x.rxID, devGot[p], devGot'[p], <<>>)
    BY <1>0, <2>1, <2>2, QuietDevice
  <2> QED
    BY <1>0, <1>1, <2>1, <2>2, <2>3, StepDevice
<1>4. CASE Fail(p)
  <2>1. PICK result : Finish(p, result, tx[p], rx[p], dev[p], <<>>)
    BY <1>4 DEF Fail
  <2> QED
    BY <1>0, <2>1, FinishDevice
<1> QED
  BY <1>2, <1>3, <1>4

-----------------------------------------------------------------------------
(* The theorem.                                                            *)

\* Nothing has been asked for when both start.
LEMMA InitDevice == Init => DeviceInv
<1> SUFFICES ASSUME Init PROVE DeviceInv
  OBVIOUS
<1>1. \A p \in Peer : dev[p] = newDev /\ net[p] = <<>> /\ devGot[p] = <<>> /\ Other(p) \in Peer
  BY TheOther DEF Init
<1>2. /\ newDev.state = "Done" /\ newDev.txID = 0 /\ newDev.rxID = 0 /\ newDev.pending = 0
      /\ newDev.queue = <<>> /\ newDev.devQ = <<>> /\ newDev.asked = 0
  BY DEF newDev
<1>3. Among(<<>>) = {} /\ Len(<<>>) = 0 /\ <<>> = [i \in 1..0 |-> i]
  BY AmongFew
<1>4. DevQueues(newDev)
  BY <1>2, <1>3 DEF DevQueues
<1>5. DevLevel(newDev, <<>>, <<>>, 0, <<>>)
  BY <1>2, <1>3, <1>4 DEF DevLevel, Follows
<1> QED
  BY <1>1, <1>2, <1>5 DEF DeviceInv

\* Every step keeps it.
LEMMA NextDevice == SentInv /\ DeviceInv /\ [Next]_vars => DeviceInv'
<1> SUFFICES ASSUME SentInv, DeviceInv, [Next]_vars PROVE DeviceInv'
  OBVIOUS
<1>1. CASE UNCHANGED vars
  BY <1>1 DEF vars, DeviceInv, DevLevel, DevQueues
<1>2. ASSUME NEW p \in Peer, Loop(p) \/ fireTimers(p) \/ handlePacket(p)
      PROVE  DeviceInv'
  BY <1>2, LoopDevice, PacketDevice
<1>3. ASSUME NEW p \in Peer, SendDevice(p) \/ queueDev(p) \/ Corrupt(p) \/ Fail(p)
      PROVE  DeviceInv'
  BY <1>3, OutsideDevice
<1> QED
  BY <1>1, <1>2, <1>3 DEF Next, Over

\* The receiver has taken every datagram acknowledged, and at most the next.
LEMMA DeviceImplies == SentInv /\ DeviceInv => DeviceOnce
<1> SUFFICES ASSUME SentInv, DeviceInv, NEW p \in Peer, DevOn
             PROVE  LET acks == dev[p].txID - (IF dev[p].pending # 0 THEN 1 ELSE 0) IN
                    \E n \in {acks, dev[p].txID} : devGot[Other(p)] = [i \in 1..n |-> i]
  BY DEF DeviceOnce
<1> DEFINE d == dev[p]
           r == dev[Other(p)].rxID
<1>1. d \in DevType /\ DevLevel(d, net[Other(p)], net[p], r, devGot[Other(p)])
  BY DEF SentInv, TypeOK, MachinesOK, DeviceInv
<1> HIDE DEF d, r
<1>2. d.txID \in Nat /\ r \in Nat /\ devGot[Other(p)] = [i \in 1..r |-> i]
  BY <1>1 DEF DevType, DevLevel
<1>3. r = d.txID \/ (r = d.txID - 1 /\ d.pending # 0)
  BY <1>1, <1>2 DEF DevLevel
<1> QED
  BY <1>2, <1>3 DEF d

\* The device channel delivers the peer's datagrams in order and each once: all
\* the acknowledged ones and at most the one in flight, whatever is lost,
\* however often a datagram is sent again and for every choice of the
\* constants.
THEOREM DatagramsOnce == Spec => []DeviceOnce
<1>1. Spec => []DeviceInv
  BY InitDevice, NextDevice, Invariance, PTL DEF Spec
<1> QED
  BY <1>1, Invariance, DeviceImplies, PTL

=============================================================================
