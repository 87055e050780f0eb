--------------------------- MODULE SequenceProofs ---------------------------
(***************************************************************************)
(* Theorems about the two number circles of the driver stack.  STP: the    *)
(* window protocol over a few sequence numbers keeps its bookkeeping and   *)
(* implements the FIFOs of LinkChannel, whatever is lost, damaged, late or *)
(* sent again.  Wi-Fi: the three-case comparisons of received frames are   *)
(* tests on one number, the distance from the start of the window going    *)
(* forward, and the reordering built on them keeps the true order of the   *)
(* frames.  For every size of the circles and windows.                     *)
(***************************************************************************)
EXTENDS StpLink, RxReorder, SequenceTheorems, WellFoundedInduction, TLAPS

-----------------------------------------------------------------------------
(* Division.                                                               *)

\* Division with remainder.
LEMMA DivModInt ==
  ASSUME NEW a \in Int, NEW k \in Nat \ {0}
  PROVE  /\ a \div k \in Int
         /\ a % k \in 0..k - 1
         /\ a = k * (a \div k) + (a % k)
<1>1. a % k \in 0..k - 1
  OBVIOUS
<1>2. a = k * (a \div k) + (a % k)
  OBVIOUS
<1>3. a \div k \in Int
  OBVIOUS
<1> QED BY <1>1, <1>2, <1>3

\* There is one way to divide.
LEMMA OneQuotient ==
  ASSUME NEW k \in Nat \ {0}, NEW q \in Int, NEW p \in Int,
         NEW r \in 0..k - 1, NEW s \in 0..k - 1, k * q + r = k * p + s
  PROVE  q = p /\ r = s
OBVIOUS

\* Turns can be counted before or after the difference is taken.
LEMMA Spread ==
  ASSUME NEW k \in Nat, NEW p \in Int, NEW q \in Int
  PROVE  k * (p - q) = k * p - k * q /\ k * p \in Int /\ k * q \in Int
OBVIOUS

\* Less than a turn is none.
LEMMA NoTurn ==
  ASSUME NEW k \in Nat \ {0}, NEW d \in Int, k * d < k, -(k * d) < k
  PROVE  d = 0
<1>1. ASSUME d >= 1 PROVE FALSE
  BY <1>1
<1>2. ASSUME d <= -1 PROVE FALSE
  BY <1>2
<1> QED BY <1>1, <1>2

\* The remainders of two numbers differ as they do, but for some turns.
LEMMA Differ ==
  ASSUME NEW k \in Nat, NEW p \in Int, NEW q \in Int, NEW n \in Int, NEW c \in Int,
         NEW x \in Int, NEW y \in Int, n - 1 = k * q + x, c - 1 = k * p + y
  PROVE  x - y = k * (p - q) + (n - c)
<1>1. k * (p - q) = k * p - k * q /\ k * p \in Int /\ k * q \in Int
  BY Spread
<1>2. ASSUME NEW a \in Int, NEW b \in Int, n - 1 = b + x, c - 1 = a + y
      PROVE  x - y = a - b + (n - c)
  BY <1>2
<1>3. x - y = k * p - k * q + (n - c)
  BY <1>1, <1>2
<1> QED BY <1>1, <1>3

\* A function on 1..n is a sequence.
LEMMA FunctionIsSeq ==
  ASSUME NEW S, NEW n \in Nat, NEW y \in [1..n -> S]
  PROVE  y \in Seq(S) /\ Len(y) = n
OBVIOUS

-----------------------------------------------------------------------------
(* STP: numbers of packets and their sequence numbers.                          *)

\* The sequence number of packet n; Num(0) is the acknowledgement of nothing.
Num(n) == (n - 1) % Modulus

\* Division with remainder has one quotient and one remainder.
LEMMA ModIs ==
  ASSUME NEW a \in Int, NEW q \in Int, NEW r \in Seqs, a = Modulus * q + r
  PROVE  a % Modulus = r
<1>1. Modulus \in Nat \ {0} /\ r \in 0..Modulus - 1
  BY StpLinkAssumption DEF Seqs
<1>2. /\ a \div Modulus \in Int /\ a % Modulus \in 0..Modulus - 1
      /\ a = Modulus * (a \div Modulus) + (a % Modulus)
  BY <1>1, DivModInt
<1>3. Modulus * (a \div Modulus) + (a % Modulus) = Modulus * q + r
  BY <1>2
<1>4. \A k \in Nat \ {0}, p, t \in Int : \A d, e \in 0..k - 1 :
        k * p + d = k * t + e => d = e
  BY OneQuotient
<1>5. Modulus * (a \div Modulus) + (a % Modulus) = Modulus * q + r
        => a % Modulus = r
  BY <1>1, <1>2, <1>4
<1> QED BY <1>3, <1>5

\* The quotient of packet n's number.
Turn(n) == (n - 1) \div Modulus

\* Where packet n stands: its turn and its sequence number.
LEMMA NumIs ==
  ASSUME NEW n \in Int
  PROVE  /\ Num(n) \in Seqs /\ Num(n) \in Int /\ Num(n) >= 0 /\ Num(n) < Modulus
         /\ Turn(n) \in Int /\ n - 1 = Modulus * Turn(n) + Num(n)
<1>1. Modulus \in Nat \ {0} /\ n - 1 \in Int
  BY StpLinkAssumption
<1>2. /\ Num(n) \in 0..Modulus - 1 /\ Turn(n) \in Int
      /\ n - 1 = Modulus * Turn(n) + Num(n)
  BY <1>1, DivModInt DEF Num, Turn
<1> QED BY <1>1, <1>2 DEF Seqs

\* Packets less than Modulus apart have different sequence numbers.
LEMMA NumUnique ==
  ASSUME NEW n \in Int, NEW m \in Int, n - m < Modulus, m - n < Modulus, Num(n) = Num(m)
  PROVE  n = m
<1>1. Modulus \in Nat \ {0}
  BY StpLinkAssumption
<1>2. /\ Num(n) \in Int /\ Turn(n) \in Int /\ n - 1 = Modulus * Turn(n) + Num(n)
      /\ Turn(m) \in Int /\ m - 1 = Modulus * Turn(m) + Num(n)
  BY NumIs
<1>3. n - m = Modulus * (Turn(n) - Turn(m))
  BY <1>1, <1>2, Spread
<1>4. Turn(n) - Turn(m) = 0
  <2>1. /\ Turn(n) - Turn(m) \in Int /\ Modulus * (Turn(n) - Turn(m)) < Modulus
        /\ -(Modulus * (Turn(n) - Turn(m))) < Modulus
    BY <1>1, <1>2, <1>3
  <2> QED BY <1>1, <2>1, NoTurn
<1> QED BY <1>1, <1>2, <1>3, <1>4

\* Counting on from a sequence number counts packets.
LEMMA NumAdd ==
  ASSUME NEW n \in Int, NEW i \in Int
  PROVE  (Num(n) + i) % Modulus = Num(n + i)
<1>1. Modulus \in Nat \ {0}
  BY StpLinkAssumption
<1>2. Num(n) \in Int /\ Turn(n) \in Int /\ n - 1 = Modulus * Turn(n) + Num(n)
  BY NumIs
<1>3. /\ Num(n + i) \in Seqs /\ Num(n + i) \in Int /\ Turn(n + i) \in Int
      /\ n + i - 1 = Modulus * Turn(n + i) + Num(n + i)
  BY NumIs
<1>4. Num(n) + i = Modulus * (Turn(n + i) - Turn(n)) + Num(n + i)
  <2>1. /\ Modulus * (Turn(n + i) - Turn(n)) = Modulus * Turn(n + i) - Modulus * Turn(n)
        /\ Modulus * Turn(n + i) \in Int /\ Modulus * Turn(n) \in Int
    BY <1>1, <1>2, <1>3, Spread
  <2> DEFINE a == Modulus * Turn(n + i)
             b == Modulus * Turn(n)
             d == Modulus * (Turn(n + i) - Turn(n))
  <2>2. /\ d = a - b /\ a \in Int /\ b \in Int
        /\ n + i - 1 = a + Num(n + i) /\ n - 1 = b + Num(n)
    BY <1>2, <1>3, <2>1
  <2> HIDE DEF a, b, d
  <2>3. Num(n) + i = d + Num(n + i)
    BY <1>2, <1>3, <2>2
  <2> QED BY <2>3 DEF d
<1>5. Num(n) + i \in Int /\ Turn(n + i) - Turn(n) \in Int
  BY <1>2, <1>3
<1> QED BY <1>3, <1>4, <1>5, ModIs

\* INDEX_INC goes from a packet to the next.
LEMMA NextNum ==
  ASSUME NEW n \in Nat
  PROVE  Inc(Num(n)) = Num(n + 1) /\ Inc(Num(n)) \in Seqs
<1>1. n \in Int /\ 1 \in Int /\ n + 1 \in Int
  OBVIOUS
<1>2. (Num(n) + 1) % Modulus = Num(n + 1) /\ Num(n + 1) \in Seqs
  BY <1>1, NumAdd, NumIs
<1> QED BY <1>2 DEF Inc

\* The numbers of two packets tell how far they are apart.
LEMMA NumApart ==
  ASSUME NEW c \in Int, NEW n \in Int, c <= n, n - c < Modulus
  PROVE  (Num(n) - Num(c)) % Modulus = n - c
<1>1. Modulus \in Nat \ {0} /\ n - c \in Seqs /\ n - c \in Int
  BY StpLinkAssumption DEF Seqs
<1>2. Num(n) \in Int /\ Turn(n) \in Int /\ n - 1 = Modulus * Turn(n) + Num(n)
  BY NumIs
<1>3. Num(c) \in Int /\ Turn(c) \in Int /\ c - 1 = Modulus * Turn(c) + Num(c)
  BY NumIs
<1>4. Num(n) - Num(c) = Modulus * (Turn(c) - Turn(n)) + (n - c)
  <2>1. \A x, y, p, q \in Int : n - 1 = Modulus * q + x /\ c - 1 = Modulus * p + y
           => x - y = Modulus * (p - q) + (n - c)
    BY <1>1, Differ
  <2> QED BY <1>2, <1>3, <2>1
<1>5. Num(n) - Num(c) \in Int /\ Turn(c) - Turn(n) \in Int
  BY <1>2, <1>3
<1> QED BY <1>1, <1>4, <1>5, ModIs

\* What is sent and not acknowledged, as sequence numbers: packets c + 1 to n.
LEMMA BetweenIs ==
  ASSUME NEW c \in Nat, NEW n \in Nat, c <= n, n - c < Modulus
  PROVE  /\ Between(Num(c), Num(n + 1)) = [i \in 1..(n - c) |-> Num(c + i)]
         /\ Between(Num(c), Num(n + 1)) \in Seq(Seqs)
         /\ Len(Between(Num(c), Num(n + 1))) = n - c
<1>1. Modulus \in Nat \ {0} /\ n - c \in Nat
  BY StpLinkAssumption
<1>2. (Num(n + 1) - Num(c) - 1) % Modulus = n - c
  <2>1. Num(n) \in Int /\ Turn(n) \in Int /\ n - 1 = Modulus * Turn(n) + Num(n)
    BY NumIs
  <2>2. Num(c) \in Int /\ Turn(c) \in Int /\ c - 1 = Modulus * Turn(c) + Num(c)
    BY NumIs
  <2>3. /\ Num(n + 1) \in Int /\ Turn(n + 1) \in Int
        /\ n + 1 - 1 = Modulus * Turn(n + 1) + Num(n + 1)
    BY NumIs
  <2>4. Num(n + 1) - Num(c) - 1 = Modulus * (Turn(c) - Turn(n + 1)) + (n - c)
    BY <1>1, <2>2, <2>3, Spread
  <2>5. /\ Num(n + 1) - Num(c) - 1 \in Int /\ Turn(c) - Turn(n + 1) \in Int
        /\ n - c \in Seqs
    BY <1>1, <2>2, <2>3 DEF Seqs
  <2> QED BY <2>4, <2>5, ModIs
<1>3. ASSUME NEW i \in 1..(n - c)
      PROVE  (Num(c) + i) % Modulus = Num(c + i) /\ Num(c + i) \in Seqs
  <2>1. c \in Int /\ i \in Int /\ c + i \in Int
    OBVIOUS
  <2> QED BY <2>1, NumAdd, NumIs
<1>4. Between(Num(c), Num(n + 1)) = [i \in 1..(n - c) |-> Num(c + i)]
  BY <1>2, <1>3 DEF Between
<1> HIDE DEF Num
<1> QED BY <1>1, <1>3, <1>4

-----------------------------------------------------------------------------
(* The wires.                                                              *)

\* Every ack on wire w is for a packet from lo, the last one known to have
\* arrived, to hi, the last one taken, and later ones for no earlier packet.
IsAck(item, n) == item.kind # "resync" /\ item.ack = Num(n)
AckLine(w, lo, hi) ==
  /\ \A i \in 1..Len(w) : w[i].kind # "resync" => \E n \in lo..hi : IsAck(w[i], n)
  /\ \A i \in 1..Len(w) : \A j \in i + 1..Len(w) : \A n, m \in lo..hi :
       IsAck(w[i], n) /\ IsAck(w[j], m) => n <= m

\* Every data packet on wire w is one of those sent, no more than a window
\* behind what was taken or what is in front of it.
IsData(item, took, total) ==
  /\ item.no \in 1..total /\ item.seq = Num(item.no)
  /\ item.no + WinSize > took
DataLine(w, took, total) ==
  /\ \A i \in 1..Len(w) : w[i].kind = "data" => IsData(w[i], took, total)
  /\ \A i \in 1..Len(w) : \A j \in i + 1..Len(w) :
       w[i].kind = "data" /\ w[j].kind = "data" => w[j].no + WinSize > w[i].no

\* The end of a wire.
LEMMA EndOfWire ==
  ASSUME NEW w \in Seq(Items), NEW k \in 1..Len(w) + 1
  PROVE  /\ SubSeq(w, k, Len(w)) \in Seq(Items)
         /\ Len(SubSeq(w, k, Len(w))) = Len(w) - k + 1
         /\ \A i \in 1..Len(w) - k + 1 : SubSeq(w, k, Len(w))[i] = w[k + i - 1]
<1>1. Len(w) \in Nat /\ \A i \in k..Len(w) : w[i] \in Items
  BY LenProperties, ElementOfSeq
<1>2. k \in Int /\ Len(w) \in Int
  BY <1>1
<1> QED BY <1>1, <1>2, SubSeqProperties

\* Reading an item leaves the end from the second one.
LEMMA TailOfWire ==
  ASSUME NEW w \in Seq(Items), w # <<>>
  PROVE  /\ Len(w) \in Nat \ {0} /\ 2 \in 1..Len(w) + 1 /\ Tail(w) = SubSeq(w, 2, Len(w))
         /\ Head(w) = w[1] /\ w[1] \in Items
<1>1. Len(w) \in Nat \ {0} /\ Head(w) = w[1] /\ w[1] \in Items
  BY LenProperties, EmptySeq, HeadTailProperties, ElementOfSeq
<1>2. 2 \in 1..Len(w) + 1
  BY <1>1
<1>3. Tail(w) = SubSeq(w, 2, Len(w))
  BY TailIsSubSeq
<1> QED BY <1>1, <1>2, <1>3

\* What is lost, read or purged leaves the rest as it was.
LEMMA AckEnd ==
  ASSUME NEW w \in Seq(Items), NEW k \in 1..Len(w) + 1, NEW lo \in Nat, NEW hi \in Nat,
         AckLine(w, lo, hi)
  PROVE  AckLine(SubSeq(w, k, Len(w)), lo, hi)
<1> DEFINE v == SubSeq(w, k, Len(w))
<1>1. Len(w) \in Nat
  BY LenProperties
<1>2. Len(v) = Len(w) - k + 1 /\ \A i \in 1..Len(w) - k + 1 : v[i] = w[k + i - 1]
  BY EndOfWire
<1>3. \A i \in 1..Len(v) : k + i - 1 \in 1..Len(w) /\ v[i] = w[k + i - 1]
  BY <1>1, <1>2
<1>4. \A i \in 1..Len(v) : \A j \in i + 1..Len(v) :
        j \in 1..Len(v) /\ k + j - 1 \in (k + i - 1) + 1..Len(w)
  BY <1>1, <1>2
<1> HIDE DEF v
<1>5. \A i \in 1..Len(v) : v[i].kind # "resync" => \E n \in lo..hi : IsAck(v[i], n)
  BY <1>3 DEF AckLine
<1>6. ASSUME NEW i \in 1..Len(v), NEW j \in i + 1..Len(v), NEW n \in lo..hi, NEW m \in lo..hi,
             IsAck(v[i], n), IsAck(v[j], m)
      PROVE  n <= m
  BY <1>3, <1>4, <1>6 DEF AckLine
<1>7. AckLine(v, lo, hi)
  BY <1>5, <1>6 DEF AckLine
<1> QED BY <1>7 DEF v

LEMMA DataEnd ==
  ASSUME NEW w \in Seq(Items), NEW k \in 1..Len(w) + 1, NEW took \in Nat, NEW total \in Nat,
         DataLine(w, took, total)
  PROVE  DataLine(SubSeq(w, k, Len(w)), took, total)
<1> DEFINE v == SubSeq(w, k, Len(w))
<1>1. Len(w) \in Nat
  BY LenProperties
<1>2. Len(v) = Len(w) - k + 1 /\ \A i \in 1..Len(w) - k + 1 : v[i] = w[k + i - 1]
  BY EndOfWire
<1>3. \A i \in 1..Len(v) : k + i - 1 \in 1..Len(w) /\ v[i] = w[k + i - 1]
  BY <1>1, <1>2
<1>4. \A i \in 1..Len(v) : \A j \in i + 1..Len(v) :
        j \in 1..Len(v) /\ k + j - 1 \in (k + i - 1) + 1..Len(w)
  BY <1>1, <1>2
<1> HIDE DEF v
<1>5. \A i \in 1..Len(v) : v[i].kind = "data" => IsData(v[i], took, total)
  BY <1>3 DEF DataLine
<1>6. ASSUME NEW i \in 1..Len(v), NEW j \in i + 1..Len(v), v[i].kind = "data", v[j].kind = "data"
      PROVE  v[j].no + WinSize > v[i].no
  BY <1>3, <1>4, <1>6 DEF DataLine
<1>7. DataLine(v, took, total)
  BY <1>5, <1>6 DEF DataLine
<1> QED BY <1>7 DEF v

\* What the receiver sends acknowledges the last packet it took.
LEMMA AckAppend ==
  ASSUME NEW w \in Seq(Items), NEW x \in Seq(Items), NEW lo \in Nat, NEW hi \in Nat,
         lo <= hi, hi - lo < Modulus, AckLine(w, lo, hi),
         \A i \in 1..Len(x) : x[i].kind # "resync" => IsAck(x[i], hi)
  PROVE  AckLine(w \o x, lo, hi)
<1> DEFINE v == w \o x
<1>1. Len(w) \in Nat /\ Len(x) \in Nat /\ Modulus \in Nat
  BY LenProperties, StpLinkAssumption
<1>2. /\ Len(v) = Len(w) + Len(x)
      /\ \A i \in 1..Len(w) + Len(x) : v[i] = IF i <= Len(w) THEN w[i] ELSE x[i - Len(w)]
  BY ConcatProperties
<1>3. ASSUME NEW i \in 1..Len(v)
      PROVE  \/ i \in 1..Len(w) /\ v[i] = w[i]
             \/ i \in Len(w) + 1..Len(v) /\ (v[i].kind # "resync" => IsAck(v[i], hi))
  BY <1>1, <1>2
<1> HIDE DEF v
<1>4. Len(v) \in Nat
  BY <1>1, <1>2
<1>5. \A i \in 1..Len(v) : v[i].kind # "resync" => \E n \in lo..hi : IsAck(v[i], n)
  BY <1>3 DEF AckLine
<1>6. ASSUME NEW i \in 1..Len(v), NEW j \in i + 1..Len(v), NEW n \in lo..hi, NEW m \in lo..hi,
             IsAck(v[i], n), IsAck(v[j], m)
      PROVE  n <= m
  <2>1. j \in 1..Len(v) /\ n \in Int /\ m \in Int /\ n <= hi /\ m <= hi
    BY <1>4
  <2>2. CASE j \in 1..Len(w) /\ v[j] = w[j]
    <3>1. i \in 1..Len(w) /\ j \in i + 1..Len(w) /\ i \notin Len(w) + 1..Len(v)
      BY <1>1, <2>2
    <3>2. v[i] = w[i]
      BY <1>2, <1>1, <3>1
    <3> QED BY <1>6, <2>2, <3>1, <3>2 DEF AckLine
  <2>3. CASE j \in Len(w) + 1..Len(v) /\ (v[j].kind # "resync" => IsAck(v[j], hi))
    <3>1. Num(m) = Num(hi)
      BY <1>6, <2>3 DEF IsAck
    <3>2. m = hi
      BY <1>1, <2>1, <3>1, NumUnique
    <3> QED BY <2>1, <3>2
  <2> QED BY <1>3, <2>1, <2>2, <2>3
<1>7. AckLine(v, lo, hi)
  BY <1>5, <1>6 DEF AckLine
<1> QED BY <1>7 DEF v

\* Once another packet is taken an ack may also be for that one.
LEMMA AckMore ==
  ASSUME NEW w \in Seq(Items), NEW lo \in Nat, NEW hi \in Nat,
         lo <= hi, hi + 1 - lo < Modulus, AckLine(w, lo, hi)
  PROVE  AckLine(w, lo, hi + 1)
<1>1. lo \in Int /\ hi \in Int /\ Modulus \in Nat
  BY StpLinkAssumption
<1>2. ASSUME NEW i \in 1..Len(w), NEW n \in lo..hi + 1, IsAck(w[i], n)
      PROVE  n \in lo..hi
  <2>1. PICK k \in lo..hi : IsAck(w[i], k)
    BY <1>2 DEF AckLine, IsAck
  <2>2. k = n
    <3>1. k \in Int /\ n \in Int /\ k - n < Modulus /\ n - k < Modulus
      BY <1>1
    <3>2. Num(k) = Num(n)
      BY <1>2, <2>1 DEF IsAck
    <3> QED BY <3>1, <3>2, NumUnique
  <2> QED BY <2>2
<1>3. \A i \in 1..Len(w) : w[i].kind # "resync" => \E n \in lo..hi + 1 : IsAck(w[i], n)
  BY <1>1 DEF AckLine
<1>4. Len(w) \in Nat
  BY LenProperties
<1>5. ASSUME NEW i \in 1..Len(w), NEW j \in i + 1..Len(w), NEW n \in lo..hi + 1,
             NEW m \in lo..hi + 1, IsAck(w[i], n), IsAck(w[j], m)
      PROVE  n <= m
  <2>1. j \in 1..Len(w)
    BY <1>4
  <2>2. n \in lo..hi /\ m \in lo..hi
    BY <1>2, <1>5, <2>1
  <2> QED BY <1>5, <2>2 DEF AckLine
<1> QED BY <1>3, <1>5 DEF AckLine

\* What the head acknowledges has arrived: all behind it is for that or later.
LEMMA AckAdvance ==
  ASSUME NEW w \in Seq(Items), w # <<>>, NEW lo \in Nat, NEW hi \in Nat,
         AckLine(w, lo, hi), NEW n \in lo..hi, IsAck(Head(w), n)
  PROVE  AckLine(Tail(w), n, hi)
<1>1. /\ Len(w) \in Nat \ {0} /\ 2 \in 1..Len(w) + 1 /\ Tail(w) = SubSeq(w, 2, Len(w))
      /\ Head(w) = w[1]
  BY TailOfWire
<1> DEFINE v == Tail(w)
<1>2. AckLine(v, lo, hi)
  BY <1>1, AckEnd
<1>3. Len(v) = Len(w) - 1 /\ \A i \in 1..Len(v) : v[i] = w[i + 1]
  BY HeadTailProperties
<1> HIDE DEF v
<1>4. ASSUME NEW i \in 1..Len(v), NEW m \in lo..hi, IsAck(v[i], m)
      PROVE  n <= m
  <2>1. 1 \in 1..Len(w) /\ i + 1 \in 1 + 1..Len(w) /\ v[i] = w[i + 1]
    BY <1>1, <1>3
  <2> QED BY <1>1, <1>4, <2>1 DEF AckLine
<1>5. ASSUME NEW i \in 1..Len(v), v[i].kind # "resync"
      PROVE  \E m \in n..hi : IsAck(v[i], m)
  <2>1. PICK m \in lo..hi : IsAck(v[i], m)
    BY <1>2, <1>5 DEF AckLine
  <2>2. m \in n..hi
    BY <1>4, <2>1
  <2> QED BY <2>1, <2>2
<1>6. n..hi \subseteq lo..hi
  OBVIOUS
<1>7. ASSUME NEW i \in 1..Len(v), NEW j \in i + 1..Len(v), NEW k \in n..hi, NEW m \in n..hi,
             IsAck(v[i], k), IsAck(v[j], m)
      PROVE  k <= m
  BY <1>2, <1>6, <1>7 DEF AckLine
<1>8. AckLine(v, n, hi)
  BY <1>5, <1>7 DEF AckLine
<1> QED BY <1>8 DEF v

\* A sender puts acks and packets on its wire that are not far behind what it
\* sent last, in order.
LEMMA DataAppend ==
  ASSUME NEW w \in Seq(Items), NEW x \in Seq(Items), NEW took \in Nat, NEW total \in Nat,
         NEW more \in Nat, total <= more, DataLine(w, took, total),
         \A i \in 1..Len(x) : x[i].kind = "data" =>
           IsData(x[i], took, more) /\ x[i].no + WinSize > total,
         \A i \in 1..Len(x) : \A j \in i + 1..Len(x) :
           x[i].kind = "data" /\ x[j].kind = "data" => x[j].no + WinSize > x[i].no
  PROVE  DataLine(w \o x, took, more)
<1> DEFINE v == w \o x
<1>1. Len(w) \in Nat /\ Len(x) \in Nat /\ WinSize \in Nat
  BY LenProperties, StpLinkAssumption
<1>2. /\ Len(v) = Len(w) + Len(x)
      /\ \A i \in 1..Len(w) + Len(x) : v[i] = IF i <= Len(w) THEN w[i] ELSE x[i - Len(w)]
  BY ConcatProperties
<1>3. \A i \in 1..Len(v) : \/ i \in 1..Len(w) /\ v[i] = w[i]
                           \/ i - Len(w) \in 1..Len(x) /\ v[i] = x[i - Len(w)]
  BY <1>1, <1>2
<1>4. \A i \in 1..Len(v) : \A j \in i + 1..Len(v) :
        /\ j \in 1..Len(v)
        /\ j \in 1..Len(w) => i \in 1..Len(w) /\ v[i] = w[i] /\ j \in i + 1..Len(w)
        /\ i - Len(w) \in 1..Len(x) => j - Len(w) \in i - Len(w) + 1..Len(x)
  BY <1>1, <1>2
<1>5. \A i \in 1..Len(v) : \A j \in i + 1..Len(v) :
        i - Len(w) \in 1..Len(x) => v[i] = x[i - Len(w)] /\ v[j] = x[j - Len(w)]
  BY <1>1, <1>2
<1> HIDE DEF v
<1>6. ASSUME NEW i \in 1..Len(v), v[i].kind = "data"
      PROVE  IsData(v[i], took, more)
  <2>1. CASE i \in 1..Len(w) /\ v[i] = w[i]
    BY <1>6, <2>1 DEF DataLine, IsData
  <2>2. CASE i - Len(w) \in 1..Len(x) /\ v[i] = x[i - Len(w)]
    BY <1>6, <2>2
  <2> QED BY <1>3, <2>1, <2>2
<1>7. ASSUME NEW i \in 1..Len(v), NEW j \in i + 1..Len(v), v[i].kind = "data", v[j].kind = "data"
      PROVE  v[j].no + WinSize > v[i].no
  <2>1. CASE j \in 1..Len(w) /\ v[j] = w[j]
    <3>1. i \in 1..Len(w) /\ v[i] = w[i] /\ j \in i + 1..Len(w)
      BY <1>4, <2>1
    <3> QED BY <1>7, <2>1, <3>1 DEF DataLine
  <2>2. CASE j - Len(w) \in 1..Len(x) /\ v[j] = x[j - Len(w)]
    <3>1. v[j].no \in Nat /\ v[j].no + WinSize > total
      BY <1>7, <2>2 DEF IsData
    <3>2. CASE i \in 1..Len(w) /\ v[i] = w[i]
      <4>1. v[i].no \in 1..total
        BY <1>7, <3>2 DEF DataLine, IsData
      <4> QED BY <1>1, <3>1, <4>1
    <3>3. CASE i - Len(w) \in 1..Len(x) /\ v[i] = x[i - Len(w)]
      BY <1>4, <1>5, <1>7, <3>3
    <3> QED BY <1>3, <3>2, <3>3
  <2>3. j \in 1..Len(v)
    BY <1>4
  <2> QED BY <1>3, <2>1, <2>2, <2>3
<1>8. DataLine(v, took, more)
  BY <1>6, <1>7 DEF DataLine
<1> QED BY <1>8 DEF v

\* The packet the receiver expects is the one after the last it took, although
\* it looks at the sequence number only; what is behind it is no older.
LEMMA DataTake ==
  ASSUME NEW w \in Seq(Items), w # <<>>, NEW took \in Nat, NEW total \in Nat,
         total <= took + WinSize, DataLine(w, took, total),
         Head(w).kind = "data", Head(w).seq = Num(took + 1)
  PROVE  /\ Head(w).no = took + 1 /\ took + 1 <= total
         /\ DataLine(Tail(w), took + 1, total)
<1>1. /\ Len(w) \in Nat \ {0} /\ 2 \in 1..Len(w) + 1 /\ Tail(w) = SubSeq(w, 2, Len(w))
      /\ Head(w) = w[1]
  BY TailOfWire
<1>2. Modulus \in Nat /\ WinSize \in Nat /\ WinSize < Modulus
  BY StpLinkAssumption
<1>3. IsData(w[1], took, total)
  BY <1>1 DEF DataLine
<1> DEFINE n == Head(w).no
<1>4. n \in 1..total /\ Num(took + 1) = Num(n) /\ n + WinSize > took
  BY <1>1, <1>3 DEF IsData
<1>5. n \in Int /\ took + 1 \in Int /\ n - (took + 1) < Modulus /\ (took + 1) - n < Modulus
  BY <1>2, <1>4
<1>6. n = took + 1
  BY <1>4, <1>5, NumUnique
<1> DEFINE v == Tail(w)
<1>7. DataLine(v, took, total)
  BY <1>1, DataEnd
<1>8. Len(v) = Len(w) - 1 /\ \A i \in 1..Len(v) : v[i] = w[i + 1]
  BY HeadTailProperties
<1>9. ASSUME NEW i \in 1..Len(v), v[i].kind = "data"
      PROVE  IsData(v[i], took + 1, total)
  <2>1. 1 \in 1..Len(w) /\ i + 1 \in 1 + 1..Len(w) /\ v[i] = w[i + 1]
    BY <1>1, <1>8
  <2>2. v[i].no + WinSize > n
    BY <1>1, <1>9, <2>1 DEF DataLine
  <2> QED BY <1>6, <1>7, <1>9, <2>2 DEF DataLine, IsData
<1>10. DataLine(v, took + 1, total)
  <2> HIDE DEF v
  <2> QED BY <1>7, <1>9 DEF DataLine
<1> QED BY <1>4, <1>6, <1>10

-----------------------------------------------------------------------------
(* The invariant.                                                          *)

SeqTypes ==
  /\ txseq \in [Sides -> Seqs] /\ rxack \in [Sides -> Seqs]
  /\ txack \in [Sides -> Seqs] /\ expected \in [Sides -> Seqs]
CountTypes ==
  /\ winspace \in [Sides -> 0..WinSize] /\ retry \in [Sides -> 0..(RetryLimit + 1)]
  /\ timer \in [Sides -> BOOLEAN] /\ retryOp \in [Sides -> Nat]
  /\ failCnt \in [Sides -> 0..RetryLimit] /\ rxOk \in [Sides -> BOOLEAN]
DataTypes ==
  /\ txbuf \in [Sides -> [Seqs -> Nat]] /\ wire \in [Sides -> Seq(Items)]
  /\ sent \in [Sides -> Nat] /\ log \in [Sides -> Seq(Nat)]
RestTypes ==
  /\ parser \in [Sides -> {"SYNC", "RESYNC1"}] /\ ring \in 0..RingSize
  /\ load \in Loads /\ down \in BOOLEAN /\ errors \in Nat
Types == SeqTypes /\ CountTypes /\ DataTypes /\ RestTypes

Took(s) == Len(log[s])

\* What side s knows: packets up to c have arrived, the window is what is
\* left of those it sent, each of these is in txbuf, and every ack on its way
\* is for one that arrived.
Knows(s, c) ==
  /\ c \in Nat /\ c <= Took(s) /\ Took(s) <= sent[s] /\ sent[s] - c <= WinSize
  /\ txseq[s] = Num(sent[s] + 1) /\ rxack[s] = Num(c)
  /\ winspace[s] = WinSize - (sent[s] - c)
  /\ \A n \in c + 1..sent[s] : txbuf[s][Num(n)] = n
  /\ AckLine(wire[Peer(s)], c, Took(s))

\* What the peer knows of the packets of s, and what is on their way.
Hears(s) ==
  /\ expected[Peer(s)] = Num(Took(s) + 1) /\ txack[Peer(s)] = Num(Took(s))
  /\ DataLine(wire[s], Took(s), sent[s])

SendWindow(s) == Hears(s) /\ \E c \in Nat : Knows(s, c)

\* A timer or a retry op is there for what is outstanding, and no side went
\* on after its last repetition.
Armed(s) == ~down => (winspace[s] < WinSize => timer[s] \/ retryOp[s] > 0)
Limit(s) == ~down => retry[s] <= RetryLimit

LinkInd == Types /\ \A s \in Sides : SendWindow(s) /\ Armed(s) /\ Limit(s)

\* Two sides, each the peer of the other.
LEMMA Peers ==
  ASSUME NEW s \in Sides
  PROVE  /\ Peer(s) \in Sides /\ Peer(s) # s /\ Peer(Peer(s)) = s
         /\ \A t \in Sides : t = s \/ t = Peer(s)
BY DEF Sides, Peer

\* What a side holds for acknowledged is what the invariant says.
LEMMA Known ==
  ASSUME NEW c \in Nat, NEW n \in Nat, c <= n, n - c <= WinSize
  PROVE  n - Len(Between(Num(c), Num(n + 1))) = c
<1>1. n - c < Modulus
  BY StpLinkAssumption
<1>2. Len(Between(Num(c), Num(n + 1))) = n - c
  BY <1>1, BetweenIs
<1> QED BY <1>2

\* Confirmed(s) is the number Knows speaks of, and Outstanding(s) the packets
\* after it.
LEMMA KnowsConfirmed ==
  ASSUME LinkInd, NEW s \in Sides, NEW c \in Nat, Knows(s, c)
  PROVE  /\ Confirmed(s) = c
         /\ Outstanding(s) = [i \in 1..(sent[s] - c) |-> Num(c + i)]
         /\ Outstanding(s) \in Seq(Seqs) /\ Len(Outstanding(s)) = sent[s] - c
<1>1. sent[s] \in Nat /\ c <= sent[s] /\ sent[s] - c <= WinSize
  <2>1. Len(log[s]) \in Nat
    BY LenProperties DEF LinkInd, Types, DataTypes
  <2> QED BY <2>1 DEF LinkInd, Types, DataTypes, Knows, Took
<1>2. sent[s] - c < Modulus
  BY <1>1, StpLinkAssumption
<1>3. rxack[s] = Num(c) /\ txseq[s] = Num(sent[s] + 1)
  BY DEF Knows
<1>4. /\ Outstanding(s) = [i \in 1..(sent[s] - c) |-> Num(c + i)]
      /\ Outstanding(s) \in Seq(Seqs) /\ Len(Outstanding(s)) = sent[s] - c
  BY <1>1, <1>2, <1>3, BetweenIs DEF Outstanding
<1>5. Confirmed(s) = c
  BY <1>1, <1>4 DEF Confirmed
<1> QED BY <1>4, <1>5

\* The initial states: nothing sent, nothing acknowledged.
LEMMA LinkStart == Init => LinkInd
<1> SUFFICES ASSUME Init PROVE LinkInd
  OBVIOUS
<1>1. Modulus \in Nat \ {0} /\ WinSize \in Nat \ {0} /\ RetryLimit \in Nat /\ WinSize < Modulus
      /\ RingSize \in Nat
  BY StpLinkAssumption
<1>2. 0 = Num(1) /\ 0 \in Seqs
  BY <1>1, ModIs DEF Num, Seqs
<1>3. Modulus - 1 = Num(0) /\ Modulus - 1 \in Seqs
  <2>1. -1 = Modulus * (-1) + (Modulus - 1) /\ Modulus - 1 \in Seqs
    BY <1>1 DEF Seqs
  <2> QED BY <2>1, ModIs DEF Num
<1>4. SeqTypes
  BY <1>2, <1>3 DEF Init, SeqTypes
<1>5. CountTypes
  BY <1>1 DEF Init, CountTypes
<1>6. DataTypes
  BY EmptySeq DEF Init, DataTypes
<1>7. RestTypes
  <2>1. parser \in [Sides -> {"SYNC", "RESYNC1"}] /\ ring \in 0..RingSize
    BY <1>1 DEF Init
  <2>2. load \in Loads /\ down \in BOOLEAN /\ errors \in Nat
    BY DEF Init
  <2> QED BY <2>1, <2>2 DEF RestTypes
<1>8. ASSUME NEW s \in Sides PROVE SendWindow(s)
  <2>1. Peer(s) \in Sides
    BY Peers
  <2>2. wire[s] = <<>> /\ wire[Peer(s)] = <<>> /\ log[s] = <<>> /\ sent[s] = 0 /\ Took(s) = 0
    BY <2>1 DEF Init, Took
  <2>3. Hears(s)
    BY <1>2, <1>3, <2>1, <2>2 DEF Init, Hears, DataLine
  <2>4. Knows(s, 0)
    BY <1>1, <1>2, <1>3, <2>1, <2>2 DEF Init, Knows, AckLine
  <2> QED BY <2>3, <2>4 DEF SendWindow
<1>9. \A s \in Sides : Armed(s) /\ Limit(s)
  BY <1>1 DEF Init, Armed, Limit
<1> QED BY <1>4, <1>5, <1>6, <1>7, <1>8, <1>9 DEF LinkInd, Types

\* What the invariant gives for the numbers of a side.
LEMMA Numbers ==
  ASSUME LinkInd, NEW s \in Sides
  PROVE  /\ sent[s] \in Nat /\ Took(s) \in Nat /\ log[s] \in Seq(Nat) /\ wire[s] \in Seq(Items)
         /\ WinSize \in Nat \ {0} /\ WinSize < Modulus /\ Modulus \in Nat \ {0}
         /\ RetryLimit \in Nat
<1>1. sent[s] \in Nat /\ log[s] \in Seq(Nat) /\ wire[s] \in Seq(Items)
  BY DEF LinkInd, Types, DataTypes
<1> QED BY <1>1, LenProperties, StpLinkAssumption DEF Took

-----------------------------------------------------------------------------
(* Steps that move no number: they only take from the wires and add to     *)
(* them what was said before.                                              *)

\* What may be on the wire of side t whose peer knows c.
Carries(w, t, c) ==
  w \in Seq(Items) /\ DataLine(w, Took(t), sent[t]) /\ AckLine(w, c, Took(Peer(t)))
WireOk(w, t) == \A c \in Nat : Knows(Peer(t), c) => Carries(w, t, c)

LEMMA WireIsOk ==
  ASSUME LinkInd, NEW t \in Sides
  PROVE  WireOk(wire[t], t)
<1>1. Peer(t) \in Sides /\ Peer(Peer(t)) = t
  BY Peers
<1>2. wire[t] \in Seq(Items) /\ DataLine(wire[t], Took(t), sent[t])
  BY Numbers DEF LinkInd, SendWindow, Hears
<1> QED BY <1>1, <1>2 DEF WireOk, Carries, Knows

\* The peer knows something.
LEMMA SomeKnown ==
  ASSUME LinkInd, NEW t \in Sides
  PROVE  \E c \in Nat : Knows(t, c)
BY DEF LinkInd, SendWindow

LEMMA WireShorter ==
  ASSUME LinkInd, NEW t \in Sides, NEW w, w \in Seq(Items), WireOk(w, t),
         NEW k \in 1..Len(w) + 1
  PROVE  WireOk(SubSeq(w, k, Len(w)), t)
<1> SUFFICES ASSUME NEW c \in Nat, Knows(Peer(t), c)
             PROVE  Carries(SubSeq(w, k, Len(w)), t, c)
  BY DEF WireOk
<1>1. DataLine(w, Took(t), sent[t]) /\ AckLine(w, c, Took(Peer(t)))
  BY DEF WireOk, Carries
<1>2. Took(t) \in Nat /\ sent[t] \in Nat /\ Took(Peer(t)) \in Nat
  BY Numbers, Peers
<1> QED BY <1>1, <1>2, EndOfWire, AckEnd, DataEnd DEF Carries

LEMMA WireTail ==
  ASSUME LinkInd, NEW t \in Sides, NEW w, w \in Seq(Items), WireOk(w, t), w # <<>>
  PROVE  WireOk(Tail(w), t)
BY TailOfWire, WireShorter

\* Saying again what was said: the last packet taken, or one in the window.
LEMMA WireLonger ==
  ASSUME LinkInd, NEW t \in Sides, NEW w \in Seq(Items), NEW x \in Seq(Items), WireOk(w, t),
         \A i \in 1..Len(x) : x[i].kind # "resync" => IsAck(x[i], Took(Peer(t))),
         \A i \in 1..Len(x) : x[i].kind = "data" =>
           IsData(x[i], Took(t), sent[t]) /\ x[i].no + WinSize > sent[t],
         \A i \in 1..Len(x) : \A j \in i + 1..Len(x) :
           x[i].kind = "data" /\ x[j].kind = "data" => x[j].no + WinSize > x[i].no
  PROVE  WireOk(w \o x, t)
<1> SUFFICES ASSUME NEW c \in Nat, Knows(Peer(t), c)
             PROVE  Carries(w \o x, t, c)
  BY DEF WireOk
<1>1. DataLine(w, Took(t), sent[t]) /\ AckLine(w, c, Took(Peer(t)))
  BY DEF WireOk, Carries
<1>2. /\ Took(t) \in Nat /\ sent[t] \in Nat /\ Took(Peer(t)) \in Nat
      /\ sent[Peer(t)] \in Nat /\ WinSize \in Nat /\ WinSize < Modulus /\ Modulus \in Nat
  BY Numbers, Peers
<1>3. c <= Took(Peer(t)) /\ Took(Peer(t)) - c < Modulus
  BY <1>2 DEF Knows
<1>4. w \o x \in Seq(Items)
  BY ConcatProperties
<1>5. AckLine(w \o x, c, Took(Peer(t)))
  BY <1>1, <1>2, <1>3, AckAppend
<1>6. DataLine(w \o x, Took(t), sent[t])
  <2> DEFINE took == Took(t)
             total == sent[t]
  <2>1. /\ took \in Nat /\ total \in Nat /\ total <= total /\ DataLine(w, took, total)
        /\ \A i \in 1..Len(x) : x[i].kind = "data" =>
             IsData(x[i], took, total) /\ x[i].no + WinSize > total
        /\ \A i \in 1..Len(x) : \A j \in i + 1..Len(x) :
             x[i].kind = "data" /\ x[j].kind = "data" => x[j].no + WinSize > x[i].no
    BY <1>1, <1>2
  <2> HIDE DEF took, total
  <2>2. DataLine(w \o x, took, total)
    BY <2>1, DataAppend
  <2> QED BY <2>2 DEF took, total
<1> QED BY <1>4, <1>5, <1>6 DEF Carries

\* The previous ack again.
LEMMA WireAck ==
  ASSUME LinkInd, NEW t \in Sides, NEW w \in Seq(Items), WireOk(w, t)
  PROVE  WireOk(Append(w, [kind |-> "ack", ack |-> txack[t]]), t)
<1> DEFINE a == [kind |-> "ack", ack |-> txack[t]]
<1>1. txack[t] = Num(Took(Peer(t))) /\ txack[t] \in Seqs
  BY Peers DEF LinkInd, SendWindow, Hears, Types, SeqTypes
<1>2. a \in Items /\ a.kind = "ack" /\ IsAck(a, Took(Peer(t)))
  BY <1>1 DEF Items, IsAck
<1> HIDE DEF a
<1>3. <<a>> \in Seq(Items) /\ Len(<<a>>) = 1 /\ <<a>>[1] = a
  BY <1>2
<1>4. WireOk(w \o <<a>>, t)
  <2>1. \A i \in 1..Len(<<a>>) : <<a>>[i] = a
    BY <1>3
  <2> QED BY <1>2, <1>3, <2>1, WireLonger
<1>5. Append(w, a) = w \o <<a>>
  BY <1>2, AppendIsConcat
<1> QED BY <1>4, <1>5 DEF a

Numbering == <<rxack, txseq, winspace, txbuf, sent, expected, txack, log>>

\* The numbers stay, and the wires carry what they may.
LEMMA WindowsKept ==
  ASSUME LinkInd, UNCHANGED Numbering, \A t \in Sides : WireOk(wire'[t], t)
  PROVE  /\ \A s \in Sides : SendWindow(s)'
         /\ \A s \in Sides : wire'[s] \in Seq(Items)
         /\ \A s \in Sides : Confirmed(s)' = Confirmed(s)
<1>1. ASSUME NEW s \in Sides
      PROVE  SendWindow(s)' /\ wire'[s] \in Seq(Items)
  <2>1. Peer(s) \in Sides /\ Peer(Peer(s)) = s
    BY Peers
  <2>2. PICK c \in Nat : Knows(s, c)
    BY SomeKnown
  <2>3. PICK d \in Nat : Knows(Peer(s), d)
    BY <2>1, SomeKnown
  <2>4. Carries(wire'[s], s, d)
    BY <2>3 DEF WireOk
  <2>5. Carries(wire'[Peer(s)], Peer(s), c)
    BY <2>1, <2>2 DEF WireOk
  <2>6. Hears(s)'
    BY <2>1, <2>4 DEF LinkInd, SendWindow, Hears, Carries, Numbering, Took
  <2>7. Knows(s, c)'
    BY <2>1, <2>2, <2>5 DEF Knows, Carries, Numbering, Took
  <2> QED BY <2>4, <2>6, <2>7 DEF SendWindow, Carries
<1>2. \A s \in Sides : Confirmed(s)' = Confirmed(s)
  BY DEF Confirmed, Outstanding, Numbering
<1> QED BY <1>1, <1>2

\* What the guards and the parts of the invariant say together, kept apart so
\* that a step has to look at what it changes only.
Quiet == UNCHANGED Numbering /\ \A t \in Sides : WireOk(wire'[t], t)

\* A step that keeps the numbers keeps the invariant if it keeps the rest.
LEMMA QuietKeeps ==
  ASSUME LinkInd, Quiet, wire' \in [Sides -> Seq(Items)], CountTypes', RestTypes',
         \A s \in Sides : Armed(s)' /\ Limit(s)'
  PROVE  LinkInd' /\ (\A s \in Sides : Confirmed(s)' = Confirmed(s))
<1>1. /\ \A s \in Sides : SendWindow(s)'
      /\ \A s \in Sides : Confirmed(s)' = Confirmed(s)
  BY WindowsKept DEF Quiet
<1>2. SeqTypes'
  BY DEF Quiet, Numbering, LinkInd, Types, SeqTypes
<1>3. DataTypes'
  BY DEF Quiet, Numbering, LinkInd, Types, DataTypes
<1> QED BY <1>1, <1>2, <1>3 DEF LinkInd, Types

\* A wire that is left alone.
LEMMA WiresOk ==
  ASSUME LinkInd
  PROVE  \A t \in Sides : WireOk(wire[t], t) /\ wire[t] \in Seq(Items)
BY WireIsOk, Numbers

LEMMA TimerFiresKeeps ==
  ASSUME LinkInd, NEW s \in Sides, TimerFires(s)
  PROVE  LinkInd' /\ (\A t \in Sides : Confirmed(t)' = Confirmed(t))
<1>1. wire' = wire /\ UNCHANGED Numbering
  BY DEF TimerFires, txVars, rxVars, Numbering
<1>2. Quiet
  BY <1>1, WiresOk DEF Quiet
<1>3. CountTypes'
  BY DEF TimerFires, txVars, rxVars, LinkInd, Types, CountTypes
<1>4. RestTypes'
  BY DEF TimerFires, txVars, rxVars, LinkInd, Types, RestTypes
<1>5. ASSUME NEW t \in Sides PROVE Armed(t)' /\ Limit(t)'
  <2>1. retryOp[s] \in Nat /\ Armed(t) /\ Limit(t)
    BY DEF LinkInd, Types, CountTypes
  <2>2. /\ timer \in [Sides -> BOOLEAN] /\ retryOp \in [Sides -> Nat]
    BY DEF LinkInd, Types, CountTypes
  <2> QED BY <2>1, <2>2 DEF TimerFires, txVars, rxVars, Armed, Limit
<1> QED BY <1>1, <1>2, <1>3, <1>4, <1>5, QuietKeeps DEF LinkInd, Types, DataTypes

LEMMA ReadKeeps ==
  ASSUME LinkInd, Read
  PROVE  LinkInd' /\ (\A t \in Sides : Confirmed(t)' = Confirmed(t))
<1>1. wire' = wire /\ UNCHANGED Numbering
  BY DEF Read, txVars, Numbering
<1>2. Quiet
  BY <1>1, WiresOk DEF Quiet
<1>3. CountTypes'
  BY DEF Read, txVars, LinkInd, Types, CountTypes
<1>4. RestTypes'
  BY StpLinkAssumption DEF Read, txVars, LinkInd, Types, RestTypes
<1>5. ASSUME NEW t \in Sides PROVE Armed(t)' /\ Limit(t)'
  BY DEF LinkInd, Read, txVars, Armed, Limit
<1> QED BY <1>1, <1>2, <1>3, <1>4, <1>5, QuietKeeps DEF LinkInd, Types, DataTypes

\* Taking the first item, or more, from what arrives.
LEMMA RestOk ==
  ASSUME LinkInd, NEW s \in Sides, Incoming(s) # <<>>, wire' = Rest(s)
  PROVE  /\ \A t \in Sides : WireOk(wire'[t], t)
         /\ wire' \in [Sides -> Seq(Items)]
         /\ wire'[Peer(s)] = Tail(wire[Peer(s)]) /\ wire'[s] = wire[s]
<1>1. Peer(s) \in Sides /\ Peer(s) # s
  BY Peers
<1>2. /\ wire \in [Sides -> Seq(Items)]
      /\ \A t \in Sides : WireOk(wire[t], t) /\ wire[t] \in Seq(Items)
  BY WiresOk DEF LinkInd, Types, DataTypes
<1>3. WireOk(Tail(wire[Peer(s)]), Peer(s)) /\ Tail(wire[Peer(s)]) \in Seq(Items)
  BY <1>1, <1>2, WireTail, HeadTailProperties DEF Incoming
<1>4. wire' = [wire EXCEPT ![Peer(s)] = Tail(wire[Peer(s)])]
  BY DEF Rest
<1> QED BY <1>1, <1>2, <1>3, <1>4

LEMMA LostKeeps ==
  ASSUME LinkInd, NEW s \in Sides, Lost(s)
  PROVE  LinkInd' /\ (\A t \in Sides : Confirmed(t)' = Confirmed(t))
<1>1. wire' = Rest(s) /\ Incoming(s) # <<>> /\ UNCHANGED Numbering
  BY DEF Lost, txVars, rxVars, Numbering
<1>2. Quiet /\ wire' \in [Sides -> Seq(Items)]
  BY <1>1, RestOk DEF Quiet
<1>3. CountTypes'
  BY DEF Lost, txVars, rxVars, LinkInd, Types, CountTypes
<1>4. RestTypes'
  BY DEF Lost, Error, txVars, rxVars, LinkInd, Types, RestTypes
<1>5. ASSUME NEW t \in Sides PROVE Armed(t)' /\ Limit(t)'
  BY DEF LinkInd, Lost, txVars, rxVars, Armed, Limit
<1> QED BY <1>2, <1>3, <1>4, <1>5, QuietKeeps

LEMMA DamagedKeeps ==
  ASSUME LinkInd, NEW s \in Sides, Damaged(s)
  PROVE  LinkInd' /\ (\A t \in Sides : Confirmed(t)' = Confirmed(t))
<1> DEFINE w == wire[Peer(s)]
<1>1. UNCHANGED Numbering
  BY DEF Damaged, txVars, rxVars, Numbering
<1>2. Peer(s) \in Sides /\ wire \in [Sides -> Seq(Items)] /\ Len(w) \in Nat
  BY Peers, LenProperties DEF LinkInd, Types, DataTypes
<1>3. PICK k \in 2..(Len(w) + 1) :
        wire' = [wire EXCEPT ![Peer(s)] = SubSeq(w, k, Len(w))]
  BY DEF Damaged, Incoming
<1>4. k \in 1..Len(w) + 1
  BY <1>2
<1>5. WireOk(SubSeq(w, k, Len(w)), Peer(s)) /\ SubSeq(w, k, Len(w)) \in Seq(Items)
  BY <1>2, <1>4, WiresOk, WireShorter, EndOfWire
<1>6. Quiet /\ wire' \in [Sides -> Seq(Items)]
  BY <1>1, <1>2, <1>3, <1>5, WiresOk DEF Quiet
<1>7. CountTypes'
  BY DEF Damaged, txVars, rxVars, LinkInd, Types, CountTypes
<1>8. RestTypes'
  BY DEF Damaged, Error, txVars, rxVars, LinkInd, Types, RestTypes
<1>9. ASSUME NEW t \in Sides PROVE Armed(t)' /\ Limit(t)'
  BY DEF LinkInd, Damaged, txVars, rxVars, Armed, Limit
<1> QED BY <1>6, <1>7, <1>8, <1>9, QuietKeeps

LEMMA SkipKeeps ==
  ASSUME LinkInd, NEW s \in Sides, Skip(s)
  PROVE  LinkInd' /\ (\A t \in Sides : Confirmed(t)' = Confirmed(t))
<1>1. wire' = Rest(s) /\ Incoming(s) # <<>> /\ UNCHANGED Numbering
  BY DEF Skip, txVars, rxVars, Numbering
<1>2. Quiet /\ wire' \in [Sides -> Seq(Items)]
  BY <1>1, RestOk DEF Quiet
<1>3. CountTypes'
  BY DEF Skip, txVars, rxVars, LinkInd, Types, CountTypes
<1>4. RestTypes'
  <2>1. parser' \in [Sides -> {"SYNC", "RESYNC1"}]
    BY DEF Skip, LinkInd, Types, RestTypes
  <2>2. UNCHANGED <<ring, load, down, errors>>
    BY DEF Skip, txVars, rxVars
  <2> QED BY <2>1, <2>2 DEF LinkInd, Types, RestTypes
<1>5. ASSUME NEW t \in Sides PROVE Armed(t)' /\ Limit(t)'
  BY DEF LinkInd, Skip, txVars, rxVars, Armed, Limit
<1> QED BY <1>2, <1>3, <1>4, <1>5, QuietKeeps

\* A failure is counted below the limit, or the link goes down.
LEMMA CountFailureTypes ==
  ASSUME LinkInd, NEW s \in Sides, CountFailure(s)
  PROVE  failCnt' \in [Sides -> 0..RetryLimit] /\ down' \in BOOLEAN
<1>1. failCnt \in [Sides -> 0..RetryLimit] /\ RetryLimit \in Nat
  BY StpLinkAssumption DEF LinkInd, Types, CountTypes
<1>2. (IF GivesUp(Failed(s)) THEN 0 ELSE Failed(s)) \in 0..RetryLimit
  BY <1>1 DEF GivesUp, Failed
<1>3. failCnt' = [failCnt EXCEPT ![s] = IF GivesUp(Failed(s)) THEN 0 ELSE Failed(s)]
  BY DEF CountFailure
<1>4. down' = (Failed(s) > RetryLimit)
  BY DEF CountFailure, GivesUp
<1>5. down' \in BOOLEAN
  BY <1>4
<1> QED BY <1>1, <1>2, <1>3, <1>5

LEMMA RepeatAckKeeps ==
  ASSUME LinkInd, NEW s \in Sides, RepeatAck(s)
  PROVE  LinkInd' /\ (\A t \in Sides : Confirmed(t)' = Confirmed(t))
<1> DEFINE a == [kind |-> "ack", ack |-> txack[s]]
           v == Tail(wire[Peer(s)])
<1>1. Incoming(s) # <<>> /\ UNCHANGED Numbering /\ CountFailure(s)
  BY DEF RepeatAck, txVars, Numbering
<1>2. Peer(s) \in Sides /\ Peer(s) # s /\ wire \in [Sides -> Seq(Items)]
  BY Peers DEF LinkInd, Types, DataTypes
<1>3. Quiet /\ wire' \in [Sides -> Seq(Items)]
  <2>1. CASE wire' = Rest(s)
    BY <1>1, <2>1, RestOk DEF Quiet
  <2>2. CASE wire' = [Rest(s) EXCEPT ![s] = Append(@, a)]
    <3>1. /\ WireOk(v, Peer(s)) /\ v \in Seq(Items)
      BY <1>1, <1>2, WiresOk, WireTail, HeadTailProperties DEF Incoming
    <3>2. WireOk(Append(wire[s], a), s) /\ Append(wire[s], a) \in Seq(Items)
      <4>1. a \in Items
        BY DEF Items, LinkInd, Types, SeqTypes
      <4>2. wire[s] \in Seq(Items) /\ WireOk(wire[s], s)
        BY WiresOk
      <4> QED BY <4>1, <4>2, WireAck, AppendProperties
    <3>3. Rest(s) = [wire EXCEPT ![Peer(s)] = v]
      BY DEF Rest
    <3> HIDE DEF a, v
    <3>4. wire' = [wire EXCEPT ![Peer(s)] = v, ![s] = Append(wire[s], a)]
      BY <1>2, <2>2, <3>3
    <3>5. wire' \in [Sides -> Seq(Items)] /\ wire'[s] = Append(wire[s], a) /\ wire'[Peer(s)] = v
      BY <1>2, <3>1, <3>2, <3>4
    <3>6. \A t \in Sides : WireOk(wire'[t], t)
      BY <3>1, <3>2, <3>5, Peers
    <3> QED BY <1>1, <3>5, <3>6 DEF Quiet
  <2> QED BY <2>1, <2>2 DEF RepeatAck, Ack
<1>4. failCnt' \in [Sides -> 0..RetryLimit] /\ down' \in BOOLEAN
  BY <1>1, CountFailureTypes
<1>5. CountTypes'
  BY <1>4 DEF RepeatAck, txVars, LinkInd, Types, CountTypes
<1>6. RestTypes'
  BY <1>4 DEF RepeatAck, txVars, LinkInd, Types, RestTypes
<1>7. ASSUME NEW t \in Sides PROVE Armed(t)' /\ Limit(t)'
  BY DEF LinkInd, RepeatAck, txVars, Armed, Limit
<1> QED BY <1>3, <1>5, <1>6, <1>7, QuietKeeps

\* The packets a retry repeats are the ones from the first that is not known
\* to have arrived to the last one sent, with the last ack.
Repeated(s) ==
  <<[kind |-> "resync"]>> \o
    [i \in 1..Len(Resend(s)) |-> Packet(s, Resend(s)[i], txbuf[s])]

LEMMA RepeatedIs ==
  ASSUME LinkInd, NEW s \in Sides, NEW c \in Nat, Knows(s, c)
  PROVE  /\ Repeated(s) \in Seq(Items)
         /\ Len(Repeated(s)) = 1 + (sent[s] - c)
         /\ Repeated(s)[1].kind = "resync"
         /\ \A i \in 2..1 + (sent[s] - c) :
              Repeated(s)[i] = [kind |-> "data", seq |-> Num(c + i - 1), ack |-> txack[s],
                                no |-> c + i - 1]
<1>1. sent[s] \in Nat /\ sent[s] - c \in Nat
  BY Numbers DEF Knows
<1>2. /\ Resend(s) = [i \in 1..(sent[s] - c) |-> Num(c + i)]
      /\ Len(Resend(s)) = sent[s] - c
  BY KnowsConfirmed DEF Resend
<1>3. ASSUME NEW i \in 1..(sent[s] - c)
      PROVE  Packet(s, Resend(s)[i], txbuf[s]) =
               [kind |-> "data", seq |-> Num(c + i), ack |-> txack[s], no |-> c + i]
  <2>1. c + i \in c + 1..sent[s]
    BY <1>1
  <2>2. txbuf[s][Num(c + i)] = c + i
    BY <2>1 DEF Knows
  <2>3. Resend(s)[i] = Num(c + i)
    BY <1>2
  <2> QED BY <2>2, <2>3 DEF Packet
<1> DEFINE y == [i \in 1..(sent[s] - c) |->
                   [kind |-> "data", seq |-> Num(c + i), ack |-> txack[s], no |-> c + i]]
           r == <<[kind |-> "resync"]>>
<1>4. [i \in 1..Len(Resend(s)) |-> Packet(s, Resend(s)[i], txbuf[s])] = y
  BY <1>2, <1>3
<1>5. r \in Seq(Items) /\ Len(r) = 1 /\ r[1] = [kind |-> "resync"]
  BY DEF Items
<1>6. y \in Seq(Items) /\ Len(y) = sent[s] - c
  <2>1. txack[s] \in Seqs
    BY DEF LinkInd, Types, SeqTypes
  <2>2. ASSUME NEW i \in 1..(sent[s] - c)
        PROVE  [kind |-> "data", seq |-> Num(c + i), ack |-> txack[s], no |-> c + i] \in Items
    <3>1. c + i \in Nat /\ c + i \in Int /\ Num(c + i) \in Seqs
      BY NumIs
    <3> QED BY <2>1, <3>1 DEF Items
  <2>3. y \in [1..(sent[s] - c) -> Items]
    BY <2>2
  <2> HIDE DEF y
  <2> QED BY <1>1, <2>3, FunctionIsSeq
<1>7. \A i \in 1..(sent[s] - c) :
        y[i] = [kind |-> "data", seq |-> Num(c + i), ack |-> txack[s], no |-> c + i]
  OBVIOUS
<1>8. Repeated(s) = r \o y
  BY <1>4 DEF Repeated
<1> HIDE DEF y, r
<1>9. /\ r \o y \in Seq(Items) /\ Len(r \o y) = 1 + (sent[s] - c)
      /\ \A i \in 1..1 + (sent[s] - c) : (r \o y)[i] = IF i <= 1 THEN r[i] ELSE y[i - 1]
  <2>1. /\ r \o y \in Seq(Items) /\ Len(r \o y) = Len(r) + Len(y)
        /\ \A i \in 1..Len(r) + Len(y) :
             (r \o y)[i] = IF i <= Len(r) THEN r[i] ELSE y[i - Len(r)]
    BY <1>5, <1>6, ConcatProperties
  <2> QED BY <1>5, <1>6, <2>1
<1>10. (r \o y)[1] = [kind |-> "resync"]
  BY <1>1, <1>5, <1>9
<1>11. ASSUME NEW i \in 2..1 + (sent[s] - c)
       PROVE  (r \o y)[i] = [kind |-> "data", seq |-> Num(c + i - 1), ack |-> txack[s],
                             no |-> c + i - 1]
  <2>1. i - 1 \in 1..(sent[s] - c) /\ i \in 1..1 + (sent[s] - c) /\ ~(i <= 1)
        /\ c + (i - 1) = c + i - 1
    BY <1>1
  <2>2. (r \o y)[i] = y[i - 1]
    BY <1>9, <2>1
  <2> QED BY <1>7, <2>1, <2>2
<1>12. [kind |-> "resync"].kind = "resync"
  OBVIOUS
<1>13. (r \o y)[1].kind = "resync"
  BY <1>10, <1>12
<1>14. \A i \in 2..1 + (sent[s] - c) :
         (r \o y)[i] = [kind |-> "data", seq |-> Num(c + i - 1), ack |-> txack[s],
                        no |-> c + i - 1]
  BY <1>11
<1>15. /\ r \o y \in Seq(Items) /\ Len(r \o y) = 1 + (sent[s] - c)
  BY <1>9
<1> QED BY ONLY <1>8, <1>13, <1>14, <1>15

LEMMA RepeatedOk ==
  ASSUME LinkInd, NEW s \in Sides
  PROVE  WireOk(wire[s] \o Repeated(s), s) /\ wire[s] \o Repeated(s) \in Seq(Items)
<1>1. PICK c \in Nat : Knows(s, c)
  BY SomeKnown
<1> DEFINE x == Repeated(s)
<1>2. /\ x \in Seq(Items) /\ Len(x) = 1 + (sent[s] - c) /\ x[1].kind = "resync"
      /\ \A i \in 2..1 + (sent[s] - c) :
           x[i] = [kind |-> "data", seq |-> Num(c + i - 1), ack |-> txack[s], no |-> c + i - 1]
  BY <1>1, RepeatedIs
<1>3. /\ sent[s] \in Nat /\ Took(s) \in Nat /\ WinSize \in Nat \ {0}
      /\ c <= Took(s) /\ Took(s) <= sent[s] /\ sent[s] - c <= WinSize
  BY <1>1, Numbers DEF Knows
<1>4. txack[s] = Num(Took(Peer(s)))
  BY Peers DEF LinkInd, SendWindow, Hears
<1> HIDE DEF x
<1>5. ASSUME NEW i \in 1..Len(x), x[i].kind # "resync"
      PROVE  /\ i \in 2..1 + (sent[s] - c) /\ x[i].no = c + i - 1
             /\ IsAck(x[i], Took(Peer(s)))
             /\ IsData(x[i], Took(s), sent[s]) /\ x[i].no + WinSize > sent[s]
  <2>1. i \in 2..1 + (sent[s] - c)
    BY <1>2, <1>3, <1>5
  <2>2. /\ x[i].kind = "data" /\ x[i].no = c + i - 1 /\ x[i].seq = Num(c + i - 1)
        /\ x[i].ack = txack[s]
    <3>1. x[i] = [kind |-> "data", seq |-> Num(c + i - 1), ack |-> txack[s],
                  no |-> c + i - 1]
      BY <1>2, <2>1
    <3> QED BY <3>1
  <2>3. /\ c + i - 1 \in 1..sent[s] /\ c + i - 1 + WinSize > Took(s)
        /\ c + i - 1 + WinSize > sent[s]
    BY <1>3, <2>1
  <2> QED BY <1>4, <2>1, <2>2, <2>3 DEF IsAck, IsData
<1>6. ASSUME NEW i \in 1..Len(x), NEW j \in i + 1..Len(x), x[i].kind = "data", x[j].kind = "data"
      PROVE  x[j].no + WinSize > x[i].no
  <2>1. j \in 1..Len(x)
    BY <1>2, <1>3
  <2>2. x[i].no = c + i - 1 /\ x[j].no = c + j - 1
    BY <1>5, <1>6, <2>1
  <2> QED BY <1>2, <1>3, <2>2
<1>7. wire[s] \in Seq(Items) /\ WireOk(wire[s], s)
  BY WiresOk
<1>8. /\ \A i \in 1..Len(x) : x[i].kind # "resync" => IsAck(x[i], Took(Peer(s)))
      /\ \A i \in 1..Len(x) : x[i].kind = "data" =>
           IsData(x[i], Took(s), sent[s]) /\ x[i].no + WinSize > sent[s]
  BY <1>5
<1>9. WireOk(wire[s] \o x, s) /\ wire[s] \o x \in Seq(Items)
  BY <1>2, <1>6, <1>7, <1>8, WireLonger, ConcatProperties
<1> QED BY <1>9 DEF x

LEMMA RetryKeeps ==
  ASSUME LinkInd, NEW s \in Sides, Retry(s)
  PROVE  LinkInd' /\ (\A t \in Sides : Confirmed(t)' = Confirmed(t))
<1>1. UNCHANGED Numbering /\ (wire' = wire \/ wire' = [wire EXCEPT ![s] = @ \o Repeated(s)])
  BY DEF Retry, Transmit, Repeated, txVars, rxVars, Numbering
<1>2. Quiet /\ wire' \in [Sides -> Seq(Items)]
  <2>1. wire \in [Sides -> Seq(Items)] /\ \A t \in Sides : WireOk(wire[t], t)
    BY WiresOk DEF LinkInd, Types, DataTypes
  <2> DEFINE x == wire[s] \o Repeated(s)
  <2>2. WireOk(x, s) /\ x \in Seq(Items)
    BY RepeatedOk
  <2>3. wire' = wire \/ wire' = [wire EXCEPT ![s] = x]
    BY <1>1
  <2> HIDE DEF x
  <2>4. wire' \in [Sides -> Seq(Items)] /\ \A t \in Sides : WireOk(wire'[t], t)
    BY <2>1, <2>2, <2>3
  <2> QED BY <1>1, <2>4 DEF Quiet
<1>3. /\ retry \in [Sides -> 0..(RetryLimit + 1)] /\ timer \in [Sides -> BOOLEAN]
      /\ retryOp \in [Sides -> Nat] /\ down \in BOOLEAN /\ RetryLimit \in Nat
      /\ winspace \in [Sides -> 0..WinSize]
  BY StpLinkAssumption DEF LinkInd, Types, CountTypes, RestTypes
<1>4. ~down /\ retryOp[s] > 0 /\ retry[s] <= RetryLimit
  BY DEF LinkInd, Limit, Retry
<1>5. /\ winspace' = winspace /\ retryOp' = [retryOp EXCEPT ![s] = @ - 1]
      /\ UNCHANGED <<failCnt, rxOk, parser, ring, load, errors>>
  BY DEF Retry, txVars, rxVars
<1>6. \/ /\ winspace[s] = WinSize /\ timer' = [timer EXCEPT ![s] = FALSE]
         /\ retry' = retry /\ down' = down
      \/ /\ retry' = [retry EXCEPT ![s] = retry[s] + 1]
         /\ down' = (retry[s] + 1 > RetryLimit)
         /\ timer' = [timer EXCEPT ![s] = ~down']
  BY DEF Retry, GivesUp
<1>7. /\ retry' \in [Sides -> 0..(RetryLimit + 1)] /\ timer' \in [Sides -> BOOLEAN]
      /\ retryOp' \in [Sides -> Nat]
  <2>1. retryOp' \in [Sides -> Nat]
    BY <1>3, <1>4, <1>5
  <2>2. retry' \in [Sides -> 0..(RetryLimit + 1)]
    BY <1>3, <1>4, <1>6
  <2>3. timer' \in [Sides -> BOOLEAN]
    BY <1>3, <1>6, Zenon
  <2> QED BY <2>1, <2>2, <2>3
<1>8. down' \in BOOLEAN
  <2>1. CASE down' = down
    BY <1>3, <2>1
  <2>2. CASE down' = (retry[s] + 1 > RetryLimit)
    BY <2>2
  <2> QED BY <1>6, <2>1, <2>2
<1>9. CountTypes'
  BY <1>5, <1>7 DEF LinkInd, Types, CountTypes
<1>10. RestTypes'
  BY <1>5, <1>8 DEF LinkInd, Types, RestTypes
<1>11. ASSUME NEW t \in Sides, ~down' PROVE (winspace'[t] < WinSize => timer'[t] \/ retryOp'[t] > 0)
                                            /\ retry'[t] <= RetryLimit
  <2>1. CASE t = s
    <3>1. CASE winspace[s] = WinSize /\ retry' = retry
      BY <1>3, <1>4, <1>5, <2>1, <3>1
    <3>2. CASE /\ retry' = [retry EXCEPT ![s] = retry[s] + 1]
               /\ down' = (retry[s] + 1 > RetryLimit)
               /\ timer' = [timer EXCEPT ![s] = ~down']
      <4>1. retry'[t] <= RetryLimit
        <5>1. ~(retry[s] + 1 > RetryLimit)
          BY <1>11, <3>2
        <5>2. retry'[t] = retry[s] + 1 /\ retry[s] \in Nat
          BY <1>3, <2>1, <3>2
        <5> QED BY <1>3, <5>1, <5>2
      <4>2. timer'[t] = ~down'
        BY <1>3, <2>1, <3>2, Zenon
      <4> QED BY <1>11, <4>1, <4>2
    <3> QED BY <1>6, <3>1, <3>2
  <2>2. CASE t # s
    <3>1. timer'[t] = timer[t] /\ retryOp'[t] = retryOp[t] /\ retry'[t] = retry[t]
      BY <1>3, <1>5, <1>6, <2>2, Zenon
    <3> QED BY <1>4, <1>5, <3>1 DEF LinkInd, Armed, Limit
  <2> QED BY <2>1, <2>2
<1>12. \A t \in Sides : Armed(t)' /\ Limit(t)'
  BY <1>11 DEF Armed, Limit
<1> QED BY <1>2, <1>9, <1>10, <1>12, QuietKeeps

-----------------------------------------------------------------------------
(* Steps that move the numbers.                                            *)

\* A new packet: the next number, into a window that has room.
LEMMA SendKeeps ==
  ASSUME LinkInd, NEW s \in Sides, Send(s)
  PROVE  /\ LinkInd' /\ \A t \in Sides : Confirmed(t)' = Confirmed(t)
         /\ sent[s] - Confirmed(s) < WinSize
<1> DEFINE q == txseq[s]
           n == sent[s] + 1
           buf == [txbuf[s] EXCEPT ![q] = n]
           x == <<Packet(s, q, buf)>>
           p == Peer(s)
<1>1. PICK c \in Nat : Knows(s, c)
  BY SomeKnown
<1>2. p \in Sides /\ p # s /\ Peer(p) = s /\ \A t \in Sides : t = s \/ t = p
  BY Peers
<1>3. PICK d \in Nat : Knows(p, d)
  BY <1>2, SomeKnown
<1>4. /\ sent[s] \in Nat /\ Took(s) \in Nat /\ wire[s] \in Seq(Items)
      /\ WinSize \in Nat \ {0} /\ WinSize < Modulus /\ Modulus \in Nat \ {0}
      /\ Took(p) \in Nat /\ sent[p] \in Nat
  BY <1>2, Numbers
<1>5. /\ c <= Took(s) /\ Took(s) <= sent[s] /\ sent[s] - c <= WinSize
      /\ q = Num(n) /\ winspace[s] = WinSize - (sent[s] - c)
  BY <1>1 DEF Knows
<1>6. sent[s] - c < WinSize
  BY <1>4, <1>5 DEF Send, HasWindow
<1>7. q \in Seqs /\ Num(n) \in Seqs /\ txack[s] \in Seqs /\ txbuf[s] \in [Seqs -> Nat]
  BY <1>5 DEF LinkInd, Types, SeqTypes, DataTypes
<1>8. buf[q] = n /\ buf \in [Seqs -> Nat]
  BY <1>4, <1>7
<1>9. /\ txbuf' = [txbuf EXCEPT ![s] = buf] /\ sent' = [sent EXCEPT ![s] = n]
      /\ wire' = [wire EXCEPT ![s] = wire[s] \o x] /\ txseq' = [txseq EXCEPT ![s] = Inc(q)]
      /\ winspace' = [winspace EXCEPT ![s] = winspace[s] - 1]
      /\ timer' = [timer EXCEPT ![s] = TRUE]
      /\ UNCHANGED <<rxack, retry, retryOp, parser, rxVars, load, down, errors>>
  BY DEF Send, Transmit
<1> DEFINE item == [kind |-> "data", seq |-> q, ack |-> txack[s], no |-> n]
<1>10. /\ x = <<item>> /\ item \in Items /\ item.kind = "data" /\ item.no = n
       /\ item.seq = Num(n) /\ item.ack = txack[s]
  BY <1>4, <1>5, <1>7, <1>8 DEF Packet, Items
<1> HIDE DEF x, item, buf
<1>11. x \in Seq(Items) /\ Len(x) = 1 /\ (\A i \in 1..Len(x) : i = 1 /\ x[i] = item)
  BY <1>10
<1>12. wire[s] \o x \in Seq(Items)
  BY <1>4, <1>11, ConcatProperties
<1>13. /\ wire \in [Sides -> Seq(Items)] /\ sent \in [Sides -> Nat]
       /\ txbuf \in [Sides -> [Seqs -> Nat]] /\ log \in [Sides -> Seq(Nat)]
       /\ winspace \in [Sides -> 0..WinSize] /\ timer \in [Sides -> BOOLEAN]
       /\ txseq \in [Sides -> Seqs]
  BY DEF LinkInd, Types, DataTypes, CountTypes, SeqTypes
<1>14. Inc(q) = Num(n + 1) /\ Inc(q) \in Seqs
  <2>1. n \in Nat /\ q = Num(n)
    BY <1>4, <1>5
  <2> HIDE DEF n, q
  <2> QED BY <2>1, NextNum
<1>15. /\ wire'[s] = wire[s] \o x /\ wire'[p] = wire[p] /\ sent'[s] = n /\ sent'[p] = sent[p]
       /\ txbuf'[s] = buf /\ txbuf'[p] = txbuf[p] /\ winspace'[s] = winspace[s] - 1
       /\ winspace'[p] = winspace[p] /\ txseq'[s] = Inc(q) /\ txseq'[p] = txseq[p]
  <2> HIDE DEF p
  <2> QED BY <1>2, <1>9, <1>13
<1>16. UNCHANGED <<rxack, txack, expected, log>> /\ Took(s)' = Took(s) /\ Took(p)' = Took(p)
  BY <1>9 DEF rxVars, Took
<1>17. Hears(s)'
  <2>1. DataLine(wire[s], Took(s), sent[s])
    BY DEF LinkInd, SendWindow, Hears
  <2>2. /\ IsData(item, Took(s), n) /\ item.no + WinSize > sent[s]
    <3>1. item.seq = Num(n) /\ item.no = n
      BY <1>10
    <3>2. n \in 1..n /\ n + WinSize > sent[s] /\ n + WinSize > Took(s)
      BY <1>4, <1>5
    <3> HIDE DEF n
    <3> QED BY <1>10, <3>1, <3>2 DEF IsData
  <2>3. /\ \A i \in 1..Len(x) : x[i].kind = "data" =>
             IsData(x[i], Took(s), n) /\ x[i].no + WinSize > sent[s]
        /\ \A i \in 1..Len(x) : \A j \in i + 1..Len(x) :
             x[i].kind = "data" /\ x[j].kind = "data" => x[j].no + WinSize > x[i].no
    BY <1>11, <2>2
  <2>4. sent[s] <= n /\ n \in Nat
    BY <1>4
  <2> HIDE DEF n
  <2>5. DataLine(wire[s] \o x, Took(s), n)
    BY <1>4, <1>11, <2>1, <2>3, <2>4, DataAppend
  <2>6. expected[p] = Num(Took(s) + 1) /\ txack[p] = Num(Took(s))
    BY DEF LinkInd, SendWindow, Hears
  <2> QED BY <1>15, <1>16, <2>5, <2>6 DEF Hears
<1>18. Knows(s, c)'
  <2>1. ASSUME NEW k \in c + 1..n PROVE buf[Num(k)] = k
    <3>1. CASE k = n
      BY <1>5, <1>8, <3>1
    <3>2. CASE k \in c + 1..sent[s]
      <4>1. Num(k) # Num(n) /\ Num(k) \in Seqs
        <5>1. k \in Int /\ k <= sent[s] /\ k > c
          BY <1>4, <3>2
        <5>2. n = sent[s] + 1 /\ n \in Int /\ n - c < Modulus /\ n > sent[s]
          BY <1>4, <1>5, <1>6
        <5>3. Modulus \in Nat \ {0} /\ sent[s] \in Int /\ c \in Int
          BY <1>4
        <5> DEFINE t == sent[s]
        <5>4. /\ k \in Int /\ n \in Int /\ t \in Int /\ k <= t /\ n > t
          BY <5>1, <5>2, <5>3
        <5> HIDE DEF n, t
        <5>5. k # n /\ k < n
          BY ONLY <5>4
        <5>6. k - n < Modulus
          BY ONLY <5>3, <5>4, <5>5
        <5>7. n - k < Modulus
          BY ONLY <5>1, <5>2, <5>3
        <5> QED BY <5>1, <5>2, <5>5, <5>6, <5>7, NumUnique, NumIs
      <4>2. txbuf[s][Num(k)] = k
        BY <1>1, <3>2 DEF Knows
      <4> QED BY <1>5, <1>7, <4>1, <4>2 DEF buf
    <3> QED BY <1>4, <3>1, <3>2
  <2>2. AckLine(wire[p], c, Took(s)) /\ rxack[s] = Num(c)
    BY <1>1 DEF Knows
  <2>3. /\ Took(s) <= n /\ n - c <= WinSize
        /\ winspace[s] - 1 = WinSize - (n - c)
    BY <1>4, <1>5, <1>6
  <2> HIDE DEF n, p
  <2> QED BY <1>5, <1>14, <1>15, <1>16, <2>1, <2>2, <2>3 DEF Knows, p
<1>19. Hears(p)'
  <2>1. Hears(p)
    BY <1>2 DEF LinkInd, SendWindow
  <2> QED BY <1>2, <1>15, <1>16, <2>1 DEF Hears
<1>20. Knows(p, d)'
  <2>1. AckLine(wire[s], d, Took(p)) /\ d <= Took(p) /\ Took(p) <= sent[p] /\ sent[p] - d <= WinSize
    BY <1>2, <1>3 DEF Knows
  <2>2. IsAck(item, Took(p))
    <3>1. txack[s] = Num(Took(p))
      BY <1>2 DEF LinkInd, SendWindow, Hears
    <3> QED BY <1>10, <3>1 DEF IsAck
  <2>3. Took(p) - d < Modulus
    BY <1>4, <2>1
  <2>4. AckLine(wire[s] \o x, d, Took(p))
    BY <1>4, <1>11, <2>1, <2>2, <2>3, AckAppend
  <2> QED BY <1>2, <1>3, <1>15, <1>16, <2>4 DEF Knows
<1>21. ASSUME NEW t \in Sides
       PROVE  SendWindow(t)' /\ Armed(t)' /\ Limit(t)'
  <2>1. SendWindow(t)'
    BY <1>2, <1>17, <1>18, <1>19, <1>20 DEF SendWindow
  <2>2. Armed(t)'
    <3>1. CASE t = s
      BY <1>9, <1>13, <3>1 DEF Armed
    <3>2. CASE t = p
      <4>1. timer'[p] = timer[p]
        BY <1>2, <1>9, <1>13
      <4> QED BY <1>2, <1>9, <1>15, <3>2, <4>1 DEF Armed, LinkInd
    <3> QED BY <1>2, <3>1, <3>2
  <2>3. Limit(t)'
    BY <1>9 DEF Limit, LinkInd
  <2> QED BY <2>1, <2>2, <2>3
<1>22. SeqTypes'
  BY <1>9, <1>14, <1>16 DEF LinkInd, Types, SeqTypes
<1>23. CountTypes'
  <2>1. winspace[s] - 1 \in 0..WinSize
    BY <1>4, <1>5, <1>6
  <2>2. winspace' \in [Sides -> 0..WinSize] /\ timer' \in [Sides -> BOOLEAN]
    BY <1>9, <1>13, <2>1
  <2>3. UNCHANGED <<retry, retryOp, failCnt, rxOk>>
    BY <1>9 DEF rxVars
  <2> QED BY <2>2, <2>3 DEF LinkInd, Types, CountTypes
<1>24. DataTypes'
  <2>1. n \in Nat
    BY <1>4
  <2> HIDE DEF n
  <2>2. wire' \in [Sides -> Seq(Items)] /\ txbuf' \in [Sides -> [Seqs -> Nat]] /\ sent' \in [Sides -> Nat]
    BY <1>8, <1>9, <1>12, <1>13, <2>1
  <2> QED BY <1>13, <1>16, <2>2 DEF DataTypes
<1>25. RestTypes'
  BY <1>9 DEF rxVars, LinkInd, Types, RestTypes
<1>26. LinkInd'
  BY <1>21, <1>22, <1>23, <1>24, <1>25 DEF LinkInd, Types
<1>27. Confirmed(s) = c /\ Confirmed(s)' = c
  <2>1. Confirmed(s) = c
    BY <1>1, KnowsConfirmed
  <2>2. n \in Nat /\ c <= n /\ n - c <= WinSize
    BY <1>4, <1>5, <1>6
  <2>3. rxack'[s] = Num(c) /\ txseq'[s] = Num(n + 1) /\ sent'[s] = n
    BY <1>1, <1>14, <1>15, <1>16 DEF Knows
  <2> HIDE DEF n
  <2>4. n - Len(Between(Num(c), Num(n + 1))) = c
    BY <2>2, Known
  <2> QED BY <2>1, <2>3, <2>4 DEF Confirmed, Outstanding
<1>28. Confirmed(p)' = Confirmed(p)
  BY <1>15, <1>16 DEF Confirmed, Outstanding
<1> QED BY <1>2, <1>6, <1>26, <1>27, <1>28

\* What arrives first acknowledges a packet from the last one known to have
\* arrived to the last one the peer took.
LEMMA HeadIsAck ==
  ASSUME LinkInd, NEW s \in Sides, NEW c \in Nat, Knows(s, c),
         Incoming(s) # <<>>, Head(Incoming(s)).kind # "resync"
  PROVE  \E n \in c..Took(s) : IsAck(Head(Incoming(s)), n)
<1>1. wire[Peer(s)] \in Seq(Items) /\ AckLine(wire[Peer(s)], c, Took(s))
  BY Peers, Numbers DEF Knows
<1>2. Len(wire[Peer(s)]) \in Nat \ {0} /\ Head(wire[Peer(s)]) = wire[Peer(s)][1]
  BY <1>1, TailOfWire DEF Incoming
<1> QED BY <1>1, <1>2 DEF AckLine, Incoming

\* stp_process_rxack() frees the window up to the packet acknowledged, or
\* does nothing if this is the one already known.
LEMMA RxackProcessed ==
  ASSUME LinkInd, ~down, NEW s \in Sides, NEW c \in Nat, Knows(s, c),
         NEW n \in c..Took(s), NEW a, a = Num(n), ProcessRxack(s, a)
  PROVE  /\ rxack' \in [Sides -> Seqs] /\ winspace' \in [Sides -> 0..WinSize]
         /\ retry' \in [Sides -> 0..(RetryLimit + 1)] /\ timer' \in [Sides -> BOOLEAN]
         /\ rxack'[s] = Num(n) /\ winspace'[s] = WinSize - (sent[s] - n)
         /\ \A t \in Sides \ {s} : rxack'[t] = rxack[t] /\ winspace'[t] = winspace[t]
         /\ \A t \in Sides : /\ winspace'[t] < WinSize => timer'[t] \/ retryOp[t] > 0
                             /\ retry'[t] <= RetryLimit
<1>1. /\ rxack \in [Sides -> Seqs] /\ winspace \in [Sides -> 0..WinSize]
      /\ retry \in [Sides -> 0..(RetryLimit + 1)] /\ timer \in [Sides -> BOOLEAN]
  BY DEF LinkInd, Types, SeqTypes, CountTypes
<1>2. \A t \in Sides : /\ winspace[t] < WinSize => timer[t] \/ retryOp[t] > 0
                       /\ retry[t] <= RetryLimit
  BY DEF LinkInd, Armed, Limit
<1>3. /\ sent[s] \in Nat /\ Took(s) \in Nat /\ WinSize \in Nat \ {0} /\ WinSize < Modulus
      /\ Modulus \in Nat \ {0} /\ RetryLimit \in Nat
  BY Numbers
<1>4. /\ Took(s) <= sent[s] /\ sent[s] - c <= WinSize /\ rxack[s] = Num(c)
      /\ winspace[s] = WinSize - (sent[s] - c)
  BY DEF Knows
<1>5. /\ Outstanding(s) = [i \in 1..(sent[s] - c) |-> Num(c + i)]
      /\ Len(Outstanding(s)) = sent[s] - c
  BY KnowsConfirmed
<1>6. Accepts(s, a) <=> \E i \in 1..(sent[s] - c) : Num(c + i) = Num(n)
  BY <1>5 DEF Accepts, ToSet
<1>7. n \in Int /\ c \in Int /\ c <= n /\ n <= Took(s) /\ n - c < Modulus
  BY <1>3, <1>4
<1>8. CASE ~Accepts(s, a)
  <2>1. n = c
    <3>1. ASSUME n # c PROVE FALSE
      <4>1. n - c \in 1..(sent[s] - c) /\ c + (n - c) = n
        BY <1>3, <1>4, <1>7, <3>1
      <4>2. Num(c + (n - c)) = Num(n)
        BY <4>1
      <4> QED BY <1>6, <1>8, <4>1, <4>2
    <3> QED BY <3>1
  <2>2. UNCHANGED <<rxack, winspace, retry, timer>>
    BY <1>8 DEF ProcessRxack, ackVars
  <2> QED BY <1>1, <1>2, <1>4, <2>1, <2>2
<1>9. CASE Accepts(s, a)
  <2>1. Freed(s, a) = n - c
    BY <1>4, <1>7, NumApart DEF Freed
  <2> DEFINE space == WinSize - (sent[s] - n)
  <2>2. space \in 0..WinSize /\ winspace[s] + (n - c) = space
    BY <1>3, <1>4, <1>7
  <2>3. /\ rxack' = [rxack EXCEPT ![s] = Num(n)] /\ retry' = [retry EXCEPT ![s] = 0]
        /\ winspace' = [winspace EXCEPT ![s] = space]
        /\ timer' = [timer EXCEPT ![s] = winspace'[s] # WinSize]
    BY <1>9, <2>1, <2>2 DEF ProcessRxack, TimerAfterAck
  <2> HIDE DEF space
  <2>4. Num(n) \in Seqs
    BY <1>7, NumIs
  <2>5. /\ rxack' \in [Sides -> Seqs] /\ winspace' \in [Sides -> 0..WinSize]
        /\ retry' \in [Sides -> 0..(RetryLimit + 1)]
        /\ rxack'[s] = Num(n) /\ winspace'[s] = space /\ retry'[s] = 0
        /\ \A t \in Sides \ {s} : /\ rxack'[t] = rxack[t] /\ winspace'[t] = winspace[t]
                                  /\ retry'[t] = retry[t]
    BY <1>1, <1>3, <2>2, <2>3, <2>4
  <2>6. /\ timer' \in [Sides -> BOOLEAN] /\ timer'[s] = (winspace'[s] # WinSize)
        /\ \A t \in Sides \ {s} : timer'[t] = timer[t]
    <3> DEFINE b == winspace'[s] # WinSize
    <3>1. b \in BOOLEAN
      OBVIOUS
    <3>2. timer' = [timer EXCEPT ![s] = b]
      BY <2>3
    <3> HIDE DEF b
    <3>3. /\ timer' \in [Sides -> BOOLEAN] /\ timer'[s] = b
          /\ \A t \in Sides \ {s} : timer'[t] = timer[t]
      BY <1>1, <3>1, <3>2, Zenon
    <3> QED BY <3>3 DEF b
  <2>7. ASSUME NEW t \in Sides
        PROVE  /\ winspace'[t] < WinSize => timer'[t] \/ retryOp[t] > 0
               /\ retry'[t] <= RetryLimit
    <3>1. CASE t = s
      <4>1. winspace'[s] < WinSize => timer'[s]
        <5>1. winspace'[s] < WinSize => winspace'[s] # WinSize
          BY <1>3, <2>2, <2>5
        <5> QED BY <2>6, <5>1
      <4> QED BY <1>3, <2>5, <3>1, <4>1
    <3>2. CASE t # s
      BY <1>2, <2>5, <2>6, <3>2
    <3> QED BY <3>1, <3>2
  <2> QED BY <2>5, <2>6, <2>7 DEF space
<1> QED BY <1>8, <1>9

\* The window of the side that hears an acknowledgement moves up to it.
LEMMA KnowsMore ==
  ASSUME LinkInd, NEW s \in Sides, NEW c \in Nat, Knows(s, c), NEW n \in c..Took(s),
         Incoming(s) # <<>>, IsAck(Head(Incoming(s)), n), wire'[Peer(s)] = Tail(Incoming(s)),
         rxack'[s] = Num(n), winspace'[s] = WinSize - (sent[s] - n),
         UNCHANGED <<txseq, txbuf, sent>>, log'[s] = log[s]
  PROVE  Knows(s, n)' /\ Confirmed(s)' = n
<1>1. /\ sent[s] \in Nat /\ Took(s) \in Nat /\ WinSize \in Nat
  BY Numbers
<1>2. /\ Took(s) <= sent[s] /\ sent[s] - c <= WinSize /\ txseq[s] = Num(sent[s] + 1)
      /\ \A k \in c + 1..sent[s] : txbuf[s][Num(k)] = k
      /\ AckLine(wire[Peer(s)], c, Took(s))
  BY DEF Knows
<1>3. n \in Nat /\ n <= Took(s) /\ n <= sent[s] /\ sent[s] - n <= WinSize
  BY <1>1, <1>2
<1>4. AckLine(Tail(wire[Peer(s)]), n, Took(s))
  <2>1. wire[Peer(s)] \in Seq(Items)
    BY Peers, Numbers
  <2> QED BY <1>1, <1>2, <2>1, AckAdvance DEF Incoming
<1>5. \A k \in n + 1..sent[s] : txbuf[s][Num(k)] = k
  BY <1>1, <1>2, <1>3
<1>6. Took(s)' = Took(s)
  BY DEF Took
<1>7. Knows(s, n)'
  BY <1>2, <1>3, <1>4, <1>5, <1>6 DEF Knows, Incoming
<1>8. sent[s] - Len(Between(Num(n), Num(sent[s] + 1))) = n
  BY <1>1, <1>3, Known
<1>9. Confirmed(s)' = n
  BY <1>2, <1>8 DEF Confirmed, Outstanding
<1> QED BY <1>7, <1>9

\* An ack alone.
LEMMA ReceiveAckKeeps ==
  ASSUME LinkInd, NEW s \in Sides, ReceiveAck(s)
  PROVE  /\ LinkInd' /\ Confirmed(Peer(s))' = Confirmed(Peer(s))
         /\ Confirmed(s)' \in Confirmed(s)..Took(s)
<1> DEFINE p == Peer(s)
           item == Head(Incoming(s))
<1>1. /\ ~down /\ Incoming(s) # <<>> /\ item.kind = "ack" /\ ProcessRxack(s, item.ack)
      /\ wire' = Rest(s)
      /\ UNCHANGED <<txseq, txbuf, sent, load, retryOp, parser, rxVars, down, errors>>
  BY DEF ReceiveAck
<1>2. p \in Sides /\ p # s /\ Peer(p) = s /\ \A t \in Sides : t = s \/ t = p
  BY Peers
<1>3. PICK c \in Nat : Knows(s, c)
  BY SomeKnown
<1>4. PICK d \in Nat : Knows(p, d)
  BY <1>2, SomeKnown
<1>5. PICK n \in c..Took(s) : IsAck(item, n)
  BY <1>1, <1>3, HeadIsAck
<1>6. item.ack = Num(n)
  BY <1>5 DEF IsAck
<1> HIDE DEF item
<1>7. /\ rxack' \in [Sides -> Seqs] /\ winspace' \in [Sides -> 0..WinSize]
      /\ retry' \in [Sides -> 0..(RetryLimit + 1)] /\ timer' \in [Sides -> BOOLEAN]
      /\ rxack'[s] = Num(n) /\ winspace'[s] = WinSize - (sent[s] - n)
      /\ \A t \in Sides \ {s} : rxack'[t] = rxack[t] /\ winspace'[t] = winspace[t]
      /\ \A t \in Sides : /\ winspace'[t] < WinSize => timer'[t] \/ retryOp[t] > 0
                          /\ retry'[t] <= RetryLimit
  BY <1>1, <1>3, <1>6, RxackProcessed
<1>8. /\ \A t \in Sides : WireOk(wire'[t], t)
      /\ wire' \in [Sides -> Seq(Items)] /\ wire'[p] = Tail(Incoming(s)) /\ wire'[s] = wire[s]
  BY <1>1, RestOk DEF Incoming
<1>9. UNCHANGED <<log, txack, expected, failCnt, rxOk, ring>>
  BY <1>1 DEF rxVars
<1>10. Knows(s, n)' /\ Confirmed(s)' = n
  BY <1>1, <1>3, <1>5, <1>7, <1>8, <1>9, KnowsMore DEF item
<1>11. Knows(p, d)' /\ Confirmed(p)' = Confirmed(p)
  <2>1. rxack'[p] = rxack[p] /\ winspace'[p] = winspace[p]
    BY <1>2, <1>7
  <2>2. Took(p)' = Took(p)
    BY <1>9 DEF Took
  <2>3. Knows(p, d)'
    BY <1>1, <1>2, <1>4, <1>8, <2>1, <2>2 DEF Knows
  <2> QED BY <1>1, <2>1, <2>3 DEF Confirmed, Outstanding
<1>12. ASSUME NEW t \in Sides PROVE Hears(t)'
  <2>1. Hears(t)
    BY DEF LinkInd, SendWindow
  <2>2. DataLine(wire'[t], Took(t), sent[t])
    <3>1. \E e \in Nat : Knows(Peer(t), e)
      BY Peers, SomeKnown
    <3> QED BY <1>8, <3>1 DEF WireOk, Carries
  <2>3. Took(t)' = Took(t)
    BY <1>9 DEF Took
  <2> QED BY <1>1, <1>9, <2>1, <2>2, <2>3 DEF Hears
<1>13. \A t \in Sides : SendWindow(t)' /\ Armed(t)' /\ Limit(t)'
  <2>1. SendWindow(s)' /\ SendWindow(p)'
    <3>1. n \in Nat /\ Hears(s)' /\ Hears(p)'
      BY <1>2, <1>12
    <3> QED BY <1>10, <1>11, <3>1 DEF SendWindow
  <2>2. ASSUME NEW t \in Sides PROVE Armed(t)' /\ Limit(t)'
    BY <1>1, <1>7 DEF Armed, Limit
  <2> QED BY <1>2, <2>1, <2>2
<1>14. Types'
  <2>1. SeqTypes'
    BY <1>1, <1>7, <1>9 DEF LinkInd, Types, SeqTypes
  <2>2. CountTypes'
    BY <1>1, <1>7, <1>9 DEF LinkInd, Types, CountTypes
  <2>3. DataTypes'
    BY <1>1, <1>8, <1>9 DEF LinkInd, Types, DataTypes
  <2>4. RestTypes'
    BY <1>1, <1>9 DEF LinkInd, Types, RestTypes
  <2> QED BY <2>1, <2>2, <2>3, <2>4 DEF Types
<1>15. LinkInd'
  BY <1>13, <1>14 DEF LinkInd
<1>16. Confirmed(s) = c
  BY <1>3, KnowsConfirmed
<1> QED BY <1>10, <1>11, <1>15, <1>16

\* Wherever the packet goes, what stp_process_packet() counts keeps its type.
LEMMA EnqueueTypes ==
  ASSUME LinkInd, NEW s \in Sides, Enqueue(s)
  PROVE  /\ ring' \in 0..RingSize /\ rxOk' \in [Sides -> BOOLEAN]
         /\ failCnt' \in [Sides -> 0..RetryLimit] /\ down' \in BOOLEAN
<1>1. /\ ring \in 0..RingSize /\ rxOk \in [Sides -> BOOLEAN]
      /\ failCnt \in [Sides -> 0..RetryLimit] /\ down \in BOOLEAN
      /\ RingSize \in Nat /\ RetryLimit \in Nat
  BY StpLinkAssumption DEF LinkInd, Types, CountTypes, RestTypes
<1>2. CASE /\ s = "host" => ring < RingSize
           /\ ring' \in IF s = "host" THEN {ring, ring + 1} ELSE {ring}
           /\ rxOk' = [rxOk EXCEPT ![s] = TRUE] /\ failCnt' = [failCnt EXCEPT ![s] = 0]
           /\ UNCHANGED down
  BY <1>1, <1>2
<1>3. CASE /\ ring' \in {0, ring} /\ rxOk' = [rxOk EXCEPT ![s] = FALSE]
           /\ CountFailure(s)
  <2>1. failCnt' \in [Sides -> 0..RetryLimit] /\ down' \in BOOLEAN
    BY <1>3, CountFailureTypes
  <2>2. ring' \in 0..RingSize
    BY <1>1, <1>3
  <2>3. rxOk' \in [Sides -> BOOLEAN]
    BY <1>1, <1>3
  <2> QED BY <2>1, <2>2, <2>3
<1> QED BY <1>2, <1>3 DEF Enqueue

\* The packet that is in sequence is the next one, and its ack is read first.
LEMMA TakePacketKeeps ==
  ASSUME LinkInd, NEW s \in Sides, TakePacket(s)
  PROVE  /\ LinkInd' /\ Confirmed(Peer(s))' = Confirmed(Peer(s))
         /\ Confirmed(s)' \in Confirmed(s)..Took(s)
         /\ Took(Peer(s)) < sent[Peer(s)]
         /\ log' = [log EXCEPT ![Peer(s)] = Append(@, Len(@) + 1)]
<1> DEFINE p == Peer(s)
           item == Head(Incoming(s))
           w == wire[p]
           b == [kind |-> "ack", ack |-> item.seq]
<1>1. /\ ~down /\ Incoming(s) # <<>> /\ item.kind = "data" /\ item.seq = expected[s]
      /\ ProcessRxack(s, item.ack) /\ Enqueue(s)
      /\ txack' = [txack EXCEPT ![s] = item.seq]
      /\ expected' = [expected EXCEPT ![s] = Inc(expected[s])]
      /\ log' = [log EXCEPT ![p] = Append(log[p], item.no)]
      /\ UNCHANGED <<txseq, txbuf, sent, load, retryOp, parser, errors>>
  BY DEF TakePacket, InSequence, AckOf
<1>2. p \in Sides /\ p # s /\ Peer(p) = s /\ \A t \in Sides : t = s \/ t = p
  BY Peers
<1>3. PICK c \in Nat : Knows(s, c)
  BY SomeKnown
<1>4. PICK d \in Nat : Knows(p, d)
  BY <1>2, SomeKnown
<1>5. PICK n \in c..Took(s) : IsAck(item, n)
  BY <1>1, <1>3, HeadIsAck
<1>6. item.ack = Num(n)
  BY <1>5 DEF IsAck
<1>7. /\ sent[s] \in Nat /\ Took(s) \in Nat /\ wire[s] \in Seq(Items)
      /\ WinSize \in Nat \ {0} /\ WinSize < Modulus /\ Modulus \in Nat \ {0}
      /\ Took(p) \in Nat /\ sent[p] \in Nat /\ w \in Seq(Items) /\ log[p] \in Seq(Nat)
  BY <1>2, Numbers
<1>8. Hears(p) /\ Hears(s)
  BY <1>2 DEF LinkInd, SendWindow
<1>9. item.seq = Num(Took(p) + 1) /\ DataLine(w, Took(p), sent[p])
  BY <1>1, <1>2, <1>8 DEF Hears
<1>10. d <= Took(p) /\ Took(p) <= sent[p] /\ sent[p] - d <= WinSize
       /\ AckLine(wire[s], d, Took(p))
  BY <1>2, <1>4 DEF Knows
<1>11. /\ item.no = Took(p) + 1 /\ Took(p) + 1 <= sent[p]
       /\ DataLine(Tail(w), Took(p) + 1, sent[p])
  <2>1. sent[p] <= Took(p) + WinSize
    BY <1>7, <1>10
  <2> QED BY <1>1, <1>7, <1>9, <2>1, DataTake DEF Incoming
<1>12. Tail(w) \in Seq(Items) /\ b \in Items
  <2>1. item.seq \in Seqs
    <3>1. Took(p) + 1 \in Int
      BY <1>7
    <3>2. Num(Took(p) + 1) \in Seqs
      BY <3>1, NumIs
    <3> QED BY <1>9, <3>2
  <2> QED BY <1>1, <1>7, <2>1, HeadTailProperties DEF Incoming, Items
<1>13. Append(wire[s], b) \in Seq(Items) /\ Append(wire[s], b) = wire[s] \o <<b>>
  BY <1>7, <1>12, AppendProperties, AppendIsConcat
<1>14. /\ wire' \in [Sides -> Seq(Items)] /\ wire'[s] = Append(wire[s], b)
       /\ wire'[p] = Tail(w)
  <2>1. wire' = [Rest(s) EXCEPT ![s] = Append(@, b)]
    BY DEF TakePacket, Ack, AckOf
  <2>2. Rest(s) = [wire EXCEPT ![p] = Tail(w)]
    BY DEF Rest
  <2> HIDE DEF p, w, b
  <2>3. wire' = [wire EXCEPT ![p] = Tail(w), ![s] = Append(wire[s], b)]
    BY <1>2, <2>1, <2>2
  <2>4. wire \in [Sides -> Seq(Items)]
    BY DEF LinkInd, Types, DataTypes
  <2> QED BY <1>2, <1>12, <1>13, <2>3, <2>4
<1>15. /\ rxack' \in [Sides -> Seqs] /\ winspace' \in [Sides -> 0..WinSize]
       /\ retry' \in [Sides -> 0..(RetryLimit + 1)] /\ timer' \in [Sides -> BOOLEAN]
       /\ rxack'[s] = Num(n) /\ winspace'[s] = WinSize - (sent[s] - n)
       /\ \A t \in Sides \ {s} : rxack'[t] = rxack[t] /\ winspace'[t] = winspace[t]
       /\ \A t \in Sides : /\ winspace'[t] < WinSize => timer'[t] \/ retryOp[t] > 0
                           /\ retry'[t] <= RetryLimit
  <2> HIDE DEF item
  <2> QED BY <1>1, <1>3, <1>6, RxackProcessed
<1>16. /\ ring' \in 0..RingSize /\ rxOk' \in [Sides -> BOOLEAN]
       /\ failCnt' \in [Sides -> 0..RetryLimit] /\ down' \in BOOLEAN
  BY <1>1, EnqueueTypes
<1>17. /\ log' \in [Sides -> Seq(Nat)] /\ log'[s] = log[s]
       /\ log'[p] = Append(log[p], Took(p) + 1)
       /\ Took(s)' = Took(s) /\ Took(p)' = Took(p) + 1
  <2>1. log \in [Sides -> Seq(Nat)]
    BY DEF LinkInd, Types, DataTypes
  <2> DEFINE l == Append(log[p], Took(p) + 1)
  <2>2. l \in Seq(Nat) /\ Len(l) = Took(p) + 1
    BY <1>7, AppendProperties DEF Took
  <2>3. log' = [log EXCEPT ![p] = l]
    BY <1>1, <1>11
  <2> HIDE DEF l
  <2>4. log' \in [Sides -> Seq(Nat)] /\ log'[s] = log[s] /\ log'[p] = l
    BY <1>2, <2>1, <2>2, <2>3
  <2> QED BY <2>2, <2>4 DEF Took, l
<1>18. /\ txack' \in [Sides -> Seqs] /\ txack'[s] = Num(Took(p) + 1) /\ txack'[p] = txack[p]
       /\ expected' \in [Sides -> Seqs] /\ expected'[s] = Num(Took(p) + 2)
       /\ expected'[p] = expected[p]
  <2>1. txack \in [Sides -> Seqs] /\ expected \in [Sides -> Seqs]
    BY DEF LinkInd, Types, SeqTypes
  <2>2. Took(p) + 1 \in Nat /\ Took(p) + 1 + 1 = Took(p) + 2
    BY <1>7
  <2>3. /\ Inc(Num(Took(p) + 1)) = Num(Took(p) + 2) /\ Inc(Num(Took(p) + 1)) \in Seqs
        /\ Num(Took(p) + 1) \in Seqs
    BY <2>2, NextNum, NumIs
  <2>4. txack' = [txack EXCEPT ![s] = Num(Took(p) + 1)]
        /\ expected' = [expected EXCEPT ![s] = Inc(Num(Took(p) + 1))]
    BY <1>1, <1>9
  <2> HIDE DEF p
  <2> QED BY <1>2, <2>1, <2>3, <2>4
<1>19. Knows(s, n)' /\ Confirmed(s)' = n
  <2>1. wire'[Peer(s)] = Tail(Incoming(s)) /\ IsAck(Head(Incoming(s)), n)
    BY <1>5, <1>14 DEF Incoming
  <2> QED BY <1>1, <1>3, <1>15, <1>17, <2>1, KnowsMore
<1>20. Knows(p, d)' /\ Confirmed(p)' = Confirmed(p)
  <2>1. rxack'[p] = rxack[p] /\ winspace'[p] = winspace[p]
    BY <1>2, <1>15
  <2>2. AckLine(wire'[s], d, Took(p) + 1)
    <3>1. Took(p) + 1 - d < Modulus /\ d <= Took(p) + 1 /\ Took(p) + 1 \in Nat
      BY <1>7, <1>10, <1>11
    <3>2. AckLine(wire[s], d, Took(p) + 1)
      BY <1>7, <1>10, <3>1, AckMore
    <3>3. IsAck(b, Took(p) + 1)
      BY <1>9 DEF IsAck
    <3> HIDE DEF b, p
    <3>4. <<b>> \in Seq(Items) /\ \A i \in 1..Len(<<b>>) : <<b>>[i] = b
      BY <1>12
    <3> DEFINE hi == Took(p) + 1
    <3>5. /\ hi \in Nat /\ d <= hi /\ hi - d < Modulus /\ AckLine(wire[s], d, hi)
          /\ \A i \in 1..Len(<<b>>) : <<b>>[i].kind # "resync" => IsAck(<<b>>[i], hi)
      <4>1. ASSUME NEW i \in 1..Len(<<b>>) PROVE IsAck(<<b>>[i], hi)
        BY <3>3, <3>4
      <4>2. hi \in Nat /\ d <= hi /\ hi - d < Modulus
        BY <1>7, <3>1
      <4>3. AckLine(wire[s], d, hi)
        BY <3>2
      <4> QED BY <4>1, <4>2, <4>3
    <3> HIDE DEF hi
    <3>6. AckLine(wire[s] \o <<b>>, d, hi)
      BY <1>7, <3>4, <3>5, AckAppend
    <3> QED BY <1>13, <1>14, <3>6 DEF hi
  <2>3. Knows(p, d)'
    BY <1>1, <1>2, <1>4, <1>7, <1>10, <1>11, <1>17, <2>1, <2>2 DEF Knows
  <2> QED BY <1>1, <2>1, <2>3 DEF Confirmed, Outstanding
<1>21. Hears(p)'
  <2>1. Took(p) + 1 + 1 = Took(p) + 2
    BY <1>7
  <2> QED BY <1>1, <1>2, <1>11, <1>14, <1>17, <1>18, <2>1 DEF Hears
<1>22. Hears(s)'
  <2>1. DataLine(wire[s], Took(s), sent[s])
    BY <1>8 DEF Hears
  <2>2. b.kind = "ack"
    OBVIOUS
  <2> HIDE DEF b, p
  <2>3. /\ <<b>> \in Seq(Items) /\ \A i \in 1..Len(<<b>>) : <<b>>[i] = b
    BY <1>12
  <2>4. sent[s] <= sent[s]
    BY <1>7
  <2>5. \A i \in 1..Len(<<b>>) : <<b>>[i].kind # "data"
    BY <2>2, <2>3
  <2>6. DataLine(wire[s] \o <<b>>, Took(s), sent[s])
    BY <1>7, <2>1, <2>3, <2>4, <2>5, DataAppend
  <2>7. expected[p] = Num(Took(s) + 1) /\ txack[p] = Num(Took(s))
    BY <1>8 DEF Hears, p
  <2> QED BY <1>1, <1>13, <1>14, <1>17, <1>18, <2>6, <2>7 DEF Hears, p
<1>23. \A t \in Sides : SendWindow(t)' /\ Armed(t)' /\ Limit(t)'
  <2>1. SendWindow(s)' /\ SendWindow(p)'
    <3>1. n \in Nat
      BY <1>7
    <3> QED BY <1>19, <1>20, <1>21, <1>22, <3>1 DEF SendWindow
  <2>2. ASSUME NEW t \in Sides PROVE Armed(t)' /\ Limit(t)'
    BY <1>1, <1>15 DEF Armed, Limit
  <2> QED BY <1>2, <2>1, <2>2
<1>24. Types'
  <2>1. SeqTypes'
    BY <1>1, <1>15, <1>18 DEF LinkInd, Types, SeqTypes
  <2>2. CountTypes'
    BY <1>1, <1>15, <1>16 DEF LinkInd, Types, CountTypes
  <2>3. DataTypes'
    BY <1>1, <1>14, <1>17 DEF LinkInd, Types, DataTypes
  <2>4. RestTypes'
    BY <1>1, <1>16 DEF LinkInd, Types, RestTypes
  <2> QED BY <2>1, <2>2, <2>3, <2>4 DEF Types
<1>25. LinkInd'
  BY <1>23, <1>24 DEF LinkInd
<1>26. Confirmed(s) = c
  BY <1>3, KnowsConfirmed
<1>27. Took(p) < sent[p]
  BY <1>7, <1>11
<1>28. log' = [log EXCEPT ![p] = Append(@, Len(@) + 1)]
  <2>1. log' = [log EXCEPT ![p] = Append(log[p], Len(log[p]) + 1)]
    BY <1>1, <1>11 DEF Took
  <2> QED BY <2>1
<1> QED BY <1>19, <1>20, <1>25, <1>26, <1>27, <1>28

-----------------------------------------------------------------------------
(* The theorems.                                                           *)

\* Every step keeps the invariant; who can hear moves what is confirmed, and
\* everything else is a send, a failure, or nothing the users of the link see.
LEMMA LinkStep ==
  ASSUME LinkInd, [Next]_vars
  PROVE  LinkInd' /\ [Channel!ChNext]_(Channel!chVars)
<1> DEFINE conf == [s \in Sides |-> Confirmed(s)]
<1>1. ASSUME UNCHANGED <<sent, log, down>>, \A t \in Sides : Confirmed(t)' = Confirmed(t)
      PROVE  UNCHANGED Channel!chVars
  BY <1>1 DEF Channel!chVars
<1>2. ASSUME ~down, down' \in BOOLEAN, UNCHANGED <<sent, log>>,
             \A t \in Sides : Confirmed(t)' = Confirmed(t)
      PROVE  [Channel!ChNext]_(Channel!chVars)
  <2>1. conf' = conf
    BY <1>2
  <2>2. CASE down'
    BY <1>2, <2>1, <2>2 DEF Channel!ChNext, Channel!ChFail
  <2>3. CASE ~down'
    <3>1. down' = down
      <4>1. down \in BOOLEAN
        BY DEF LinkInd, Types, RestTypes
      <4>2. down = FALSE /\ down' = FALSE
        BY <1>2, <2>3, <4>1
      <4> QED BY <4>2
    <3> QED BY <1>1, <1>2, <3>1
  <2> QED BY <2>2, <2>3
<1>3. ASSUME NEW s \in Sides, Send(s)
      PROVE  LinkInd' /\ [Channel!ChNext]_(Channel!chVars)
  <2>1. /\ LinkInd' /\ \A t \in Sides : Confirmed(t)' = Confirmed(t)
        /\ sent[s] - Confirmed(s) < WinSize
    BY <1>3, SendKeeps
  <2>2. ~down /\ sent' = [sent EXCEPT ![s] = @ + 1] /\ log' = log /\ down' = down
    BY <1>3 DEF Send, rxVars
  <2>3. conf' = conf /\ conf[s] = Confirmed(s)
    BY <2>1
  <2>4. Channel!ChSend(s)
    BY <2>1, <2>2, <2>3 DEF Channel!ChSend
  <2> QED BY <2>1, <2>4 DEF Channel!ChNext
<1>4. ASSUME NEW s \in Sides, TimerFires(s) \/ Lost(s) \/ Damaged(s) \/ Skip(s)
      PROVE  LinkInd' /\ [Channel!ChNext]_(Channel!chVars)
  <2>1. LinkInd' /\ \A t \in Sides : Confirmed(t)' = Confirmed(t)
    BY <1>4, TimerFiresKeeps, LostKeeps, DamagedKeeps, SkipKeeps
  <2>2. UNCHANGED <<sent, log, down>>
    BY <1>4 DEF TimerFires, Lost, Damaged, Skip, txVars, rxVars
  <2> QED BY <1>1, <2>1, <2>2
<1>5. ASSUME NEW s \in Sides, Retry(s) \/ RepeatAck(s)
      PROVE  LinkInd' /\ [Channel!ChNext]_(Channel!chVars)
  <2>1. LinkInd' /\ \A t \in Sides : Confirmed(t)' = Confirmed(t)
    BY <1>5, RetryKeeps, RepeatAckKeeps
  <2>2. UNCHANGED <<sent, log>> /\ ~down
    BY <1>5 DEF Retry, RepeatAck, txVars, rxVars
  <2>3. down' \in BOOLEAN
    BY <2>1 DEF LinkInd, Types, RestTypes
  <2> QED BY <1>2, <2>1, <2>2, <2>3
<1>6. ASSUME NEW s \in Sides, ReceiveAck(s) \/ TakePacket(s)
      PROVE  LinkInd' /\ [Channel!ChNext]_(Channel!chVars)
  <2> DEFINE p == Peer(s)
  <2>1. p \in Sides /\ p # s /\ \A t \in Sides : t = s \/ t = p
    BY Peers
  <2>2. /\ LinkInd' /\ Confirmed(p)' = Confirmed(p)
        /\ Confirmed(s)' \in Confirmed(s)..Took(s)
    BY <1>6, ReceiveAckKeeps, TakePacketKeeps
  <2>3. ~down /\ UNCHANGED sent
    BY <1>6 DEF ReceiveAck, TakePacket
  <2>4. \/ log' = log
        \/ Len(log[p]) < sent[p] /\ log' = [log EXCEPT ![p] = Append(@, Len(@) + 1)]
    <3>1. CASE ReceiveAck(s)
      BY <3>1 DEF ReceiveAck, rxVars
    <3>2. CASE TakePacket(s)
      BY <3>2, TakePacketKeeps DEF Took
    <3> QED BY <1>6, <3>1, <3>2
  <2>5. conf' = [conf EXCEPT ![s] = Confirmed(s)'] /\ conf[s] = Confirmed(s)
    <3> HIDE DEF p
    <3> QED BY <2>1, <2>2
  <2>6. down' \in BOOLEAN
    BY <2>2 DEF LinkInd, Types, RestTypes
  <2>7. \E n \in conf[s]..Len(log[s]) : conf' = [conf EXCEPT ![s] = n]
    BY <2>2, <2>5 DEF Took
  <2>8. Channel!ChHear(s, p)
    <3> HIDE DEF p, conf
    <3> QED BY <2>3, <2>4, <2>6, <2>7 DEF Channel!ChHear, conf
  <2> QED BY <2>1, <2>2, <2>8 DEF Channel!ChNext
<1>7. ASSUME Read
      PROVE  LinkInd' /\ [Channel!ChNext]_(Channel!chVars)
  <2>1. LinkInd' /\ \A t \in Sides : Confirmed(t)' = Confirmed(t)
    BY <1>7, ReadKeeps
  <2>2. UNCHANGED <<sent, log, down>>
    BY <1>7 DEF Read, txVars
  <2> QED BY <1>1, <2>1, <2>2
<1>8. ASSUME UNCHANGED vars
      PROVE  LinkInd' /\ [Channel!ChNext]_(Channel!chVars)
  <2>1. UNCHANGED Numbering /\ wire' = wire
    BY <1>8 DEF vars, Numbering
  <2>2. Quiet
    BY <2>1, WiresOk DEF Quiet
  <2>3. /\ wire' \in [Sides -> Seq(Items)] /\ CountTypes' /\ RestTypes'
        /\ \A t \in Sides : Armed(t)' /\ Limit(t)'
    BY <1>8 DEF vars, LinkInd, Types, CountTypes, DataTypes, RestTypes, Armed, Limit
  <2>4. LinkInd' /\ \A t \in Sides : Confirmed(t)' = Confirmed(t)
    BY <2>2, <2>3, QuietKeeps
  <2>5. UNCHANGED <<sent, log, down>>
    BY <1>8 DEF vars
  <2> QED BY <1>1, <2>4, <2>5
<1> QED BY <1>3, <1>4, <1>5, <1>6, <1>7, <1>8 DEF Next, Receive

\* What the invariant says of the window, the acknowledgements and the timers.
LEMMA LinkGives == LinkInd => LinkInv
<1> SUFFICES ASSUME LinkInd PROVE LinkInv
  OBVIOUS
<1>1. ASSUME NEW s \in Sides
      PROVE  /\ winspace[s] = WinSize - Len(Outstanding(s)) /\ Confirmed(s) <= Len(log[s])
             /\ ~down /\ winspace[s] < WinSize => timer[s] \/ retryOp[s] > 0
  <2>1. PICK c \in Nat : Knows(s, c)
    BY SomeKnown
  <2>2. Confirmed(s) = c /\ Len(Outstanding(s)) = sent[s] - c
    BY <2>1, KnowsConfirmed
  <2>3. Armed(s)
    BY DEF LinkInd
  <2> QED BY <2>1, <2>2, <2>3 DEF Knows, Took, Armed
<1>2. ASSUME NEW s \in Sides
      PROVE  ToSet(wire[s]) \subseteq Items /\ ToSet(log[s]) \subseteq Nat
  <2>1. wire[s] \in Seq(Items) /\ log[s] \in Seq(Nat)
    BY Numbers
  <2> QED BY <2>1, LenProperties, ElementOfSeq DEF ToSet
<1>3. TypeOK
  BY <1>2 DEF LinkInd, Types, SeqTypes, CountTypes, DataTypes, RestTypes, TypeOK
<1> QED BY <1>1, <1>3 DEF LinkInv, WindowExact, AckedWasTaken, RetryArmed

\* For every modulus, every window smaller than it and any loss, damage,
\* delay and repetition: the window counts what is outstanding, what a side
\* holds for acknowledged its peer has taken, and what is outstanding has a
\* timer or its work queued.
THEOREM LinkSound == Spec => []LinkInv
<1>1. LinkInd /\ [Next]_vars => LinkInd'
  BY LinkStep
<1> QED BY LinkStart, <1>1, LinkGives, PTL DEF Spec

\* The STP link implements its specification: in each direction a FIFO that
\* loses, repeats and reorders nothing, with at most a window of packets not
\* yet confirmed, until it goes down.
THEOREM LinkIsChannel == Spec => IsChannel
<1>1. Init => Channel!ChInit
  <2> SUFFICES ASSUME Init PROVE Channel!ChInit
    OBVIOUS
  <2>1. sent = [s \in Sides |-> 0] /\ log = [s \in Sides |-> <<>>] /\ down = FALSE
    BY DEF Init
  <2>2. LinkInd
    BY LinkStart
  <2>3. ASSUME NEW s \in Sides PROVE Confirmed(s) = 0
    <3>1. PICK c \in Nat : Knows(s, c)
      BY <2>2, SomeKnown
    <3>2. c <= Took(s) /\ Took(s) = 0
      BY <2>1, <3>1, EmptySeq DEF Knows, Took
    <3> QED BY <2>2, <3>1, <3>2, KnowsConfirmed
  <2> QED BY <2>1, <2>3 DEF Channel!ChInit
<1>2. LinkInd /\ [Next]_vars => LinkInd' /\ [Channel!ChNext]_(Channel!chVars)
  BY LinkStep
<1> QED BY LinkStart, <1>1, <1>2, PTL DEF Spec, IsChannel, Channel!ChSpec

-----------------------------------------------------------------------------
(* Sequence numbers of received frames.                                    *)

Sns == 0 .. SnCount - 1

\* From a forward to b on the circle.
Distance(a, b) == IF a =< b THEN b - a ELSE b - a + SnCount

\* The end of a window is a sequence number: the modulus takes one turn away.
LEMMA OneTurn ==
  ASSUME NEW k \in 0 .. 2 * SnCount - 1
  PROVE  k % SnCount = IF k < SnCount THEN k ELSE k - SnCount
<1>1. SnCount \in Nat \ {0}
  BY SnAssumption DEF RxWinSize
<1> QED BY <1>1

\* The end of the window, without the modulus.
LEMMA EndOfWindow ==
  ASSUME NEW start \in Sns
  PROVE  WinEnd(start) = IF start + RxWinSize - 1 < SnCount THEN start + RxWinSize - 1
                         ELSE start + RxWinSize - 1 - SnCount
<1>1. /\ SnCount \in Nat \ {0} /\ RxWinSize \in Nat \ {0} /\ RxWinSize < SnCount
      /\ start \in Nat /\ start < SnCount
  BY SnAssumption DEF RxWinSize, Sns, Half
<1>2. start + RxWinSize - 1 \in 0 .. 2 * SnCount - 1
  BY <1>1
<1>3. \A k \in 0 .. 2 * SnCount - 1 : k % SnCount = IF k < SnCount THEN k ELSE k - SnCount
  BY OneTurn
<1> QED BY <1>1, <1>2, <1>3 DEF WinEnd

\* Division with remainder of a number that is not negative.
LEMMA DivMod ==
  ASSUME NEW a \in Nat, NEW k \in Nat \ {0}
  PROVE  /\ a \div k \in Nat
         /\ a % k \in 0..k - 1
         /\ a = k * (a \div k) + (a % k)
<1>1. a \div k \in Nat
  OBVIOUS
<1> QED BY <1>1, DivModInt

\* Case 1 of qmProcessPktWithReordering is taken by the frames whose distance
\* from the start of the window is less than its size, wherever it wraps.
THEOREM WithinIsDistance ==
  ASSUME NEW start \in Sns, NEW sn \in Sns
  PROVE  Within(start, WinEnd(start), sn) <=> Distance(start, sn) < RxWinSize
<1>1. /\ SnCount \in Nat \ {0} /\ RxWinSize \in Nat \ {0} /\ RxWinSize < SnCount
      /\ start \in Nat /\ sn \in Nat /\ start < SnCount /\ sn < SnCount
  BY SnAssumption DEF RxWinSize, Sns, Half
<1>2. WinEnd(start) = IF start + RxWinSize - 1 < SnCount THEN start + RxWinSize - 1
                      ELSE start + RxWinSize - 1 - SnCount
  BY EndOfWindow
<1> QED BY <1>1, <1>2 DEF Within, Distance

\* Case 2 is taken by those beyond the window and less than half way round.
THEOREM AheadIsDistance ==
  ASSUME NEW start \in Sns, NEW sn \in Sns, ~Within(start, WinEnd(start), sn)
  PROVE  Ahead(start, WinEnd(start), sn) <=> Distance(start, sn) < Half
<1>1. /\ SnCount \in Nat /\ Half \in Nat /\ SnCount = 2 * Half /\ RxWinSize \in Nat \ {0}
      /\ RxWinSize < Half /\ Buf \in Nat \ {0} /\ IncSize \in Nat \ {0} /\ RxWinSize = Buf + IncSize
      /\ start \in Nat /\ sn \in Nat /\ start < SnCount /\ sn < SnCount
  BY SnAssumption DEF RxWinSize, Sns, Half
<1>2. WinEnd(start) = IF start + RxWinSize - 1 < SnCount THEN start + RxWinSize - 1
                      ELSE start + RxWinSize - 1 - SnCount
  BY EndOfWindow
<1>3. Distance(start, sn) >= RxWinSize
  BY WithinIsDistance, <1>1 DEF Distance
<1> QED BY <1>1, <1>2, <1>3 DEF Ahead, Distance

\* qmCompareSnIsLessThan: the first is less if the way forward to the second
\* is the shorter one; half way round, neither is less than the other.
THEOREM LessIsDistance ==
  ASSUME NEW a \in Sns, NEW b \in Sns
  PROVE  Less(a, b) <=> Distance(a, b) \in 1 .. Half - 1
<1>1. /\ SnCount \in Nat /\ Half \in Nat /\ SnCount = 2 * Half
      /\ a \in Nat /\ b \in Nat /\ a < SnCount /\ b < SnCount
  BY SnAssumption DEF RxWinSize, Sns, Half
<1> QED BY <1>1 DEF Less, Distance

\* The tests see the true numbers: of two frames less than half the number
\* space apart, the distance of their sequence numbers is their difference.
LEMMA TrueDistance ==
  ASSUME NEW m \in Nat, NEW n \in Nat, m =< n, n - m < Half
  PROVE  Distance(SN(m), SN(n)) = n - m
<1>1. /\ SnCount \in Nat \ {0} /\ Half \in Nat /\ SnCount = 2 * Half
  BY SnAssumption DEF RxWinSize, Half
<1> DEFINE qm == m \div SnCount
           qn == n \div SnCount
<1>2. qm \in Nat /\ m = SnCount * qm + SN(m) /\ SN(m) \in 0 .. SnCount - 1
  BY <1>1, DivMod DEF SN
<1>3. qn \in Nat /\ n = SnCount * qn + SN(n) /\ SN(n) \in 0 .. SnCount - 1
  BY <1>1, DivMod DEF SN
<1> HIDE DEF qm, qn
<1>4. qn = qm \/ qn = qm + 1
  BY <1>1, <1>2, <1>3
<1> QED BY <1>1, <1>2, <1>3, <1>4 DEF Distance

\* A number below a whole turn is its own sequence number, any turn later.
LEMMA Turns ==
  ASSUME NEW q \in Nat, NEW r \in Sns
  PROVE  SN(SnCount * q + r) = r
<1>1. SnCount \in Nat \ {0} /\ r \in Nat /\ r < SnCount
  BY SnAssumption DEF RxWinSize, Sns
<1> DEFINE a == SnCount * q + r
<1>2. a \in Nat
  BY <1>1
<1>3. /\ a \div SnCount \in Nat /\ a % SnCount \in 0 .. SnCount - 1
      /\ a = SnCount * (a \div SnCount) + (a % SnCount)
  BY <1>1, <1>2, DivMod
<1>4. a \div SnCount = q
  BY <1>1, <1>3
<1> QED BY <1>1, <1>3, <1>4 DEF SN

\* A frame of the sender's window that falls ahead becomes the last of the
\* receive window, and the start this gives the window is none of the frames
\* the sender still has in the air, nor beyond one: such a jump gives up only
\* what the sender gave up.
THEOREM AheadSkipsNothing ==
  ASSUME NEW b \in Nat, NEW n \in b .. b + Buf - 1, n >= RxWinSize
  PROVE  /\ AheadStart(SN(n)) = SN(n - RxWinSize + 1)
         /\ n - RxWinSize + 1 =< b
<1>1. /\ SnCount \in Nat \ {0} /\ RxWinSize \in Nat \ {0} /\ RxWinSize < SnCount
      /\ Buf \in Nat /\ IncSize \in Nat \ {0} /\ RxWinSize = Buf + IncSize /\ n \in Nat
  BY SnAssumption DEF RxWinSize, Half
<1> DEFINE q == n \div SnCount
           d == SN(n) - RxWinSize + 1
<1>2. q \in Nat /\ n = SnCount * q + SN(n) /\ SN(n) \in Sns
  BY <1>1, DivMod DEF SN, Sns
<1> HIDE DEF q
<1>3. n - RxWinSize + 1 = SnCount * q + d
  BY <1>1, <1>2 DEF Sns
<1>4. CASE d >= 0
  <2>1. d \in Sns /\ d + SnCount \in 0 .. 2 * SnCount - 1 /\ ~(d + SnCount < SnCount)
    BY <1>1, <1>2, <1>4 DEF Sns
  <2>2. SN(n - RxWinSize + 1) = d
    BY <1>2, <1>3, <2>1, Turns
  <2>3. (d + SnCount) % SnCount = d
    <3>1. (d + SnCount) % SnCount = (d + SnCount) - SnCount
      BY <2>1, OneTurn
    <3> QED BY <1>1, <2>1, <3>1 DEF Sns
  <2>4. SN(n) - RxWinSize + SnCount + 1 = d + SnCount
    BY <1>1, <1>2 DEF Sns
  <2> QED BY <1>1, <2>2, <2>3, <2>4 DEF AheadStart
<1>5. CASE d < 0
  <2>1. d + SnCount \in Sns /\ q - 1 \in Nat
    BY <1>1, <1>2, <1>3, <1>5 DEF Sns
  <2>2. n - RxWinSize + 1 = SnCount * (q - 1) + (d + SnCount)
    BY <1>1, <1>2, <1>3 DEF Sns
  <2>3. SN(n - RxWinSize + 1) = d + SnCount
    BY <2>1, <2>2, Turns
  <2>4. (d + SnCount) % SnCount = d + SnCount
    BY <1>1, <2>1, OneTurn DEF Sns
  <2>5. SN(n) - RxWinSize + SnCount + 1 = d + SnCount
    BY <1>1, <1>2 DEF Sns
  <2> QED BY <1>1, <2>3, <2>4, <2>5 DEF AheadStart
<1> QED BY <1>1, <1>2, <1>4, <1>5 DEF Sns

-----------------------------------------------------------------------------
(* Receive reordering: the driver on the true numbers of the frames.       *)

\* A set of numbers that is not empty has a least one.
LEMMA LeastOf ==
  ASSUME NEW S, S \subseteq Nat, S # {}
  PROVE  \E m \in S : \A n \in S : m =< n
<1> DEFINE R == OpToRel(<, Nat)
<1>1. IsWellFoundedOn(R, Nat)
  BY NatLessThanWellFounded
<1>2. \A u, v \in Nat : u < v => <<u, v>> \in R
  BY DEF OpToRel
<1> HIDE DEF R
<1>3. PICK m \in S : \A n \in S : ~(<<n, m>> \in R)
  BY <1>1, WFMin
<1>4. ASSUME NEW n \in S PROVE m =< n
  <2>1. m \in Nat /\ n \in Nat /\ ~(<<n, m>> \in R)
    BY <1>3
  <2> QED BY <1>2, <2>1
<1> QED BY <1>4

\* A set that has 0 and with every number below b the next one has 0..b.
LEMMA UpTo ==
  ASSUME NEW b \in Nat, NEW S, 0 \in S, \A i \in 0..b - 1 : i \in S => i + 1 \in S
  PROVE  \A i \in 0..b : i \in S
<1> DEFINE T == {i \in 0..b : i \notin S}
<1>1. SUFFICES ASSUME T # {} PROVE FALSE
  OBVIOUS
<1>2. T \subseteq Nat
  OBVIOUS
<1>3. PICK m \in T : \A n \in T : m =< n
  <2> HIDE DEF T
  <2> QED BY <1>1, <1>2, LeastOf
<1>4. m \in 1..b /\ m - 1 \in 0..b - 1
  OBVIOUS
<1>5. m - 1 \in T
  BY <1>4
<1> QED BY <1>3, <1>4, <1>5

\* The parameters of the circle.
LEMMA CircleSize ==
  /\ SnCount \in Nat \ {0} /\ Half \in Nat /\ SnCount = 2 * Half
  /\ Buf \in Nat \ {0} /\ IncSize \in Nat \ {0} /\ RxWinSize = Buf + IncSize
  /\ RxWinSize \in Nat \ {0} /\ RxWinSize + Buf < Half /\ MaxGap \in Nat
  /\ MaxGap = Half - RxWinSize - Buf
BY SnAssumption DEF RxWinSize, Half, MaxGap

\* The number after a true one is the one after it on the circle.
LEMMA NextSn ==
  ASSUME NEW n \in Nat
  PROVE  SN(n) \in Sns /\ Next12(SN(n)) = SN(n + 1)
<1> DEFINE q == n \div SnCount
<1>1. q \in Nat /\ n = SnCount * q + SN(n) /\ SN(n) \in Sns
  BY CircleSize, DivMod DEF SN, Sns
<1> HIDE DEF q
<1>2. CASE SN(n) + 1 < SnCount
  <2>1. SN(n) + 1 \in Sns /\ n + 1 = SnCount * q + (SN(n) + 1) /\ SN(n) + 1 \in 0 .. 2 * SnCount - 1
    BY <1>1, <1>2, CircleSize DEF Sns
  <2>2. SN(n + 1) = SN(n) + 1
    BY <1>1, <2>1, Turns
  <2>3. (SN(n) + 1) % SnCount = SN(n) + 1
    BY <1>2, <2>1, OneTurn
  <2> QED BY <1>1, <2>2, <2>3 DEF Next12
<1>3. CASE SN(n) + 1 = SnCount
  <2>1. 0 \in Sns /\ q + 1 \in Nat /\ n + 1 = SnCount * (q + 1) + 0 /\ SnCount \in 0 .. 2 * SnCount - 1
    BY <1>1, <1>3, CircleSize DEF Sns
  <2>2. SN(n + 1) = 0
    BY <2>1, Turns
  <2>3. SnCount % SnCount = SnCount - SnCount
    BY <2>1, OneTurn, CircleSize
  <2> QED BY <1>1, <1>3, <2>2, <2>3, CircleSize DEF Next12
<1> QED BY <1>1, <1>2, <1>3, CircleSize DEF Sns

\* Two true numbers are less than half the circle apart.
Near(a, b) == a - b < Half /\ b - a < Half

\* The way back is what the way forward leaves of the circle.
LEMMA WayBack ==
  ASSUME NEW m \in Nat, NEW n \in Nat, m < n, Near(m, n)
  PROVE  /\ Distance(SN(m), SN(n)) = n - m
         /\ Distance(SN(n), SN(m)) = SnCount - (n - m)
<1>1. Distance(SN(m), SN(n)) = n - m
  BY TrueDistance DEF Near
<1>2. SN(m) \in Sns /\ SN(n) \in Sns
  BY NextSn
<1> QED BY <1>1, <1>2, CircleSize DEF Distance, Sns

\* So near each other their sequence numbers are equal only if they are, and
\* the driver's comparison is that of the true numbers.
LEMMA TrueOrder ==
  ASSUME NEW m \in Nat, NEW n \in Nat, Near(m, n)
  PROVE  /\ SN(m) = SN(n) <=> m = n
         /\ Less(SN(m), SN(n)) <=> m < n
<1>1. SN(m) \in Sns /\ SN(n) \in Sns
  BY NextSn
<1>2. Less(SN(m), SN(n)) <=> Distance(SN(m), SN(n)) \in 1 .. Half - 1
  BY <1>1, LessIsDistance
<1>3. CASE m = n
  <2>1. Distance(SN(m), SN(n)) = 0
    BY <1>1, <1>3 DEF Distance, Sns
  <2> QED BY <1>2, <1>3, <2>1
<1>4. CASE m < n
  <2>1. Distance(SN(m), SN(n)) = n - m /\ n - m \in 1 .. Half - 1
    BY <1>4, WayBack, CircleSize DEF Near
  <2>2. SN(m) # SN(n)
    BY <1>1, <2>1 DEF Distance, Sns
  <2> QED BY <1>2, <1>4, <2>1, <2>2
<1>5. CASE n < m
  <2>1. Near(n, m)
    BY DEF Near
  <2>2. Distance(SN(m), SN(n)) = SnCount - (m - n) /\ SnCount - (m - n) > Half
    BY <1>5, <2>1, WayBack, CircleSize DEF Near
  <2>3. SN(m) # SN(n)
    BY <1>1, <2>2, CircleSize DEF Distance, Sns
  <2> QED BY <1>2, <1>5, <2>2, <2>3, CircleSize
<1> QED BY <1>3, <1>4, <1>5

\* The three cases of a frame near the window, whose start is frame w: within,
\* behind it, and ahead of it.
LEMMA ThreeCases ==
  ASSUME NEW w \in Nat, NEW n \in Nat, Near(w, n)
  PROVE  /\ Within(SN(w), WinEnd(SN(w)), SN(n)) <=> w =< n /\ n < w + RxWinSize
         /\ ~Within(SN(w), WinEnd(SN(w)), SN(n)) =>
              (Ahead(SN(w), WinEnd(SN(w)), SN(n)) <=> w + RxWinSize =< n)
<1> DEFINE d == Distance(SN(w), SN(n))
           e == WinEnd(SN(w))
<1>1. SN(w) \in Sns /\ SN(n) \in Sns
  BY NextSn
<1>2. Within(SN(w), e, SN(n)) <=> d < RxWinSize
  BY <1>1, WithinIsDistance
<1>3. ~Within(SN(w), e, SN(n)) => (Ahead(SN(w), e, SN(n)) <=> d < Half)
  BY <1>1, AheadIsDistance
<1>4. d = IF w =< n THEN n - w ELSE SnCount - (w - n)
  <2>1. CASE w =< n
    BY <2>1, TrueDistance DEF Near
  <2>2. CASE n < w
    <3>1. Near(n, w)
      BY DEF Near
    <3> QED BY <2>2, <3>1, WayBack
  <2> QED BY <2>1, <2>2
<1> HIDE DEF d, e
<1>5. Near(w, n) => w - n < Half /\ n - w < Half
  BY DEF Near
<1> QED BY <1>2, <1>3, <1>4, <1>5, CircleSize DEF e

-----------------------------------------------------------------------------
(* The loops of qmPopOutDueToFallWithin and qmPopOutDueToFallAhead.        *)

\* The turns of the first loop are those its recursion says.
LEMMA WithinTurns ==
  ASSUME NEW start, NEW timeout, NEW q \in Seq(Nat)
  PROVE  \E turn :
           /\ turn[0] = Begin(start, timeout)
           /\ \A i \in 0 .. Len(q) - 1 : turn[i + 1] = WithinTurn(turn[i], q[i + 1])
           /\ WithinLoop(start, timeout, q) = turn[Len(q)]
<1> DEFINE F(g, b) == g = [i \in 0 .. b |-> IF i = 0 THEN Begin(start, timeout)
                                            ELSE WithinTurn(g[i - 1], q[i])]
           S == {b \in 0 .. Len(q) : \E g : F(g, b)}
<1>1. Len(q) \in Nat
  BY LenProperties
<1>2. 0 \in S
  <2> DEFINE g == [i \in 0 .. 0 |-> Begin(start, timeout)]
  <2>1. F(g, 0)
    OBVIOUS
  <2> HIDE DEF F
  <2> QED BY <1>1, <2>1
<1>3. \A b \in 0 .. Len(q) - 1 : b \in S => b + 1 \in S
  <2> HIDE DEF F
  <2> SUFFICES ASSUME NEW b \in 0 .. Len(q) - 1, NEW g, F(g, b) PROVE \E h : F(h, b + 1)
    BY <1>1
  <2> USE DEF F
  <2> DEFINE h == [i \in 0 .. b + 1 |-> IF i =< b THEN g[i] ELSE WithinTurn(g[b], q[b + 1])]
  <2>1. h = [i \in 0 .. b + 1 |-> IF i = 0 THEN Begin(start, timeout)
                                  ELSE WithinTurn(h[i - 1], q[i])]
    <3>1. b \in Nat
      BY <1>1
    <3>2. /\ \A i \in 0 .. b : h[i] = g[i]
          /\ h[b + 1] = WithinTurn(g[b], q[b + 1])
      BY <3>1
    <3>3. \A i \in 0 .. b : g[i] = IF i = 0 THEN Begin(start, timeout) ELSE WithinTurn(g[i - 1], q[i])
      OBVIOUS
    <3> HIDE DEF h, F
    <3>4. ASSUME NEW i \in 0 .. b + 1
          PROVE  h[i] = IF i = 0 THEN Begin(start, timeout) ELSE WithinTurn(h[i - 1], q[i])
      <4>1. CASE i = 0
        BY <3>1, <3>2, <3>3, <4>1
      <4>2. CASE i \in 1 .. b
        <5>1. i # 0 /\ i \in 0 .. b /\ i - 1 \in 0 .. b
          BY <3>1, <4>2
        <5>2. h[i] = g[i] /\ h[i - 1] = g[i - 1]
          BY <3>2, <5>1
        <5> QED BY <3>3, <5>1, <5>2
      <4>3. CASE i = b + 1
        <5>1. i # 0 /\ i - 1 = b /\ b \in 0 .. b
          BY <3>1, <4>3
        <5> QED BY <3>2, <4>3, <5>1
      <4> QED BY <3>1, <4>1, <4>2, <4>3
    <3>5. h = [i \in 0 .. b + 1 |-> h[i]]
      BY DEF h
    <3> QED BY <3>4, <3>5
  <2> QED BY <2>1
<1>4. \E g : F(g, Len(q))
  <2> HIDE DEF F
  <2>1. Len(q) \in 0 .. Len(q)
    BY <1>1
  <2> HIDE DEF S
  <2>2. Len(q) \in S
    BY <1>1, <1>2, <1>3, <2>1, UpTo
  <2> USE DEF S
  <2> QED BY <2>2
<1> DEFINE f == CHOOSE g : F(g, Len(q))
<1>5. F(f, Len(q))
  BY <1>4
<1>6. WithinLoop(start, timeout, q) = f[Len(q)]
  BY DEF WithinLoop
<1> HIDE DEF f
<1>7. f[0] = Begin(start, timeout)
  BY <1>1, <1>5
<1>8. ASSUME NEW i \in 0 .. Len(q) - 1 PROVE f[i + 1] = WithinTurn(f[i], q[i + 1])
  <2>1. i + 1 \in 0 .. Len(q) /\ i + 1 # 0 /\ i + 1 - 1 = i
    BY <1>1
  <2> QED BY <1>5, <2>1
<1> QED BY <1>6, <1>7, <1>8

\* And those of the second.
LEMMA AheadTurns ==
  ASSUME NEW start, NEW q \in Seq(Nat)
  PROVE  \E turn :
           /\ turn[0] = Begin(start, FALSE)
           /\ \A i \in 0 .. Len(q) - 1 : turn[i + 1] = AheadTurn(turn[i], q[i + 1])
           /\ AheadLoop(start, q) = turn[Len(q)]
<1> DEFINE zero == Begin(start, FALSE)
<1> HIDE DEF zero
<1> DEFINE F(g, b) == g = [i \in 0 .. b |-> IF i = 0 THEN zero
                                            ELSE AheadTurn(g[i - 1], q[i])]
           S == {b \in 0 .. Len(q) : \E g : F(g, b)}
<1>1. Len(q) \in Nat
  BY LenProperties
<1>2. 0 \in S
  <2> DEFINE g == [i \in 0 .. 0 |-> zero]
  <2>1. F(g, 0)
    OBVIOUS
  <2> HIDE DEF F
  <2> QED BY <1>1, <2>1
<1>3. \A b \in 0 .. Len(q) - 1 : b \in S => b + 1 \in S
  <2> HIDE DEF F
  <2> SUFFICES ASSUME NEW b \in 0 .. Len(q) - 1, NEW g, F(g, b) PROVE \E h : F(h, b + 1)
    BY <1>1
  <2> USE DEF F
  <2> DEFINE h == [i \in 0 .. b + 1 |-> IF i =< b THEN g[i] ELSE AheadTurn(g[b], q[b + 1])]
  <2>1. h = [i \in 0 .. b + 1 |-> IF i = 0 THEN zero
                                  ELSE AheadTurn(h[i - 1], q[i])]
    <3>1. b \in Nat
      BY <1>1
    <3>2. /\ \A i \in 0 .. b : h[i] = g[i]
          /\ h[b + 1] = AheadTurn(g[b], q[b + 1])
      BY <3>1
    <3>3. \A i \in 0 .. b : g[i] = IF i = 0 THEN zero ELSE AheadTurn(g[i - 1], q[i])
      OBVIOUS
    <3> HIDE DEF h, F
    <3>4. ASSUME NEW i \in 0 .. b + 1
          PROVE  h[i] = IF i = 0 THEN zero ELSE AheadTurn(h[i - 1], q[i])
      <4>1. CASE i = 0
        BY <3>1, <3>2, <3>3, <4>1
      <4>2. CASE i \in 1 .. b
        <5>1. i # 0 /\ i \in 0 .. b /\ i - 1 \in 0 .. b
          BY <3>1, <4>2
        <5>2. h[i] = g[i] /\ h[i - 1] = g[i - 1]
          BY <3>2, <5>1
        <5> QED BY <3>3, <5>1, <5>2
      <4>3. CASE i = b + 1
        <5>1. i # 0 /\ i - 1 = b /\ b \in 0 .. b
          BY <3>1, <4>3
        <5> QED BY <3>2, <4>3, <5>1
      <4> QED BY <3>1, <4>1, <4>2, <4>3
    <3>5. h = [i \in 0 .. b + 1 |-> h[i]]
      BY DEF h
    <3> QED BY <3>4, <3>5
  <2> QED BY <2>1
<1>4. \E g : F(g, Len(q))
  <2> HIDE DEF F
  <2>1. Len(q) \in 0 .. Len(q)
    BY <1>1
  <2> HIDE DEF S
  <2>2. Len(q) \in S
    BY <1>1, <1>2, <1>3, <2>1, UpTo
  <2> USE DEF S
  <2> QED BY <2>2
<1> DEFINE f == CHOOSE g : F(g, Len(q))
<1>5. F(f, Len(q))
  BY <1>4
<1>6. AheadLoop(start, q) = f[Len(q)]
  BY DEF AheadLoop, zero
<1> HIDE DEF f
<1>7. f[0] = zero
  BY <1>1, <1>5
<1>8. ASSUME NEW i \in 0 .. Len(q) - 1 PROVE f[i + 1] = AheadTurn(f[i], q[i + 1])
  <2>1. i + 1 \in 0 .. Len(q) /\ i + 1 # 0 /\ i + 1 - 1 = i
    BY <1>1
  <2> QED BY <1>5, <2>1
<1> QED BY <1>6, <1>7, <1>8 DEF zero

-----------------------------------------------------------------------------
(* What a turn of the loops keeps.                                         *)

Ascending(s) == \A i, j \in 1 .. Len(s) : i < j => s[i] < s[j]
Has(s, m) == \E j \in 1 .. Len(s) : s[j] = m

LoopStates == [start : Sns, timeout : BOOLEAN, out : Seq(Nat), rest : Seq(Nat), gave : Nat]

\* Frames of s are among the first i of q.
From(s, q, i) == \A j \in 1 .. Len(s) : \E k \in 1 .. i : s[j] = q[k]

\* After i turns over the held frames q, begun with the start of the window at
\* frame w: the start is at frame v, what goes up is below it, what is still
\* held above it, and what is between w and v and does not go up is below the
\* hole given up.
Turned(q, w, i, v, acc) ==
  /\ acc \in LoopStates /\ acc.start = SN(v) /\ w =< v
  /\ \/ v = w
     \/ \E k \in 1 .. i : v = q[k] + 1
  /\ Ascending(acc.out) /\ From(acc.out, q, i) /\ \A j \in 1 .. Len(acc.out) : acc.out[j] < v
  /\ Ascending(acc.rest) /\ From(acc.rest, q, i) /\ \A j \in 1 .. Len(acc.rest) : v < acc.rest[j]
  /\ \A m \in Nat : w =< m /\ m < v => m < acc.gave \/ Has(acc.out, m)

\* The frames held are in order and near the start of the window.
Held(q, w) ==
  /\ q \in Seq(Nat) /\ Ascending(q)
  /\ \A j \in 1 .. Len(q) : Near(w, q[j])

\* One frame more at the end of a list.
LEMMA OneMore ==
  ASSUME NEW s \in Seq(Nat), NEW n \in Nat
  PROVE  /\ Append(s, n) \in Seq(Nat) /\ Append(s, n) # <<>>
         /\ Len(s) \in Nat /\ Len(Append(s, n)) = Len(s) + 1
         /\ \A j \in 1 .. Len(s) : Append(s, n)[j] = s[j]
         /\ Append(s, n)[Len(s) + 1] = n
BY AppendProperties, LenProperties

\* It keeps the order when it is above all of the list.
LEMMA OneMoreAbove ==
  ASSUME NEW s \in Seq(Nat), NEW n \in Nat, Ascending(s), \A j \in 1 .. Len(s) : s[j] < n
  PROVE  Ascending(Append(s, n))
<1> DEFINE t == Append(s, n)
<1>1. /\ Len(s) \in Nat /\ Len(t) = Len(s) + 1
      /\ \A j \in 1 .. Len(s) : t[j] = s[j]
      /\ t[Len(s) + 1] = n
  BY OneMore
<1>2. \A j \in 1 .. Len(s) : s[j] \in Nat
  BY ElementOfSeq
<1> HIDE DEF t
<1>3. ASSUME NEW i \in 1 .. Len(t), NEW j \in 1 .. Len(t), i < j PROVE t[i] < t[j]
  <2>1. i \in 1 .. Len(s) /\ t[i] = s[i]
    BY <1>1, <1>3
  <2>2. CASE j \in 1 .. Len(s)
    BY <1>1, <1>3, <2>1, <2>2 DEF Ascending
  <2>3. CASE j = Len(s) + 1
    BY <1>1, <2>1, <2>3
  <2> QED BY <1>1, <2>2, <2>3
<1> QED BY <1>3 DEF Ascending, t

\* It has what the list had, and the new frame.
LEMMA OneMoreHas ==
  ASSUME NEW s \in Seq(Nat), NEW n \in Nat
  PROVE  \A m : Has(Append(s, n), m) <=> Has(s, m) \/ m = n
<1> DEFINE t == Append(s, n)
<1>1. /\ Len(s) \in Nat /\ Len(t) = Len(s) + 1
      /\ \A j \in 1 .. Len(s) : t[j] = s[j]
      /\ t[Len(s) + 1] = n
  BY OneMore
<1> HIDE DEF t
<1>2. ASSUME NEW m, Has(s, m) PROVE Has(t, m)
  <2>1. PICK j \in 1 .. Len(s) : s[j] = m
    BY <1>2 DEF Has
  <2>2. j \in 1 .. Len(t) /\ t[j] = m
    BY <1>1, <2>1
  <2> QED BY <2>2 DEF Has
<1>3. Has(t, n)
  <2>1. Len(s) + 1 \in 1 .. Len(t)
    BY <1>1
  <2> QED BY <1>1, <2>1 DEF Has
<1>4. ASSUME NEW m, Has(t, m), m # n PROVE Has(s, m)
  <2>1. PICK j \in 1 .. Len(t) : t[j] = m
    BY <1>4 DEF Has
  <2>2. j \in 1 .. Len(s)
    BY <1>1, <1>4, <2>1
  <2> QED BY <1>1, <2>1, <2>2 DEF Has
<1> QED BY <1>2, <1>3, <1>4 DEF t

\* It is from one more frame of the held ones.
LEMMA OneMoreFrom ==
  ASSUME NEW q, NEW i \in Nat, NEW s \in Seq(Nat), From(s, q, i)
  PROVE  /\ From(s, q, i + 1)
         /\ q[i + 1] \in Nat => From(Append(s, q[i + 1]), q, i + 1)
<1>1. \A k \in 1 .. i : k \in 1 .. i + 1
  OBVIOUS
<1>2. From(s, q, i + 1)
  BY <1>1 DEF From
<1>3. ASSUME q[i + 1] \in Nat PROVE From(Append(s, q[i + 1]), q, i + 1)
  <2> DEFINE n == q[i + 1]
             t == Append(s, n)
  <2>1. /\ Len(s) \in Nat /\ Len(t) = Len(s) + 1
        /\ \A j \in 1 .. Len(s) : t[j] = s[j]
        /\ t[Len(s) + 1] = n
    BY <1>3, OneMore
  <2> HIDE DEF t, n
  <2>2. ASSUME NEW j \in 1 .. Len(t) PROVE \E k \in 1 .. i + 1 : t[j] = q[k]
    <3>1. CASE j \in 1 .. Len(s)
      BY <1>2, <2>1, <3>1 DEF From
    <3>2. CASE j = Len(s) + 1
      <4>1. i + 1 \in 1 .. i + 1 /\ t[j] = q[i + 1]
        BY <2>1, <3>2 DEF n
      <4> QED BY <4>1
    <3> QED BY <2>1, <3>1, <3>2
  <2> QED BY <2>2 DEF From, t, n
<1> QED BY <1>2, <1>3

\* The next frame of the held ones, and where the start of the window is to it.
LEMMA NextHeld ==
  ASSUME NEW q, NEW w \in Nat, NEW i \in Nat, NEW v \in Nat, NEW acc, Held(q, w),
         i + 1 =< Len(q), Turned(q, w, i, v, acc)
  PROVE  /\ q[i + 1] \in Nat /\ Near(v, q[i + 1]) /\ (v # w => v =< q[i + 1])
         /\ \A k \in 1 .. i : q[k] \in Nat /\ q[k] < q[i + 1]
<1> DEFINE n == q[i + 1]
<1>1. Len(q) \in Nat /\ \A k \in 1 .. Len(q) : q[k] \in Nat
  BY LenProperties, ElementOfSeq DEF Held
<1>2. i + 1 \in 1 .. Len(q) /\ \A k \in 1 .. i : k \in 1 .. Len(q) /\ k < i + 1
  BY <1>1
<1>3. n \in Nat /\ Near(w, n) /\ \A k \in 1 .. i : q[k] \in Nat /\ q[k] < n
  BY <1>1, <1>2 DEF Held, Ascending
<1> HIDE DEF n
<1>4. v # w => v =< n
  BY <1>3 DEF Turned
<1>5. Near(v, n)
  <2>1. w =< v
    BY DEF Turned
  <2> QED BY <1>3, <1>4, <2>1, CircleSize DEF Near
<1> QED BY <1>3, <1>4, <1>5 DEF n

\* A frame above the start is held, as is every one after it.
LEMMA TurnHolds ==
  ASSUME NEW q, NEW w \in Nat, NEW i \in Nat, NEW v \in Nat, NEW acc, Held(q, w),
         i + 1 =< Len(q), Turned(q, w, i, v, acc),
         acc.rest # <<>> \/ v < q[i + 1]
  PROVE  Turned(q, w, i + 1, v, Hold(acc, q[i + 1]))
<1> DEFINE n == q[i + 1]
           r == Hold(acc, n)
<1>1. n \in Nat /\ \A k \in 1 .. i : q[k] \in Nat /\ q[k] < n
  BY NextHeld
<1>2. /\ acc \in LoopStates /\ acc.start = SN(v) /\ w =< v
      /\ \/ v = w
         \/ \E k \in 1 .. i : v = q[k] + 1
      /\ Ascending(acc.out) /\ From(acc.out, q, i) /\ \A j \in 1 .. Len(acc.out) : acc.out[j] < v
      /\ Ascending(acc.rest) /\ From(acc.rest, q, i) /\ \A j \in 1 .. Len(acc.rest) : v < acc.rest[j]
      /\ \A m \in Nat : w =< m /\ m < v => m < acc.gave \/ Has(acc.out, m)
  BY DEF Turned
<1>3. acc.rest \in Seq(Nat) /\ acc.out \in Seq(Nat)
  BY <1>2 DEF LoopStates
<1>4. \A j \in 1 .. Len(acc.rest) : acc.rest[j] \in Nat /\ acc.rest[j] < n
  BY <1>1, <1>2 DEF From
<1>5. v < n
  <2>1. CASE acc.rest # <<>>
    <3>1. 1 \in 1 .. Len(acc.rest)
      BY <1>3, <2>1, LenProperties
    <3> QED BY <1>1, <1>2, <1>4, <3>1
  <2> QED BY <2>1
<1>6. /\ Append(acc.rest, n) \in Seq(Nat)
      /\ Ascending(Append(acc.rest, n)) /\ From(Append(acc.rest, n), q, i + 1)
      /\ From(acc.out, q, i + 1)
  BY <1>1, <1>2, <1>3, <1>4, OneMore, OneMoreAbove, OneMoreFrom
<1>7. \A j \in 1 .. Len(Append(acc.rest, n)) : v < Append(acc.rest, n)[j]
  <2>1. /\ Len(acc.rest) \in Nat /\ Len(Append(acc.rest, n)) = Len(acc.rest) + 1
        /\ \A j \in 1 .. Len(acc.rest) : Append(acc.rest, n)[j] = acc.rest[j]
        /\ Append(acc.rest, n)[Len(acc.rest) + 1] = n
    BY <1>1, <1>3, OneMore
  <2> QED BY <1>2, <1>5, <2>1
<1>8. /\ r \in LoopStates /\ r.start = acc.start /\ r.out = acc.out /\ r.gave = acc.gave
      /\ r.rest = Append(acc.rest, n)
  BY <1>2, <1>6 DEF Hold, LoopStates
<1>9. \A k \in 1 .. i : k \in 1 .. i + 1
  OBVIOUS
<1> HIDE DEF n, r
<1>10. Turned(q, w, i + 1, v, r)
  BY <1>2, <1>6, <1>7, <1>8, <1>9 DEF Turned
<1> QED BY <1>10 DEF r, n

\* A frame goes up: one below the start leaves it where it is, one that is not
\* moves it behind itself, and then it was at the start or is the hole's end.
LEMMA TurnPasses ==
  ASSUME NEW q, NEW w \in Nat, NEW i \in Nat, NEW v \in Nat, NEW acc, Held(q, w),
         i + 1 =< Len(q), Turned(q, w, i, v, acc), acc.rest = <<>>,
         NEW r \in LoopStates, r.out = Append(acc.out, q[i + 1]), r.rest = <<>>,
         NEW u \in Nat, r.start = SN(u),
         \/ q[i + 1] < v /\ u = v /\ r.gave = acc.gave
         \/ v = q[i + 1] /\ u = v + 1 /\ r.gave = acc.gave
         \/ v =< q[i + 1] /\ u = q[i + 1] + 1 /\ r.gave = q[i + 1]
  PROVE  Turned(q, w, i + 1, u, r)
<1> DEFINE n == q[i + 1]
<1>1. n \in Nat /\ \A k \in 1 .. i : q[k] \in Nat /\ q[k] < n
  BY NextHeld
<1>2. /\ acc \in LoopStates /\ w =< v
      /\ \/ v = w
         \/ \E k \in 1 .. i : v = q[k] + 1
      /\ Ascending(acc.out) /\ From(acc.out, q, i) /\ \A j \in 1 .. Len(acc.out) : acc.out[j] < v
      /\ \A m \in Nat : w =< m /\ m < v => m < acc.gave \/ Has(acc.out, m)
  BY DEF Turned
<1>3. acc.out \in Seq(Nat) /\ acc.gave \in Nat
  BY <1>2 DEF LoopStates
<1>4. \A j \in 1 .. Len(acc.out) : acc.out[j] \in Nat /\ acc.out[j] < n
  BY <1>1, <1>2 DEF From
<1>5. Ascending(r.out) /\ From(r.out, q, i + 1)
  BY <1>1, <1>2, <1>3, <1>4, OneMoreAbove, OneMoreFrom
<1>6. v =< u /\ n < u
  BY <1>1
<1>7. \A j \in 1 .. Len(r.out) : r.out[j] < u
  <2>1. /\ Len(acc.out) \in Nat /\ Len(r.out) = Len(acc.out) + 1
        /\ \A j \in 1 .. Len(acc.out) : r.out[j] = acc.out[j]
        /\ r.out[Len(acc.out) + 1] = n
    BY <1>1, <1>3, OneMore
  <2>2. ASSUME NEW j \in 1 .. Len(r.out) PROVE r.out[j] < u
    <3>1. CASE j \in 1 .. Len(acc.out)
      <4>1. acc.out[j] \in Nat /\ acc.out[j] < n /\ r.out[j] = acc.out[j]
        BY <1>4, <2>1, <3>1
      <4> QED BY <1>1, <1>6, <4>1
    <3>2. CASE j = Len(acc.out) + 1
      BY <1>6, <2>1, <3>2
    <3> QED BY <2>1, <3>1, <3>2
  <2> QED BY <2>2
<1>8. \A m : Has(r.out, m) <=> Has(acc.out, m) \/ m = n
  BY <1>1, <1>3, OneMoreHas
<1>9. ASSUME NEW m \in Nat, w =< m, m < u PROVE m < r.gave \/ Has(r.out, m)
  <2>1. CASE m < v
    <3>1. m < acc.gave \/ Has(acc.out, m)
      BY <1>2, <1>9, <2>1
    <3>2. r.gave = acc.gave \/ m < r.gave
      BY <1>1, <2>1
    <3> QED BY <1>8, <3>1, <3>2
  <2>2. CASE v =< m
    <3>1. m = n \/ m < r.gave
      BY <1>1, <1>9, <2>2
    <3> QED BY <1>8, <3>1
  <2> QED BY <2>1, <2>2
<1>10. u = w \/ \E k \in 1 .. i + 1 : u = q[k] + 1
  <2>1. CASE u = v
    BY <1>2, <2>1
  <2>2. CASE u = n + 1
    BY <2>2
  <2> QED BY <2>1, <2>2
<1>11. /\ Ascending(r.rest) /\ From(r.rest, q, i + 1)
       /\ \A j \in 1 .. Len(r.rest) : u < r.rest[j]
  BY EmptySeq DEF Ascending, From
<1>12. w =< u
  BY <1>2, <1>6
<1> QED BY <1>5, <1>7, <1>9, <1>10, <1>11, <1>12 DEF Turned

\* Before the first turn.
LEMMA BeginTurned ==
  ASSUME NEW q, NEW w \in Nat, NEW timeout \in BOOLEAN
  PROVE  Turned(q, w, 0, w, Begin(SN(w), timeout))
<1> DEFINE b == Begin(SN(w), timeout)
<1>1. SN(w) \in Sns /\ <<>> \in Seq(Nat) /\ Len(<<>>) = 0
  BY NextSn, EmptySeq
<1>2. /\ b \in LoopStates /\ b.start = SN(w) /\ b.out = <<>> /\ b.rest = <<>>
  BY <1>1 DEF Begin, LoopStates
<1> HIDE DEF b
<1>3. Ascending(<<>>) /\ From(<<>>, q, 0)
  BY <1>1 DEF Ascending, From
<1>4. Turned(q, w, 0, w, b)
  BY <1>1, <1>2, <1>3 DEF Turned
<1> QED BY <1>4 DEF b

\* A turn of the first loop, over frames none of which is behind the window.
LEMMA WithinTurned ==
  ASSUME NEW q, NEW w \in Nat, NEW i \in Nat, NEW v \in Nat, NEW acc, Held(q, w),
         \A j \in 1 .. Len(q) : w =< q[j],
         i + 1 =< Len(q), Turned(q, w, i, v, acc)
  PROVE  \E u \in Nat : Turned(q, w, i + 1, u, WithinTurn(acc, q[i + 1]))
<1> DEFINE n == q[i + 1]
           a == Advanced(acc, n)
           g == [a EXCEPT !.timeout = FALSE, !.gave = n]
<1>1. n \in Nat /\ Near(v, n) /\ (v # w => v =< n)
  BY NextHeld
<1>2. w =< n
  BY LenProperties DEF Held
<1>3. acc \in LoopStates /\ acc.start = SN(v) /\ acc.out \in Seq(Nat)
  BY DEF Turned, LoopStates
<1>4. n + 1 \in Nat /\ Next12(SN(n)) = SN(n + 1) /\ SN(n + 1) \in Sns
  <2> HIDE DEF n
  <2>1. n + 1 \in Nat
    BY <1>1
  <2> QED BY <1>1, <2>1, NextSn
<1>5. Append(acc.out, n) \in Seq(Nat)
  BY <1>1, <1>3, OneMore
<1>6. a \in LoopStates /\ a.start = SN(n + 1) /\ a.out = Append(acc.out, n) /\ a.rest = acc.rest
      /\ a.gave = acc.gave
  BY <1>3, <1>4, <1>5 DEF Advanced, Indicate, LoopStates
<1>7. g \in LoopStates /\ g.start = SN(n + 1) /\ g.out = Append(acc.out, n) /\ g.rest = acc.rest
      /\ g.gave = n
  BY <1>1, <1>6 DEF LoopStates
<1>8. CASE acc.rest # <<>>
  <2>1. Turned(q, w, i + 1, v, Hold(acc, n))
    BY <1>8, TurnHolds
  <2> QED BY <1>8, <2>1 DEF WithinTurn
<1>9. CASE acc.rest = <<>> /\ SN(n) = acc.start
  <2>1. v = n
    BY <1>1, <1>3, <1>9, TrueOrder
  <2>2. Turned(q, w, i + 1, n + 1, a)
    <3> HIDE DEF a, g
    <3> QED BY <1>4, <1>6, <1>9, <2>1, TurnPasses
  <2> QED BY <1>4, <1>9, <2>2 DEF WithinTurn
<1>10. CASE acc.rest = <<>> /\ SN(n) # acc.start
  <2>1. v < n
    <3>1. v # n
      BY <1>3, <1>10
    <3> QED BY <1>1, <1>2, <3>1
  <2>2. Turned(q, w, i + 1, n + 1, g)
    <3> HIDE DEF a, g
    <3>1. v =< n
      BY <1>1, <2>1
    <3> QED BY <1>4, <1>7, <1>10, <3>1, TurnPasses
  <2>3. Turned(q, w, i + 1, v, Hold(acc, n))
    BY <2>1, TurnHolds
  <2> QED BY <1>4, <1>10, <2>2, <2>3 DEF WithinTurn
<1> QED BY <1>8, <1>9, <1>10

\* A turn of the second, over frames near the window on either side of it.
LEMMA AheadTurned ==
  ASSUME NEW q, NEW w \in Nat, NEW i \in Nat, NEW v \in Nat, NEW acc, Held(q, w),
         i + 1 =< Len(q), Turned(q, w, i, v, acc)
  PROVE  /\ \E u \in Nat : Turned(q, w, i + 1, u, AheadTurn(acc, q[i + 1]))
         /\ AheadTurn(acc, q[i + 1]).gave = acc.gave
<1> DEFINE n == q[i + 1]
           a == Advanced(acc, n)
           g == Indicate(acc, n)
<1>1. n \in Nat /\ Near(v, n)
  BY NextHeld
<1>2. acc \in LoopStates /\ acc.start = SN(v) /\ acc.out \in Seq(Nat)
  BY DEF Turned, LoopStates
<1>3. n + 1 \in Nat /\ Next12(SN(n)) = SN(n + 1) /\ SN(n + 1) \in Sns
  <2> HIDE DEF n
  <2>1. n + 1 \in Nat
    BY <1>1
  <2> QED BY <1>1, <2>1, NextSn
<1>4. Append(acc.out, n) \in Seq(Nat)
  BY <1>1, <1>2, OneMore
<1>5. g \in LoopStates /\ g.start = SN(v) /\ g.out = Append(acc.out, n) /\ g.rest = acc.rest
      /\ g.gave = acc.gave
  BY <1>2, <1>4 DEF Indicate, LoopStates
<1>6. a \in LoopStates /\ a.start = SN(n + 1) /\ a.out = Append(acc.out, n) /\ a.rest = acc.rest
      /\ a.gave = acc.gave
  BY <1>2, <1>3, <1>4 DEF Advanced, Indicate, LoopStates
<1>7. Near(n, v)
  BY <1>1 DEF Near
<1>8. /\ SN(n) = SN(v) <=> n = v
      /\ Less(SN(n), SN(v)) <=> n < v
  BY <1>1, <1>7, TrueOrder
<1>13. AheadTurn(acc, n).gave = acc.gave
  BY <1>2, <1>5, <1>6 DEF AheadTurn, Hold, LoopStates
<1>9. CASE acc.rest # <<>>
  <2>1. Turned(q, w, i + 1, v, Hold(acc, n))
    BY <1>9, TurnHolds
  <2> QED BY <1>9, <2>1, <1>13 DEF AheadTurn
<1>10. CASE acc.rest = <<>> /\ SN(n) = acc.start
  <2>1. v = n
    BY <1>2, <1>8, <1>10
  <2>2. Turned(q, w, i + 1, n + 1, a)
    <3> HIDE DEF a, g
    <3> QED BY <1>3, <1>6, <1>10, <2>1, TurnPasses
  <2> QED BY <1>3, <1>10, <2>2, <1>13 DEF AheadTurn
<1>11. CASE acc.rest = <<>> /\ SN(n) # acc.start /\ Less(SN(n), acc.start)
  <2>1. n < v
    BY <1>2, <1>8, <1>11
  <2>2. Turned(q, w, i + 1, v, g)
    <3> HIDE DEF a, g
    <3> QED BY <1>5, <1>11, <2>1, TurnPasses
  <2> QED BY <1>11, <2>2, <1>13 DEF AheadTurn
<1>12. CASE acc.rest = <<>> /\ SN(n) # acc.start /\ ~Less(SN(n), acc.start)
  <2>1. v < n
    BY <1>1, <1>2, <1>8, <1>12
  <2>2. Turned(q, w, i + 1, v, Hold(acc, n))
    BY <2>1, TurnHolds
  <2> QED BY <1>12, <2>2, <1>13 DEF AheadTurn
<1> QED BY <1>9, <1>10, <1>11, <1>12, <1>13

\* What the first loop comes to.
LEMMA WithinResult ==
  ASSUME NEW q, NEW w \in Nat, NEW timeout \in BOOLEAN, Held(q, w),
         \A j \in 1 .. Len(q) : w =< q[j]
  PROVE  \E v \in Nat : Turned(q, w, Len(q), v, WithinLoop(SN(w), timeout, q))
<1>1. q \in Seq(Nat) /\ Len(q) \in Nat
  BY LenProperties DEF Held
<1>2. PICK turn :
        /\ turn[0] = Begin(SN(w), timeout)
        /\ \A i \in 0 .. Len(q) - 1 : turn[i + 1] = WithinTurn(turn[i], q[i + 1])
        /\ WithinLoop(SN(w), timeout, q) = turn[Len(q)]
  BY <1>1, WithinTurns
<1> DEFINE S == {i \in 0 .. Len(q) : \E v \in Nat : Turned(q, w, i, v, turn[i])}
<1>3. 0 \in S
  <2>1. Turned(q, w, 0, w, turn[0])
    BY <1>2, BeginTurned
  <2> QED BY <1>1, <2>1
<1>4. ASSUME NEW i \in 0 .. Len(q) - 1, i \in S PROVE i + 1 \in S
  <2>1. i \in Nat /\ i + 1 =< Len(q) /\ i + 1 \in 0 .. Len(q)
    BY <1>1
  <2>2. PICK v \in Nat : Turned(q, w, i, v, turn[i])
    BY <1>4
  <2>3. \E u \in Nat : Turned(q, w, i + 1, u, WithinTurn(turn[i], q[i + 1]))
    BY <2>1, <2>2, WithinTurned
  <2>4. turn[i + 1] = WithinTurn(turn[i], q[i + 1])
    BY <1>2
  <2> QED BY <2>1, <2>3, <2>4
<1>5. Len(q) \in 0 .. Len(q)
  BY <1>1
<1> HIDE DEF S
<1>6. Len(q) \in S
  BY <1>1, <1>3, <1>4, <1>5, UpTo
<1> USE DEF S
<1> QED BY <1>2, <1>6

\* And the second.
LEMMA AheadResult ==
  ASSUME NEW q, NEW w \in Nat, Held(q, w)
  PROVE  /\ \E v \in Nat : Turned(q, w, Len(q), v, AheadLoop(SN(w), q))
         /\ AheadLoop(SN(w), q).gave = 0
<1>1. q \in Seq(Nat) /\ Len(q) \in Nat
  BY LenProperties DEF Held
<1>2. PICK turn :
        /\ turn[0] = Begin(SN(w), FALSE)
        /\ \A i \in 0 .. Len(q) - 1 : turn[i + 1] = AheadTurn(turn[i], q[i + 1])
        /\ AheadLoop(SN(w), q) = turn[Len(q)]
  BY <1>1, AheadTurns
<1> DEFINE S == {i \in 0 .. Len(q) : /\ turn[i].gave = 0
                                  /\ \E v \in Nat : Turned(q, w, i, v, turn[i])}
<1>3. 0 \in S
  <2>1. Turned(q, w, 0, w, turn[0])
    BY <1>2, BeginTurned
  <2>2. turn[0].gave = 0
    BY <1>2 DEF Begin
  <2> QED BY <1>1, <2>1, <2>2
<1>4. ASSUME NEW i \in 0 .. Len(q) - 1, i \in S PROVE i + 1 \in S
  <2>1. i \in Nat /\ i + 1 =< Len(q) /\ i + 1 \in 0 .. Len(q)
    BY <1>1
  <2>2. PICK v \in Nat : turn[i].gave = 0 /\ Turned(q, w, i, v, turn[i])
    BY <1>4
  <2>3. /\ \E u \in Nat : Turned(q, w, i + 1, u, AheadTurn(turn[i], q[i + 1]))
        /\ AheadTurn(turn[i], q[i + 1]).gave = turn[i].gave
    BY <2>1, <2>2, AheadTurned
  <2>4. turn[i + 1] = AheadTurn(turn[i], q[i + 1])
    BY <1>2
  <2> QED BY <2>1, <2>2, <2>3, <2>4
<1>5. Len(q) \in 0 .. Len(q)
  BY <1>1
<1> HIDE DEF S
<1>6. Len(q) \in S
  BY <1>1, <1>3, <1>4, <1>5, UpTo
<1> USE DEF S
<1> QED BY <1>2, <1>6

-----------------------------------------------------------------------------
(* The list of frames held.                                                *)

\* Two lists, one behind the other.
LEMMA Joined ==
  ASSUME NEW s \in Seq(Nat), NEW t \in Seq(Nat)
  PROVE  /\ s \o t \in Seq(Nat)
         /\ \A m : Has(s \o t, m) <=> Has(s, m) \/ Has(t, m)
         /\ (/\ Ascending(s) /\ Ascending(t)
             /\ \A i \in 1 .. Len(s), j \in 1 .. Len(t) : s[i] < t[j])
            => Ascending(s \o t)
<1> DEFINE r == s \o t
<1>1. /\ r \in Seq(Nat) /\ Len(s) \in Nat /\ Len(t) \in Nat /\ Len(r) = Len(s) + Len(t)
      /\ \A i \in 1 .. Len(r) : r[i] = IF i =< Len(s) THEN s[i] ELSE t[i - Len(s)]
  BY ConcatProperties, LenProperties
<1> HIDE DEF r
<1>2. \A i \in 1 .. Len(s) : i \in 1 .. Len(r) /\ r[i] = s[i]
  BY <1>1
<1>3. \A i \in 1 .. Len(t) : Len(s) + i \in 1 .. Len(r) /\ r[Len(s) + i] = t[i]
  <2> TAKE i \in 1 .. Len(t)
  <2>1. Len(s) + i \in 1 .. Len(r) /\ ~(Len(s) + i =< Len(s)) /\ Len(s) + i - Len(s) = i
    BY <1>1
  <2> QED BY <1>1, <2>1
<1>4. \A i \in 1 .. Len(r) : \/ i \in 1 .. Len(s) /\ r[i] = s[i]
                             \/ i - Len(s) \in 1 .. Len(t) /\ r[i] = t[i - Len(s)]
  BY <1>1
<1>5. \A m : Has(r, m) <=> Has(s, m) \/ Has(t, m)
  BY <1>2, <1>3, <1>4 DEF Has
<1>6. ASSUME Ascending(s), Ascending(t),
             \A i \in 1 .. Len(s), j \in 1 .. Len(t) : s[i] < t[j]
      PROVE  Ascending(r)
  <2>1. ASSUME NEW i \in 1 .. Len(r), NEW j \in 1 .. Len(r), i < j PROVE r[i] < r[j]
    <3>1. CASE i \in 1 .. Len(s) /\ r[i] = s[i] /\ j \in 1 .. Len(s) /\ r[j] = s[j]
      BY <1>6, <2>1, <3>1 DEF Ascending
    <3>2. CASE i \in 1 .. Len(s) /\ r[i] = s[i] /\ j - Len(s) \in 1 .. Len(t) /\ r[j] = t[j - Len(s)]
      BY <1>6, <3>2
    <3>3. CASE i - Len(s) \in 1 .. Len(t) /\ r[i] = t[i - Len(s)]
      <4>1. j - Len(s) \in 1 .. Len(t) /\ r[j] = t[j - Len(s)] /\ i - Len(s) < j - Len(s)
        BY <1>1, <2>1, <3>3
      <4> QED BY <1>6, <3>3, <4>1 DEF Ascending
    <3> QED BY <1>4, <3>1, <3>2, <3>3
  <2> QED BY <2>1 DEF Ascending
<1> QED BY <1>1, <1>5, <1>6 DEF r

\* A part of a list in order is in order.
LEMMA PartAscends ==
  ASSUME NEW q \in Seq(Nat), Ascending(q), NEW a \in Nat \ {0}, NEW b \in Int, b =< Len(q)
  PROVE  /\ SubSeq(q, a, b) \in Seq(Nat) /\ Ascending(SubSeq(q, a, b))
         /\ \A m : Has(SubSeq(q, a, b), m) <=> \E k \in a .. b : q[k] = m
<1> DEFINE s == SubSeq(q, a, b)
<1>1. Len(q) \in Nat /\ \A k \in 1 .. Len(q) : q[k] \in Nat
  BY LenProperties, ElementOfSeq
<1>2. \A k \in a .. b : k \in 1 .. Len(q) /\ q[k] \in Nat
  BY <1>1
<1>3. /\ s \in Seq(Nat) /\ Len(s) = IF a =< b THEN b - a + 1 ELSE 0
      /\ \A i \in 1 .. b - a + 1 : s[i] = q[a + i - 1]
  BY <1>2, SubSeqProperties
<1> HIDE DEF s
<1>4. \A i \in 1 .. Len(s) : a + i - 1 \in a .. b /\ s[i] = q[a + i - 1]
  BY <1>3
<1>5. \A k \in a .. b : k - a + 1 \in 1 .. Len(s) /\ s[k - a + 1] = q[k]
  <2> TAKE k \in a .. b
  <2>1. k - a + 1 \in 1 .. b - a + 1 /\ a + (k - a + 1) - 1 = k /\ Len(s) = b - a + 1
    BY <1>3
  <2> QED BY <1>3, <2>1
<1>6. ASSUME NEW i \in 1 .. Len(s), NEW j \in 1 .. Len(s), i < j PROVE s[i] < s[j]
  <2>1. a + i - 1 \in 1 .. Len(q) /\ a + j - 1 \in 1 .. Len(q) /\ a + i - 1 < a + j - 1
    BY <1>2, <1>3, <1>4, <1>6
  <2> QED BY <1>4, <2>1 DEF Ascending
<1>7. \A m : Has(s, m) <=> \E k \in a .. b : q[k] = m
  BY <1>4, <1>5 DEF Has
<1> QED BY <1>3, <1>6, <1>7 DEF Ascending, s

\* A frame near those held goes to its place among them, once.
LEMMA Inserted ==
  ASSUME NEW q \in Seq(Nat), NEW n \in Nat, Ascending(q),
         \A j \in 1 .. Len(q) : Near(n, q[j])
  PROVE  /\ Insert(n, q) \in Seq(Nat) /\ Ascending(Insert(n, q))
         /\ \A m : Has(Insert(n, q), m) <=> Has(q, m) \/ m = n
<1> DEFINE M == Meets(n, q)
<1>1. Len(q) \in Nat /\ DOMAIN q = 1 .. Len(q) /\ \A k \in 1 .. Len(q) : q[k] \in Nat
  BY LenProperties, ElementOfSeq
<1>2. ASSUME NEW k \in 1 .. Len(q)
      PROVE  /\ SN(q[k]) = SN(n) <=> q[k] = n
             /\ Less(SN(n), SN(q[k])) <=> n < q[k]
  <2>1. q[k] \in Nat /\ Near(n, q[k])
    BY <1>1
  <2> QED BY <2>1, TrueOrder
<1>3. M = {k \in 1 .. Len(q) : n =< q[k]}
  <2>1. \A k \in 1 .. Len(q) : (SN(q[k]) = SN(n) \/ Less(SN(n), SN(q[k]))) <=> n =< q[k]
    BY <1>1, <1>2
  <2> QED BY <1>1, <2>1 DEF Meets
<1> HIDE DEF M
<1>4. CASE M = {}
  <2>1. Insert(n, q) = Append(q, n)
    BY <1>4 DEF Insert, M
  <2>2. \A k \in 1 .. Len(q) : q[k] < n
    BY <1>1, <1>3, <1>4
  <2> QED BY <2>1, <2>2, OneMore, OneMoreAbove, OneMoreHas
<1>5. CASE M # {}
  <2> DEFINE i == CHOOSE i \in M : \A j \in M : i =< j
  <2>1. Insert(n, q) = IF SN(q[i]) = SN(n) THEN q ELSE InsertAt(q, i, n)
    BY <1>5 DEF Insert, M
  <2>2. \E k \in M : \A j \in M : k =< j
    <3>1. M \subseteq Nat
      BY <1>3
    <3> QED BY <1>5, <3>1, LeastOf
  <2>3. i \in M /\ \A j \in M : i =< j
    BY <2>2
  <2> HIDE DEF i
  <2>4. i \in 1 .. Len(q) /\ n =< q[i] /\ \A k \in 1 .. i - 1 : q[k] < n
    BY <1>1, <1>3, <2>3
  <2>5. CASE q[i] = n
    <3>1. Insert(n, q) = q
      BY <2>1, <2>5
    <3> QED BY <2>4, <2>5, <3>1 DEF Has
  <2>6. CASE q[i] # n
    <3> DEFINE a == SubSeq(q, 1, i - 1)
               b == SubSeq(q, i, Len(q))
    <3>1. Insert(n, q) = a \o <<n>> \o b
      BY <1>2, <2>1, <2>4, <2>6 DEF InsertAt
    <3>2. /\ a \in Seq(Nat) /\ Ascending(a)
          /\ \A m : Has(a, m) <=> \E k \in 1 .. i - 1 : q[k] = m
      <4>1. i - 1 \in Int /\ i - 1 =< Len(q) /\ 1 \in Nat \ {0}
        BY <1>1, <2>4
      <4> QED BY <4>1, PartAscends
    <3>3. /\ b \in Seq(Nat) /\ Ascending(b)
          /\ \A m : Has(b, m) <=> \E k \in i .. Len(q) : q[k] = m
      <4>1. i \in Nat \ {0} /\ Len(q) \in Int /\ Len(q) =< Len(q)
        BY <1>1, <2>4
      <4> QED BY <4>1, PartAscends
    <3> HIDE DEF a, b
    <3>4. /\ <<n>> \in Seq(Nat) /\ Len(<<n>>) = 1 /\ <<n>>[1] = n
          /\ Ascending(<<n>>) /\ \A m : Has(<<n>>, m) <=> m = n
      BY DEF Ascending, Has
    <3>5. \A j \in 1 .. Len(a) : a[j] < n
      <4> TAKE j \in 1 .. Len(a)
      <4>1. Has(a, a[j])
        BY DEF Has
      <4> QED BY <2>4, <3>2, <4>1
    <3>6. \A j \in 1 .. Len(b) : n < b[j]
      <4> TAKE j \in 1 .. Len(b)
      <4>1. Has(b, b[j])
        BY DEF Has
      <4>2. PICK k \in i .. Len(q) : q[k] = b[j]
        BY <3>3, <4>1
      <4>3. q[i] =< q[k]
        BY <1>1, <2>4 DEF Ascending
      <4> QED BY <1>1, <2>4, <2>6, <4>2, <4>3
    <3>7. /\ a \o <<n>> \in Seq(Nat) /\ Ascending(a \o <<n>>)
          /\ \A m : Has(a \o <<n>>, m) <=> Has(a, m) \/ m = n
      <4> DEFINE one == <<n>>
      <4>1. /\ one \in Seq(Nat) /\ Ascending(one) /\ \A m : Has(one, m) <=> m = n
            /\ \A j \in 1 .. Len(one) : one[j] = n
        BY <3>4
      <4> HIDE DEF one
      <4>2. \A j \in 1 .. Len(a), k \in 1 .. Len(one) : a[j] < one[k]
        BY <3>5, <4>1
      <4>3. /\ a \o one \in Seq(Nat) /\ Ascending(a \o one)
            /\ \A m : Has(a \o one, m) <=> Has(a, m) \/ Has(one, m)
        BY <3>2, <4>1, <4>2, Joined
      <4> QED BY <4>1, <4>3 DEF one
    <3>8. ASSUME NEW j \in 1 .. Len(a \o <<n>>), NEW k \in 1 .. Len(b)
          PROVE  (a \o <<n>>)[j] < b[k]
      <4>1. Has(a \o <<n>>, (a \o <<n>>)[j])
        BY DEF Has
      <4>2. (a \o <<n>>)[j] = n \/ Has(a, (a \o <<n>>)[j])
        BY <3>7, <4>1
      <4>3. (a \o <<n>>)[j] \in Nat /\ (a \o <<n>>)[j] =< n
        BY <3>5, <3>7, <4>2, ElementOfSeq DEF Has
      <4>4. b[k] \in Nat
        BY <3>3, ElementOfSeq
      <4> QED BY <3>6, <4>3, <4>4
    <3>9. /\ a \o <<n>> \o b \in Seq(Nat) /\ Ascending(a \o <<n>> \o b)
          /\ \A m : Has(a \o <<n>> \o b, m) <=> Has(a, m) \/ m = n \/ Has(b, m)
      BY <3>3, <3>7, <3>8, Joined
    <3>10. \A m : Has(q, m) <=> Has(a, m) \/ Has(b, m)
      <4>1. \A k \in 1 .. Len(q) : k \in 1 .. i - 1 \/ k \in i .. Len(q)
        BY <1>1, <2>4
      <4>2. \A k \in 1 .. i - 1 : k \in 1 .. Len(q)
        BY <1>1, <2>4
      <4>3. \A k \in i .. Len(q) : k \in 1 .. Len(q)
        BY <1>1, <2>4
      <4> QED BY <3>2, <3>3, <4>1, <4>2, <4>3 DEF Has
    <3> QED BY <3>1, <3>9, <3>10
  <2> QED BY <2>5, <2>6
<1> QED BY <1>4, <1>5

-----------------------------------------------------------------------------
(* The agreement.                                                          *)

Entries == [valid : BOOLEAN, start : Sns, end : Sns, waiting : BOOLEAN]

RxTypes ==
  /\ ba \in Entries /\ queue \in Seq(Nat) /\ host \in Seq(Nat)
  /\ miss \in {"off", "running", "expired"}
  /\ dropped \subseteq Nat /\ passed \in Nat
  /\ base \in Nat /\ first \in Nat /\ seen \in Nat

\* The window starts at frame w: what went up is below it, what is held above
\* it and within reach, the sender is not far, and once the first frame of the
\* agreement has come, whatever the sender has in the air below the window
\* went up or is below a hole given up.
At(w) ==
  /\ ba.start = SN(w) /\ ba.end = WinEnd(SN(w))
  /\ \A j \in 1 .. Len(host) : host[j] < w
  /\ \A j \in 1 .. Len(queue) : w < queue[j] /\ queue[j] < w + RxWinSize /\ queue[j] < seen
  /\ w =< seen /\ seen =< w + RxWinSize
  /\ ba.waiting => queue = <<>> /\ (w =< base \/ w =< first)
  /\ base < first => ba.waiting /\ w = first /\ base + 1 = first /\ host = <<>>
  /\ ~ba.waiting => \A m \in Nat : base =< m /\ m < w => m < passed \/ Has(host, m)

RxInd ==
  /\ RxTypes
  /\ Ascending(queue) /\ Ascending(host)
  /\ seen =< base + Buf /\ base =< seen + MaxGap
  /\ \A n \in dropped : n < passed
  /\ ba.valid => \E w \in Nat : At(w)
  /\ ~ba.valid => queue = <<>>

\* The end of a window is a sequence number.
LEMMA EndIsSn ==
  ASSUME NEW w \in Nat
  PROVE  SN(w) \in Sns /\ WinEnd(SN(w)) \in Sns
<1>1. SN(w) \in Sns
  BY NextSn
<1> QED BY <1>1, EndOfWindow, CircleSize DEF Sns

\* A loop over the frames q, begun with the start of the entry e at frame w,
\* leaves it at frame v.
Popped(e, q, w, v) ==
  /\ ba' = [e EXCEPT !.start = SN(v), !.end = WinEnd(SN(v))]
  /\ w =< v
  /\ v = w \/ \E k \in 1 .. Len(q) : v = q[k] + 1
  /\ queue' \in Seq(Nat) /\ Ascending(queue')
  /\ \A j \in 1 .. Len(queue') : v < queue'[j] /\ Has(q, queue'[j])
  /\ host' \in Seq(Nat) /\ Ascending(host')
  /\ \A j \in 1 .. Len(host') : host'[j] < v
  /\ \A m : Has(host, m) => Has(host', m)

\* The end of a loop gives that.
LEMMA LoopEnds ==
  ASSUME NEW e, NEW q, NEW w \in Nat, NEW v \in Nat, NEW r, Held(q, w), Turned(q, w, Len(q), v, r),
         host \in Seq(Nat), Ascending(host), \A j \in 1 .. Len(host) : host[j] < w,
         \A i \in 1 .. Len(host), j \in 1 .. Len(q) : host[i] < q[j],
         ba' = Window(e, r), queue' = r.rest, host' = host \o r.out
  PROVE  /\ Popped(e, q, w, v)
         /\ \A m \in Nat : w =< m /\ m < v => m < r.gave \/ Has(host', m)
<1>1. /\ r \in LoopStates /\ r.start = SN(v) /\ w =< v
      /\ v = w \/ \E k \in 1 .. Len(q) : v = q[k] + 1
      /\ Ascending(r.out) /\ From(r.out, q, Len(q)) /\ \A j \in 1 .. Len(r.out) : r.out[j] < v
      /\ Ascending(r.rest) /\ From(r.rest, q, Len(q)) /\ \A j \in 1 .. Len(r.rest) : v < r.rest[j]
      /\ \A m \in Nat : w =< m /\ m < v => m < r.gave \/ Has(r.out, m)
  BY DEF Turned
<1>2. r.out \in Seq(Nat) /\ r.rest \in Seq(Nat)
  BY <1>1 DEF LoopStates
<1>3. \A i \in 1 .. Len(host), j \in 1 .. Len(r.out) : host[i] < r.out[j]
  BY <1>1 DEF From
<1>4. /\ host' \in Seq(Nat) /\ Ascending(host')
      /\ \A m : Has(host', m) <=> Has(host, m) \/ Has(r.out, m)
  BY <1>1, <1>2, <1>3, Joined
<1>5. \A j \in 1 .. Len(host') : host'[j] < v
  <2> TAKE j \in 1 .. Len(host')
  <2>1. Has(host', host'[j])
    BY DEF Has
  <2>2. Has(host, host'[j]) \/ Has(r.out, host'[j])
    BY <1>4, <2>1
  <2>3. host'[j] \in Nat
    BY <1>4, ElementOfSeq
  <2>4. Has(host, host'[j]) => host'[j] < w
    BY DEF Has
  <2>5. Has(r.out, host'[j]) => host'[j] < v
    BY <1>1 DEF Has
  <2> QED BY <1>1, <2>2, <2>3, <2>4, <2>5
<1>6. \A j \in 1 .. Len(queue') : v < queue'[j] /\ Has(q, queue'[j])
  BY <1>1 DEF From, Has
<1>7. ba' = [e EXCEPT !.start = SN(v), !.end = WinEnd(SN(v))]
  BY <1>1 DEF Window
<1>8. \A m : Has(host, m) => Has(host', m)
  BY <1>4
<1>9. \A m \in Nat : w =< m /\ m < v => m < r.gave \/ Has(host', m)
  BY <1>1, <1>4
<1> QED BY <1>1, <1>2, <1>4, <1>5, <1>6, <1>7, <1>8, <1>9 DEF Popped

\* qmPopOutDueToFallWithin.
LEMMA WithinPops ==
  ASSUME NEW e, NEW q, NEW w \in Nat, NEW skip \in Nat, Held(q, w), e.start = SN(w),
         \A j \in 1 .. Len(q) : w =< q[j],
         host \in Seq(Nat), Ascending(host), \A j \in 1 .. Len(host) : host[j] < w,
         PopWithin(e, q, skip)
  PROVE  /\ passed' \in Nat /\ skip =< passed'
         /\ \E v \in Nat : /\ Popped(e, q, w, v)
                           /\ \A m \in Nat : w =< m /\ m < v => m < passed' \/ Has(host', m)
<1> DEFINE t == miss = "expired"
           r == WithinLoop(SN(w), t, q)
<1>1. t \in BOOLEAN
  OBVIOUS
<1>2. /\ ba' = Window(e, r) /\ queue' = r.rest /\ host' = host \o r.out
      /\ passed' = IF r.gave > skip THEN r.gave ELSE skip
  BY DEF PopWithin
<1> HIDE DEF t
<1>3. PICK v \in Nat : Turned(q, w, Len(q), v, r)
  BY <1>1, WithinResult
<1> HIDE DEF r
<1>4. r.gave \in Nat
  BY <1>3 DEF Turned, LoopStates
<1>5. passed' \in Nat /\ skip =< passed' /\ r.gave =< passed'
  BY <1>2, <1>4
<1>6. \A i \in 1 .. Len(host), j \in 1 .. Len(q) : host[i] < q[j]
  <2>1. \A i \in 1 .. Len(host) : host[i] \in Nat
    BY ElementOfSeq
  <2>2. \A j \in 1 .. Len(q) : q[j] \in Nat
    BY ElementOfSeq DEF Held
  <2> QED BY <2>1, <2>2
<1>7. /\ Popped(e, q, w, v)
      /\ \A m \in Nat : w =< m /\ m < v => m < r.gave \/ Has(host', m)
  BY <1>2, <1>3, <1>6, LoopEnds
<1>8. \A m \in Nat : w =< m /\ m < v => m < passed' \/ Has(host', m)
  BY <1>4, <1>5, <1>7
<1> QED BY <1>5, <1>7, <1>8

\* qmPopOutDueToFallAhead.
LEMMA AheadPops ==
  ASSUME NEW e, NEW q, NEW w \in Nat, Held(q, w), e.start = SN(w),
         host \in Seq(Nat), Ascending(host), \A j \in 1 .. Len(host) : host[j] < w,
         \A i \in 1 .. Len(host), j \in 1 .. Len(q) : host[i] < q[j],
         PopAhead(e, q)
  PROVE  \E v \in Nat : /\ Popped(e, q, w, v)
                        /\ \A m \in Nat : w =< m /\ m < v => Has(host', m)
<1> DEFINE r == AheadLoop(SN(w), q)
<1>1. ba' = Window(e, r) /\ queue' = r.rest /\ host' = host \o r.out
  BY DEF PopAhead
<1>2. r.gave = 0 /\ \E v \in Nat : Turned(q, w, Len(q), v, r)
  BY AheadResult
<1> HIDE DEF r
<1>3. PICK v \in Nat : Turned(q, w, Len(q), v, r)
  BY <1>2
<1>4. /\ Popped(e, q, w, v)
      /\ \A m \in Nat : w =< m /\ m < v => m < r.gave \/ Has(host', m)
  BY <1>1, <1>3, LoopEnds
<1> QED BY <1>2, <1>4

\* The sender's frames are near the window.
LEMMA SenderNear ==
  ASSUME RxInd, NEW w \in Nat, At(w), NEW n \in Nat, base =< n, n < base + Buf
  PROVE  Near(w, n) /\ n + 1 =< w + Half
<1>1. /\ base \in Nat /\ seen \in Nat /\ seen =< base + Buf /\ base =< seen + MaxGap
      /\ w =< seen /\ seen =< w + RxWinSize
  BY DEF RxInd, RxTypes, At
<1> QED BY <1>1, CircleSize DEF Near

\* What the sender shows of a frame.
LEMMA SeenIs ==
  ASSUME RxTypes, NEW n \in Int, Seen(n)
  PROVE  /\ seen' \in Nat /\ seen =< seen' /\ n < seen'
         /\ seen' = seen \/ seen' = n + 1
BY DEF RxTypes, Seen

\* The frames held are near any frame the window may start at next.
LEMMA HeldNear ==
  ASSUME RxInd, NEW w \in Nat, At(w), NEW u \in Nat, w =< u, u =< w + Half
  PROVE  /\ Held(queue, u)
         /\ \A i \in 1 .. Len(host), j \in 1 .. Len(queue) : host[i] < queue[j]
<1>1. /\ queue \in Seq(Nat) /\ Ascending(queue)
      /\ \A j \in 1 .. Len(queue) : queue[j] \in Nat
      /\ \A i \in 1 .. Len(host) : host[i] \in Nat
  BY ElementOfSeq DEF RxInd, RxTypes
<1>2. /\ \A i \in 1 .. Len(host) : host[i] < w
      /\ \A j \in 1 .. Len(queue) : w < queue[j] /\ queue[j] < w + RxWinSize
  BY DEF At
<1>3. \A j \in 1 .. Len(queue) : Near(u, queue[j])
  BY <1>1, <1>2, CircleSize DEF Near
<1> QED BY <1>1, <1>2, <1>3 DEF Held

\* Case 1, a frame within: what the loop is called with.
LEMMA WithinCall ==
  ASSUME RxInd, ba.valid, base >= first, NEW w \in Nat, At(w),
         NEW n \in Nat, base =< n, n < base + Buf, w =< n, n < w + RxWinSize,
         FallWithin(n), Seen(n)
  PROVE  \E e \in Entries, q \in Seq(Nat), u, skip \in Nat :
           /\ PopWithin(e, q, skip) /\ e.start = SN(u) /\ e.valid /\ ~e.waiting
           /\ w =< u /\ u =< n /\ passed =< skip
           /\ Held(q, u)
           /\ \A j \in 1 .. Len(q) : u =< q[j] /\ q[j] < u + RxWinSize /\ q[j] < seen'
           /\ \A m \in Nat : base =< m /\ m < u => m < skip \/ Has(host, m)
<1> DEFINE e == IF ba.waiting THEN [ba EXCEPT !.start = SN(n), !.waiting = FALSE] ELSE ba
           q == Insert(n, queue)
           u == IF ba.waiting THEN n ELSE w
           skip == IF ba.waiting /\ n > passed THEN n ELSE passed
<1>1. PopWithin(e, q, skip)
  BY DEF FallWithin
<1>2. /\ ba \in Entries /\ queue \in Seq(Nat) /\ Ascending(queue) /\ passed \in Nat /\ RxTypes
      /\ ba.start = SN(w) /\ (ba.waiting => queue = <<>>) /\ seen \in Nat
      /\ \A j \in 1 .. Len(queue) : w < queue[j] /\ queue[j] < w + RxWinSize /\ queue[j] < seen
      /\ ~ba.waiting => \A m \in Nat : base =< m /\ m < w => m < passed \/ Has(host, m)
  BY DEF RxInd, RxTypes, At
<1>3. SN(n) \in Sns
  BY NextSn
<1>4. e \in Entries /\ e.valid /\ ~e.waiting /\ e.start = SN(u)
  BY <1>2, <1>3 DEF Entries
<1>5. skip \in Nat /\ passed =< skip /\ u \in Nat /\ w =< u /\ u =< n
  BY <1>2
<1>6. \A j \in 1 .. Len(queue) : queue[j] \in Nat /\ Near(n, queue[j])
  <2>1. \A j \in 1 .. Len(queue) : queue[j] \in Nat
    BY <1>2, ElementOfSeq
  <2> QED BY <1>2, <2>1, CircleSize DEF Near
<1>7. /\ q \in Seq(Nat) /\ Ascending(q)
      /\ \A m : Has(q, m) <=> Has(queue, m) \/ m = n
  BY <1>2, <1>6, Inserted
<1>8. seen' \in Nat /\ seen =< seen' /\ n < seen'
  BY <1>2, SeenIs
<1>9. ba.waiting => \A m : ~Has(queue, m)
  BY <1>2, EmptySeq DEF Has
<1>10. \A m \in Nat : base =< m /\ m < u => m < skip \/ Has(host, m)
  <2>1. CASE ba.waiting
    BY <1>2, <2>1
  <2>2. CASE ~ba.waiting
    BY <1>2, <2>2
  <2> QED BY <2>1, <2>2
<1>11. \A j \in 1 .. Len(q) : q[j] \in Nat /\ u =< q[j] /\ q[j] < u + RxWinSize /\ q[j] < seen'
  <2> TAKE j \in 1 .. Len(q)
  <2>1. Has(q, q[j])
    BY DEF Has
  <2>2. CASE q[j] = n
    BY <1>5, <1>8, <2>2, CircleSize
  <2>3. CASE Has(queue, q[j])
    <3>1. ~ba.waiting /\ \E k \in 1 .. Len(queue) : queue[k] = q[j]
      BY <1>9, <2>3 DEF Has
    <3> QED BY <1>2, <1>6, <1>8, <3>1
  <2> QED BY <1>7, <2>1, <2>2, <2>3
<1> HIDE DEF e, q, u, skip
<1>12. Held(q, u)
  <2>1. \A j \in 1 .. Len(q) : Near(u, q[j])
    BY <1>5, <1>11, CircleSize DEF Near
  <2> QED BY <1>7, <2>1 DEF Held
<1> QED BY <1>1, <1>4, <1>5, <1>7, <1>10, <1>11, <1>12

\* What is left to show of a frame that went through a loop.
LEMMA AfterLoop ==
  ASSUME RxInd, NEW e \in Entries, NEW q, NEW u \in Nat, NEW v \in Nat, Popped(e, q, u, v),
         e.valid,
         \A j \in 1 .. Len(q) : q[j] \in Nat /\ q[j] < u + RxWinSize /\ q[j] < seen',
         seen' \in Nat, u =< seen', seen' =< u + RxWinSize
  PROVE  /\ ba' \in Entries /\ ba'.valid /\ ba'.waiting = e.waiting
         /\ queue' \in Seq(Nat) /\ Ascending(queue') /\ host' \in Seq(Nat) /\ Ascending(host')
         /\ ba'.start = SN(v) /\ ba'.end = WinEnd(SN(v)) /\ u =< v
         /\ \A j \in 1 .. Len(host') : host'[j] < v
         /\ \A j \in 1 .. Len(queue') :
              v < queue'[j] /\ queue'[j] < v + RxWinSize /\ queue'[j] < seen'
         /\ v =< seen' /\ seen' =< v + RxWinSize
<1>1. /\ ba' = [e EXCEPT !.start = SN(v), !.end = WinEnd(SN(v))] /\ u =< v
      /\ v = u \/ \E k \in 1 .. Len(q) : v = q[k] + 1
      /\ queue' \in Seq(Nat) /\ Ascending(queue')
      /\ \A j \in 1 .. Len(queue') : v < queue'[j] /\ Has(q, queue'[j])
      /\ host' \in Seq(Nat) /\ Ascending(host')
      /\ \A j \in 1 .. Len(host') : host'[j] < v
  BY DEF Popped
<1>2. SN(v) \in Sns /\ WinEnd(SN(v)) \in Sns
  BY EndIsSn
<1>3. /\ ba' \in Entries /\ ba'.valid /\ ba'.waiting = e.waiting
      /\ ba'.start = SN(v) /\ ba'.end = WinEnd(SN(v))
  BY <1>1, <1>2 DEF Entries
<1>7. u =< v /\ RxWinSize \in Nat
  BY <1>1, CircleSize
<1>4. \A j \in 1 .. Len(queue') :
        v < queue'[j] /\ queue'[j] < v + RxWinSize /\ queue'[j] < seen'
  <2> TAKE j \in 1 .. Len(queue')
  <2>1. v < queue'[j] /\ \E k \in 1 .. Len(q) : q[k] = queue'[j]
    BY <1>1 DEF Has
  <2>2. queue'[j] \in Nat /\ queue'[j] < u + RxWinSize /\ queue'[j] < seen'
    BY <2>1
  <2> QED BY <1>7, <2>1, <2>2
<1>5. v =< seen'
  BY <1>1
<1>6. seen' =< v + RxWinSize
  BY <1>7
<1> QED BY <1>1, <1>3, <1>4, <1>5, <1>6

\* What the driver has seen stays within the sender's bounds.
LEMMA SeenBounds ==
  ASSUME NEW b \in Nat, NEW n \in Nat, NEW s \in Nat, NEW t \in Nat,
         s =< b + Buf, b =< s + MaxGap, n < b + Buf, s =< t, t = s \/ t = n + 1
  PROVE  t =< b + Buf /\ b =< t + MaxGap
<1>1. Buf \in Nat /\ MaxGap \in Nat
  BY CircleSize
<1> QED BY <1>1

\* A frame within.
LEMMA WithinKeeps ==
  ASSUME RxInd, ba.valid, base >= first, NEW w \in Nat, At(w),
         NEW n \in Nat, base =< n, n < base + Buf, w =< n, n < w + RxWinSize,
         FallWithin(n), Seen(n), UNCHANGED <<base, first>>
  PROVE  RxInd'
<1>1. PICK e \in Entries, q \in Seq(Nat), u \in Nat, skip \in Nat :
        /\ PopWithin(e, q, skip) /\ e.start = SN(u) /\ e.valid /\ ~e.waiting
        /\ w =< u /\ u =< n /\ passed =< skip
        /\ Held(q, u)
        /\ \A j \in 1 .. Len(q) : u =< q[j] /\ q[j] < u + RxWinSize /\ q[j] < seen'
        /\ \A m \in Nat : base =< m /\ m < u => m < skip \/ Has(host, m)
  BY WithinCall
<1>2. /\ host \in Seq(Nat) /\ Ascending(host) /\ \A j \in 1 .. Len(host) : host[j] < w
      /\ RxTypes /\ seen =< w + RxWinSize /\ seen =< base + Buf /\ base =< seen + MaxGap
      /\ base \in Nat /\ first \in Nat /\ seen \in Nat /\ passed \in Nat
      /\ dropped \subseteq Nat /\ (\A m \in dropped : m < passed)
  BY DEF RxInd, RxTypes, At
<1>3. \A j \in 1 .. Len(host) : host[j] \in Nat /\ host[j] < u
  BY <1>1, <1>2, ElementOfSeq
<1>4. /\ passed' \in Nat /\ skip =< passed'
      /\ \E v \in Nat : /\ Popped(e, q, u, v)
                        /\ \A m \in Nat : u =< m /\ m < v => m < passed' \/ Has(host', m)
  BY <1>1, <1>2, <1>3, WithinPops
<1>5. PICK v \in Nat : /\ Popped(e, q, u, v)
                       /\ \A m \in Nat : u =< m /\ m < v => m < passed' \/ Has(host', m)
  BY <1>4
<1>6. /\ seen' \in Nat /\ seen =< seen' /\ n < seen' /\ (seen' = seen \/ seen' = n + 1)
  BY <1>2, SeenIs
<1>7. u =< seen' /\ seen' =< u + RxWinSize
  BY <1>1, <1>2, <1>6, CircleSize
<1>8. seen' =< base + Buf /\ base =< seen' + MaxGap
  BY <1>2, <1>6, SeenBounds
<1>9. \A j \in 1 .. Len(q) : q[j] \in Nat
  BY ElementOfSeq
<1>10. /\ ba' \in Entries /\ ba'.valid /\ ba'.waiting = e.waiting
       /\ queue' \in Seq(Nat) /\ Ascending(queue') /\ host' \in Seq(Nat) /\ Ascending(host')
       /\ ba'.start = SN(v) /\ ba'.end = WinEnd(SN(v)) /\ u =< v
       /\ \A j \in 1 .. Len(host') : host'[j] < v
       /\ \A j \in 1 .. Len(queue') :
            v < queue'[j] /\ queue'[j] < v + RxWinSize /\ queue'[j] < seen'
       /\ v =< seen' /\ seen' =< v + RxWinSize
  BY <1>1, <1>5, <1>6, <1>7, <1>9, AfterLoop
<1>11. dropped' = dropped /\ miss' \in {"off", "running", "expired"}
  BY <1>1, <1>2 DEF FallWithin, PopWithin, MissAfter, RxTypes
<1>12. ASSUME NEW m \in Nat, base =< m, m < v PROVE m < passed' \/ Has(host', m)
  <2>1. CASE m < u
    <3>1. m < skip \/ Has(host, m)
      BY <1>1, <1>12, <2>1
    <3>2. Has(host, m) => Has(host', m)
      BY <1>5 DEF Popped
    <3> QED BY <1>4, <3>1, <3>2
  <2>2. CASE u =< m
    BY <1>5, <1>12, <2>2
  <2> QED BY <2>1, <2>2
<1>13. \A m \in dropped' : m < passed'
  <2> TAKE m \in dropped'
  <2>1. m \in Nat /\ m < passed
    BY <1>2, <1>11
  <2> QED BY <1>1, <1>2, <1>4, <2>1
<1>14. RxTypes'
  BY <1>2, <1>4, <1>6, <1>10, <1>11 DEF RxTypes
<1>15. At(v)'
  BY <1>1, <1>2, <1>10, <1>12 DEF At
<1> QED BY <1>8, <1>10, <1>13, <1>14, <1>15 DEF RxInd

\* A frame ahead.
LEMMA AheadKeeps ==
  ASSUME RxInd, ba.valid, base >= first, NEW w \in Nat, At(w),
         NEW n \in Nat, base =< n, n < base + Buf, w + RxWinSize =< n,
         FallAhead(n), Seen(n), UNCHANGED <<base, first>>
  PROVE  RxInd'
<1> DEFINE u == n - RxWinSize + 1
           e == [ba EXCEPT !.waiting = FALSE, !.start = AheadStart(SN(n))]
           q == Append(queue, n)
<1>1. /\ host \in Seq(Nat) /\ Ascending(host) /\ (\A j \in 1 .. Len(host) : host[j] < w)
      /\ queue \in Seq(Nat) /\ Ascending(queue)
      /\ (\A j \in 1 .. Len(queue) : w < queue[j] /\ queue[j] < w + RxWinSize /\ queue[j] < seen)
      /\ RxTypes /\ seen =< w + RxWinSize /\ seen =< base + Buf /\ base =< seen + MaxGap
      /\ base \in Nat /\ first \in Nat /\ seen \in Nat /\ passed \in Nat /\ ba \in Entries
      /\ dropped \subseteq Nat /\ (\A m \in dropped : m < passed)
  BY DEF RxInd, RxTypes, At
<1>2. n + 1 =< w + Half
  BY SenderNear
<1>3. u \in Nat /\ w < u /\ u =< w + Half
  BY <1>2, CircleSize
<1>4. AheadStart(SN(n)) = SN(u) /\ u =< base
  <2>1. n \in base .. base + Buf - 1 /\ n >= RxWinSize
    BY <1>1, CircleSize
  <2> QED BY <1>1, <2>1, AheadSkipsNothing
<1>5. e \in Entries /\ e.valid /\ ~e.waiting /\ e.start = SN(u)
  BY <1>1, <1>3, <1>4, EndIsSn DEF Entries
<1>6. PopAhead(e, q) /\ UNCHANGED <<miss, dropped, passed>>
  BY DEF FallAhead
<1>7. Held(queue, u) /\ \A i \in 1 .. Len(host), j \in 1 .. Len(queue) : host[i] < queue[j]
  BY <1>3, HeldNear
<1>8. /\ q \in Seq(Nat) /\ Len(queue) \in Nat /\ Len(q) = Len(queue) + 1
      /\ \A j \in 1 .. Len(queue) : q[j] = queue[j]
      /\ q[Len(queue) + 1] = n
  BY <1>1, OneMore
<1>9. \A j \in 1 .. Len(queue) : queue[j] \in Nat /\ queue[j] < n
  <2>1. RxWinSize \in Nat /\ \A j \in 1 .. Len(queue) : queue[j] \in Nat
    BY <1>1, CircleSize, ElementOfSeq
  <2> QED BY <1>1, <2>1
<1>10. Ascending(q)
  BY <1>1, <1>9, OneMoreAbove
<1>11. n = u + RxWinSize - 1 /\ Near(u, n)
  BY <1>3, CircleSize DEF Near
<1> HIDE DEF e, q, u
<1>25. \A j \in 1 .. Len(q) : \/ j \in 1 .. Len(queue) /\ q[j] = queue[j]
                              \/ q[j] = n
  BY <1>8
<1>12. Held(q, u)
  <2>1. \A j \in 1 .. Len(q) : Near(u, q[j])
    BY <1>7, <1>11, <1>25 DEF Held
  <2> QED BY <1>8, <1>10, <2>1 DEF Held
<1>13. \A j \in 1 .. Len(host) : host[j] \in Nat /\ host[j] < u /\ host[j] < n
  BY <1>1, <1>3, <1>11, ElementOfSeq, CircleSize
<1>14. \A i \in 1 .. Len(host), j \in 1 .. Len(q) : host[i] < q[j]
  BY <1>7, <1>13, <1>25
<1>15. PICK v \in Nat : /\ Popped(e, q, u, v)
                        /\ \A m \in Nat : u =< m /\ m < v => Has(host', m)
  BY <1>1, <1>3, <1>5, <1>6, <1>12, <1>13, <1>14, AheadPops
<1>16. /\ seen' \in Nat /\ seen =< seen' /\ n < seen' /\ (seen' = seen \/ seen' = n + 1)
  BY <1>1, SeenIs
<1>17. u =< seen' /\ seen' =< u + RxWinSize
  BY <1>1, <1>3, <1>11, <1>16, CircleSize
<1>18. seen' =< base + Buf /\ base =< seen' + MaxGap
  BY <1>1, <1>16, SeenBounds
<1>19. \A j \in 1 .. Len(q) : q[j] \in Nat /\ q[j] < u + RxWinSize /\ q[j] < seen'
  <2>1. RxWinSize \in Nat \ {0} /\ n < u + RxWinSize
    BY <1>3, <1>11, CircleSize
  <2>2. \A j \in 1 .. Len(queue) :
          queue[j] \in Nat /\ queue[j] < u + RxWinSize /\ queue[j] < seen'
    BY <1>1, <1>3, <1>9, <1>16, <2>1
  <2> QED BY <1>16, <1>25, <2>1, <2>2
<1>20. /\ ba' \in Entries /\ ba'.valid /\ ba'.waiting = e.waiting
       /\ queue' \in Seq(Nat) /\ Ascending(queue') /\ host' \in Seq(Nat) /\ Ascending(host')
       /\ ba'.start = SN(v) /\ ba'.end = WinEnd(SN(v)) /\ u =< v
       /\ \A j \in 1 .. Len(host') : host'[j] < v
       /\ \A j \in 1 .. Len(queue') :
            v < queue'[j] /\ queue'[j] < v + RxWinSize /\ queue'[j] < seen'
       /\ v =< seen' /\ seen' =< v + RxWinSize
  BY <1>3, <1>5, <1>15, <1>16, <1>17, <1>19, AfterLoop
<1>21. \A m \in Nat : base =< m /\ m < v => Has(host', m)
  BY <1>1, <1>3, <1>4, <1>15
<1>22. RxTypes'
  BY <1>1, <1>6, <1>16, <1>20 DEF RxTypes
<1>23. At(v)'
  BY <1>1, <1>5, <1>20, <1>21 DEF At
<1>24. \A m \in dropped' : m < passed'
  BY <1>1, <1>6
<1> QED BY <1>18, <1>20, <1>22, <1>23, <1>24 DEF RxInd

\* A frame behind, of the sender's window: it went up before, or a hole above
\* it was given up.
LEMMA BehindKeeps ==
  ASSUME RxInd, ba.valid, base >= first, NEW w \in Nat, At(w),
         NEW n \in Nat, base =< n, n < w,
         FallBehind(n), Seen(n), UNCHANGED <<base, first>>
  PROVE  RxInd'
<1>1. /\ RxTypes /\ base \in Nat /\ first \in Nat /\ seen \in Nat /\ w =< seen
      /\ host \in Seq(Nat) /\ dropped \subseteq Nat
      /\ ba.waiting => w =< base \/ w =< first
      /\ ~ba.waiting => \A m \in Nat : base =< m /\ m < w => m < passed \/ Has(host, m)
      /\ \A m \in dropped : m < passed
  BY DEF RxInd, RxTypes, At
<1>2. ~ba.waiting
  BY <1>1
<1>3. n < passed \/ Has(host, n)
  BY <1>1, <1>2
<1>4. Has(host, n) <=> n \in ToSet(host)
  BY <1>1, LenProperties DEF Has, ToSet
<1>5. /\ UNCHANGED <<ba, queue, miss, passed, host>>
      /\ dropped' \subseteq Nat /\ \A m \in dropped' : m < passed
  BY <1>1, <1>2, <1>3, <1>4 DEF FallBehind
<1>6. seen' = seen
  BY <1>1 DEF Seen
<1>7. RxTypes'
  BY <1>1, <1>5, <1>6 DEF RxTypes
<1>8. At(w)'
  BY <1>5, <1>6 DEF At, Has
<1> QED BY <1>5, <1>6, <1>7, <1>8 DEF RxInd, Ascending

\* A frame of the sender's window.
LEMMA FrameKeeps ==
  ASSUME RxInd, NEW n \in Nat, Frame(n)
  PROVE  RxInd'
<1>1. /\ ba.valid /\ base >= first /\ base =< n /\ n < base + Buf
      /\ ProcessPkt(n) /\ Seen(n) /\ UNCHANGED <<base, first>> /\ base \in Nat
  BY CircleSize DEF Frame, RxInd, RxTypes
<1>2. PICK w \in Nat : At(w)
  BY <1>1 DEF RxInd
<1>3. Near(w, n)
  BY <1>1, <1>2, SenderNear
<1>4. ba.start = SN(w) /\ ba.end = WinEnd(SN(w))
  BY <1>2 DEF At
<1>5. /\ Within(ba.start, ba.end, SN(n)) <=> w =< n /\ n < w + RxWinSize
      /\ ~Within(ba.start, ba.end, SN(n)) => (Ahead(ba.start, ba.end, SN(n)) <=> w + RxWinSize =< n)
  BY <1>3, <1>4, ThreeCases
<1>6. CASE Within(ba.start, ba.end, SN(n)) /\ FallWithin(n)
  BY <1>1, <1>2, <1>5, <1>6, WithinKeeps
<1>7. CASE ~Within(ba.start, ba.end, SN(n)) /\ Ahead(ba.start, ba.end, SN(n)) /\ FallAhead(n)
  BY <1>1, <1>2, <1>5, <1>7, AheadKeeps
<1>8. CASE ~Within(ba.start, ba.end, SN(n)) /\ ~Ahead(ba.start, ba.end, SN(n)) /\ FallBehind(n)
  <2>1. n < w
    BY <1>5, <1>8, CircleSize
  <2> QED BY <1>1, <1>2, <1>8, <2>1, BehindKeeps
<1> QED BY <1>1, <1>6, <1>7, <1>8 DEF ProcessPkt

\* The frame from before the agreement: the last one behind its window.
LEMMA OldFrameKeeps ==
  ASSUME RxInd, NEW n \in Nat, OldFrame(n)
  PROVE  RxInd'
<1>1. /\ ba.valid /\ base < first /\ n = base /\ ProcessPkt(n) /\ Seen(n)
      /\ base' = base + 1 /\ first' = first
  BY DEF OldFrame
<1>2. PICK w \in Nat : At(w)
  BY <1>1 DEF RxInd
<1>3. /\ RxTypes /\ base \in Nat /\ first \in Nat /\ seen \in Nat
      /\ w =< seen /\ seen =< w + RxWinSize /\ seen =< base + Buf
      /\ ba.start = SN(w) /\ ba.end = WinEnd(SN(w))
      /\ ba.waiting /\ w = first /\ base + 1 = first /\ host = <<>> /\ queue = <<>>
      /\ dropped \subseteq Nat /\ (\A m \in dropped : m < passed)
  BY <1>1, <1>2 DEF RxInd, RxTypes, At
<1>4. Near(w, n)
  BY <1>1, <1>3, CircleSize DEF Near
<1>5. /\ Within(ba.start, ba.end, SN(n)) <=> w =< n /\ n < w + RxWinSize
      /\ ~Within(ba.start, ba.end, SN(n)) => (Ahead(ba.start, ba.end, SN(n)) <=> w + RxWinSize =< n)
  BY <1>3, <1>4, ThreeCases
<1>6. n < w
  BY <1>1, <1>3
<1>7. ~(w + RxWinSize =< n)
  BY <1>6, CircleSize
<1>8. FallBehind(n)
  BY <1>1, <1>5, <1>6, <1>7 DEF ProcessPkt
<1>9. host' = Append(<<>>, n) /\ UNCHANGED <<ba, queue, miss, passed, dropped>>
  BY <1>3, <1>8 DEF FallBehind
<1>10. /\ host' \in Seq(Nat) /\ Len(host') = 1 /\ host'[1] = n
  BY <1>9
<1>11. seen' = seen
  BY <1>1, <1>3 DEF Seen
<1>12. Ascending(host') /\ \A j \in 1 .. Len(host') : host'[j] < w
  BY <1>6, <1>10 DEF Ascending
<1>13. base' \in Nat /\ base' = first /\ seen' =< base' + Buf /\ base' =< seen' + MaxGap
  BY <1>1, <1>3, <1>11, CircleSize
<1>14. RxTypes'
  BY <1>1, <1>3, <1>9, <1>10, <1>11, <1>13 DEF RxTypes
<1>15. At(w)'
  <2>1. At(w) /\ w = first
    BY <1>2, <1>3
  <2>2. queue' = <<>> /\ Len(<<>>) = 0
    BY <1>3, <1>9
  <2> QED BY <1>1, <1>3, <1>9, <1>11, <1>12, <1>13, <2>2 DEF At
<1>16. Ascending(queue')
  BY <1>9 DEF RxInd
<1> QED BY <1>3, <1>9, <1>12, <1>13, <1>14, <1>15, <1>16 DEF RxInd

\* A BAR.
LEMMA BarKeeps ==
  ASSUME RxInd, BarFrame
  PROVE  RxInd'
<1>1. /\ ba.valid /\ base >= first /\ Seen(base - 1)
      /\ UNCHANGED <<miss, dropped, passed, base, first>>
  BY DEF BarFrame
<1>2. PICK w \in Nat : At(w)
  BY <1>1 DEF RxInd
<1>3. /\ RxTypes /\ base \in Nat /\ first \in Nat /\ seen \in Nat /\ ba \in Entries
      /\ w =< seen /\ seen =< w + RxWinSize /\ seen =< base + Buf /\ base =< seen + MaxGap
      /\ ba.start = SN(w) /\ (ba.waiting => queue = <<>>)
      /\ host \in Seq(Nat) /\ Ascending(host) /\ (\A j \in 1 .. Len(host) : host[j] < w)
      /\ queue \in Seq(Nat)
      /\ (\A j \in 1 .. Len(queue) : w < queue[j] /\ queue[j] < w + RxWinSize /\ queue[j] < seen)
      /\ dropped \subseteq Nat /\ (\A m \in dropped : m < passed)
  BY <1>1, <1>2 DEF RxInd, RxTypes, At
<1>4. Near(w, base)
  BY <1>2, <1>3, SenderNear, CircleSize
<1>5. Less(ba.start, SN(base)) <=> w < base
  BY <1>3, <1>4, TrueOrder
<1>6. /\ seen' \in Nat /\ seen =< seen' /\ base =< seen'
      /\ seen' = seen \/ seen' = base
  BY <1>1, <1>3 DEF Seen
<1>7. CASE ~(w < base)
  <2>1. UNCHANGED <<ba, queue, host>>
    BY <1>5, <1>7 DEF BarFrame
  <2>2. seen' = seen
    BY <1>3, <1>6, <1>7
  <2> QED BY <1>1, <1>2, <2>1, <2>2 DEF RxInd, RxTypes, At, Ascending, Has
<1>8. CASE w < base
  <2> DEFINE e == [ba EXCEPT !.start = SN(base)]
  <2>1. PopAhead(e, queue)
    BY <1>5, <1>8 DEF BarFrame
  <2>2. e \in Entries /\ e.valid /\ e.waiting = ba.waiting /\ e.start = SN(base)
    BY <1>1, <1>3, EndIsSn DEF Entries
  <2> HIDE DEF e
  <2>3. w =< base /\ base =< w + Half
    BY <1>3, <1>8, CircleSize
  <2>4. Held(queue, base) /\ \A i \in 1 .. Len(host), j \in 1 .. Len(queue) : host[i] < queue[j]
    BY <1>2, <1>3, <2>3, HeldNear
  <2>5. \A j \in 1 .. Len(host) : host[j] < base
    BY <1>3, <1>8, ElementOfSeq
  <2>6. PICK v \in Nat : /\ Popped(e, queue, base, v)
                         /\ \A m \in Nat : base =< m /\ m < v => Has(host', m)
    BY <1>3, <2>1, <2>2, <2>4, <2>5, AheadPops
  <2>7. \A j \in 1 .. Len(queue) : queue[j] \in Nat /\ queue[j] < base + RxWinSize /\ queue[j] < seen'
    <3>1. RxWinSize \in Nat /\ \A j \in 1 .. Len(queue) : queue[j] \in Nat
      BY <1>3, CircleSize, ElementOfSeq
    <3> QED BY <1>3, <1>6, <1>8, <3>1
  <2>8. seen' =< base + RxWinSize
    BY <1>3, <1>6, <1>8, CircleSize
  <2>9. /\ ba' \in Entries /\ ba'.valid /\ ba'.waiting = e.waiting
        /\ queue' \in Seq(Nat) /\ Ascending(queue') /\ host' \in Seq(Nat) /\ Ascending(host')
        /\ ba'.start = SN(v) /\ ba'.end = WinEnd(SN(v)) /\ base =< v
        /\ \A j \in 1 .. Len(host') : host'[j] < v
        /\ \A j \in 1 .. Len(queue') :
             v < queue'[j] /\ queue'[j] < v + RxWinSize /\ queue'[j] < seen'
        /\ v =< seen' /\ seen' =< v + RxWinSize
    BY <1>3, <1>6, <2>2, <2>6, <2>7, <2>8, AfterLoop
  <2>10. ba'.waiting => queue' = <<>> /\ v =< base
    <3> SUFFICES ASSUME ba'.waiting PROVE queue' = <<>> /\ v =< base
      OBVIOUS
    <3>1. queue = <<>> /\ Len(<<>>) = 0
      BY <1>3, <2>2, <2>9
    <3>2. v = base
      BY <2>6, <3>1 DEF Popped
    <3>3. \A j \in 1 .. Len(queue') : FALSE
      BY <2>6, <3>1 DEF Popped, Has
    <3>4. Len(queue') \in Nat
      BY <2>9, LenProperties
    <3>5. Len(queue') = 0
      BY <3>3, <3>4
    <3>6. queue' = <<>>
      BY <2>9, <3>5, EmptySeq
    <3> QED BY <1>3, <3>2, <3>6
  <2>11. seen' =< base + Buf /\ base =< seen' + MaxGap
    <3> DEFINE last == base - 1
    <3>1. last \in Nat /\ last < base + Buf
      BY <1>3, <1>8, CircleSize
    <3>2. seen' = seen \/ seen' = last + 1
      BY <1>3, <1>6
    <3> HIDE DEF last
    <3> QED BY <1>3, <1>6, <3>1, <3>2, SeenBounds
  <2>12. RxTypes'
    BY <1>1, <1>3, <1>6, <2>9 DEF RxTypes
  <2>13. At(v)'
    BY <1>1, <1>3, <2>6, <2>9, <2>10 DEF At
  <2> QED BY <1>1, <1>3, <2>9, <2>11, <2>12, <2>13 DEF RxInd
<1> QED BY <1>7, <1>8

\* The sender moves on.
LEMMA AdvanceKeeps ==
  ASSUME RxInd, Advance
  PROVE  RxInd'
<1>1. /\ base' = base + 1 /\ base + 1 - seen =< MaxGap
      /\ UNCHANGED <<ba, queue, miss, host, dropped, passed, first, seen>>
  BY DEF Advance, driver
<1>2. base \in Nat /\ seen \in Nat /\ first \in Nat /\ seen =< base + Buf /\ RxTypes
  BY DEF RxInd, RxTypes
<1>3. base' \in Nat /\ seen' =< base' + Buf /\ base' =< seen' + MaxGap
  BY <1>1, <1>2, CircleSize
<1>4. RxTypes'
  BY <1>1, <1>2, <1>3 DEF RxTypes
<1>5. ASSUME NEW w \in Nat, At(w) PROVE At(w)'
  <2>1. /\ base < first => base + 1 = first
        /\ w =< base \/ w =< first => w =< base' \/ w =< first'
        /\ \A m \in Nat : base' =< m => base =< m
    BY <1>1, <1>2, <1>5 DEF At
  <2>2. ~(base' < first')
    BY <1>1, <1>2, <2>1
  <2> QED BY <1>1, <1>5, <2>1, <2>2 DEF At, Has
<1>6. /\ Ascending(queue) /\ Ascending(host) /\ (\A m \in dropped : m < passed)
      /\ (ba.valid => \E w \in Nat : At(w)) /\ (~ba.valid => queue = <<>>)
  BY DEF RxInd
<1>7. ba'.valid => \E w \in Nat : At(w)'
  BY <1>1, <1>5, <1>6
<1> QED BY <1>1, <1>3, <1>4, <1>6, <1>7 DEF RxInd

\* A new agreement.
LEMMA AddBaKeeps ==
  ASSUME RxInd, NEW ssn \in Nat, AddBa(ssn)
  PROVE  RxInd'
<1>1. /\ ssn \in {base, base + 1} /\ ba' = Entry(ssn) /\ queue' = <<>> /\ miss' = "off"
      /\ host' = <<>> /\ dropped' = {} /\ passed' = ssn /\ first' = ssn /\ seen' = ssn
      /\ base' = base
  BY DEF AddBa
<1>2. base \in Nat
  BY DEF RxInd, RxTypes
<1>3. SN(ssn) \in Sns /\ WinEnd(SN(ssn)) \in Sns
  BY EndIsSn
<1>4. /\ ba' \in Entries /\ ba'.valid /\ ba'.waiting
      /\ ba'.start = SN(ssn) /\ ba'.end = WinEnd(SN(ssn))
  BY <1>1, <1>3 DEF Entry, Entries
<1>5. <<>> \in Seq(Nat) /\ Len(<<>>) = 0
  BY EmptySeq
<1>6. Ascending(<<>>)
  BY <1>5 DEF Ascending
<1>7. RxTypes'
  BY <1>1, <1>2, <1>4, <1>5 DEF RxTypes
<1>8. seen' =< base' + Buf /\ base' =< seen' + MaxGap /\ seen' =< ssn + RxWinSize
  BY <1>1, <1>2, CircleSize
<1>9. At(ssn)'
  BY <1>1, <1>2, <1>4, <1>5, <1>8 DEF At
<1> QED BY <1>1, <1>4, <1>6, <1>7, <1>8, <1>9 DEF RxInd

\* The end of an agreement.
LEMMA DelBaKeeps ==
  ASSUME RxInd, DelBa
  PROVE  RxInd'
<1>1. /\ ba.valid /\ host' = host \o queue /\ ba' = NoEntry /\ queue' = <<>>
      /\ UNCHANGED <<miss, dropped, passed, base, first, seen>>
  BY DEF DelBa, sender
<1>2. PICK w \in Nat : At(w)
  BY <1>1 DEF RxInd
<1>3. /\ host \in Seq(Nat) /\ queue \in Seq(Nat) /\ Ascending(host) /\ Ascending(queue) /\ RxTypes
  BY DEF RxInd, RxTypes
<1>4. \A i \in 1 .. Len(host), j \in 1 .. Len(queue) : host[i] < queue[j]
  <2>1. \A i \in 1 .. Len(host) : host[i] \in Nat /\ host[i] < w
    BY <1>2, <1>3, ElementOfSeq DEF At
  <2>2. \A j \in 1 .. Len(queue) : queue[j] \in Nat /\ w < queue[j]
    BY <1>2, <1>3, ElementOfSeq DEF At
  <2> QED BY <2>1, <2>2
<1>5. host' \in Seq(Nat) /\ Ascending(host')
  BY <1>1, <1>3, <1>4, Joined
<1>6. NoEntry \in Entries /\ ~NoEntry.valid
  BY CircleSize DEF NoEntry, Entries, Sns
<1>7. <<>> \in Seq(Nat) /\ Ascending(<<>>)
  BY EmptySeq DEF Ascending
<1>8. RxTypes'
  BY <1>1, <1>3, <1>5, <1>6, <1>7 DEF RxTypes
<1>9. /\ seen =< base + Buf /\ base =< seen + MaxGap
      /\ \A m \in dropped : m < passed
  BY DEF RxInd
<1> QED BY <1>1, <1>5, <1>6, <1>7, <1>8, <1>9 DEF RxInd

\* The station goes.
LEMMA DeactivateKeeps ==
  ASSUME RxInd, DeactivateStaRec
  PROVE  RxInd'
<1>1. /\ ba' = NoEntry /\ queue' = <<>>
      /\ UNCHANGED <<miss, host, dropped, passed, base, first, seen>>
  BY DEF DeactivateStaRec, sender
<1>2. NoEntry \in Entries /\ ~NoEntry.valid
  BY CircleSize DEF NoEntry, Entries, Sns
<1>3. <<>> \in Seq(Nat) /\ Ascending(<<>>)
  BY EmptySeq DEF Ascending
<1>4. RxTypes'
  BY <1>1, <1>2, <1>3 DEF RxInd, RxTypes
<1> QED BY <1>1, <1>2, <1>3, <1>4 DEF RxInd, Ascending

\* Nothing but the timer and the count of agreements changes.
LEMMA OthersKeep ==
  ASSUME RxInd, miss' \in {"off", "running", "expired"},
         UNCHANGED <<ba, queue, host, dropped, passed, base, first, seen>>
  PROVE  RxInd'
<1>1. RxTypes'
  BY DEF RxInd, RxTypes
<1>2. ASSUME NEW w \in Nat, At(w) PROVE At(w)'
  BY <1>2 DEF At, Has
<1> QED BY <1>1, <1>2 DEF RxInd, Ascending

\* Before any agreement.
LEMMA RxStarts == RxInit => RxInd
<1> SUFFICES ASSUME RxInit PROVE RxInd
  OBVIOUS
<1>1. FirstSn \in Nat
  BY RxAssumption
<1>2. NoEntry \in Entries /\ ~NoEntry.valid
  BY CircleSize DEF NoEntry, Entries, Sns
<1>3. <<>> \in Seq(Nat) /\ Ascending(<<>>)
  BY EmptySeq DEF Ascending
<1>4. RxTypes
  BY <1>1, <1>2, <1>3 DEF RxInit, RxTypes
<1>5. seen =< base + Buf /\ base =< seen + MaxGap
  BY <1>1, CircleSize DEF RxInit
<1> QED BY <1>2, <1>3, <1>4, <1>5 DEF RxInd, RxInit

\* Every step keeps the invariant.
LEMMA RxStep == RxInd /\ [RxNext]_rxReorderVars => RxInd'
<1> SUFFICES ASSUME RxInd, [RxNext]_rxReorderVars PROVE RxInd'
  OBVIOUS
<1>1. \A n \in Frames : n \in Nat
  BY RxAssumption DEF Frames
<1>2. CASE \E n \in Frames : Frame(n)
  BY <1>1, <1>2, FrameKeeps
<1>3. CASE \E n \in Frames : OldFrame(n)
  BY <1>1, <1>3, OldFrameKeeps
<1>4. CASE \E n \in Frames : AddBa(n)
  BY <1>1, <1>4, AddBaKeeps
<1>5. CASE Advance
  BY <1>5, AdvanceKeeps
<1>6. CASE BarFrame
  BY <1>6, BarKeeps
<1>7. CASE DelBa
  BY <1>7, DelBaKeeps
<1>8. CASE DeactivateStaRec
  BY <1>8, DeactivateKeeps
<1>9. CASE MissTimeout
  BY <1>9, OthersKeep DEF MissTimeout, sender
<1>10. CASE UNCHANGED rxReorderVars
  <2>1. miss \in {"off", "running", "expired"}
    BY DEF RxInd, RxTypes
  <2> QED BY <1>10, <2>1, OthersKeep DEF rxReorderVars, driver, sender
<1> QED BY <1>2, <1>3, <1>4, <1>5, <1>6, <1>7, <1>8, <1>9, <1>10 DEF RxNext

\* The invariant holds in every behaviour.
LEMMA RxInvariance == RxSpec => []RxInd
<1>1. RxInit => RxInd
  BY RxStarts
<1>2. RxInd /\ [RxNext]_rxReorderVars => RxInd'
  BY RxStep
<1> QED BY <1>1, <1>2, PTL DEF RxSpec

\* The held frames and those handed up are in order, in the window and outside
\* it: for every size of the circle and of the window, any number of
\* repetitions, losses and agreements, and any number of turns of the circle.
THEOREM ReorderingKeepsOrder == RxSpec => []OrderInv
<1>1. RxInd => OrderInv
  <2> SUFFICES ASSUME RxInd PROVE OrderInv
    OBVIOUS
  <2>1. /\ queue \in Seq(Nat) /\ host \in Seq(Nat) /\ Ascending(queue) /\ Ascending(host)
        /\ DOMAIN queue = 1 .. Len(queue) /\ DOMAIN host = 1 .. Len(host)
    BY LenProperties DEF RxInd, RxTypes
  <2>2. InOrder
    BY <2>1 DEF InOrder, Ascending
  <2>3. ASSUME NEW i \in DOMAIN queue
        PROVE  ba.valid /\ Within(ba.start, ba.end, SN(queue[i])) /\ SN(queue[i]) # ba.start
    <3>1. queue # <<>> /\ queue[i] \in Nat
      BY <2>1, <2>3, EmptySeq, ElementOfSeq
    <3>2. ba.valid
      BY <3>1 DEF RxInd
    <3>3. PICK w \in Nat : At(w)
      BY <3>2 DEF RxInd
    <3>4. /\ w < queue[i] /\ queue[i] < w + RxWinSize
          /\ ba.start = SN(w) /\ ba.end = WinEnd(SN(w))
      BY <2>1, <2>3, <3>3 DEF At
    <3>5. Near(w, queue[i])
      BY <3>1, <3>4, CircleSize DEF Near
    <3>6. Within(ba.start, ba.end, SN(queue[i]))
      BY <3>1, <3>4, <3>5, ThreeCases
    <3>7. SN(queue[i]) # ba.start
      BY <3>1, <3>4, <3>5, TrueOrder
    <3> QED BY <3>2, <3>6, <3>7
  <2> QED BY <2>1, <2>2, <2>3 DEF OrderInv, HeldInWindow, Ascending
<1> QED BY <1>1, RxInvariance, PTL

\* Frames ahead, BARs and turns of the circle never cost a frame: what is
\* thrown away lies below a hole that the driver gave up itself.
THEOREM NothingElseIsDropped == RxSpec => []DroppedWasGivenUp
<1>1. RxInd => DroppedWasGivenUp
  BY DEF RxInd, DroppedWasGivenUp
<1> QED BY <1>1, RxInvariance, PTL

=============================================================================
