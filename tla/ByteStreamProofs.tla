--------------------------- MODULE ByteStreamProofs ---------------------------
(* Facts about numbers and about the streams of ByteStream.                  *)
EXTENDS ByteStream, SequenceTheorems, WellFoundedInduction, TLAPS

-------------------------------------------------------------------------------
(* Sets of numbers. *)

LEMMA Minimum ==
  ASSUME NEW S \in SUBSET Nat, S # {}
  PROVE  \E m \in S : \A n \in S : m <= n
  <1> DEFINE less == {ss \in Nat \X Nat : ss[1] < ss[2]}
  <1>1. IsWellFoundedOn(less, Nat)
    BY NatLessThanWellFounded DEF OpToRel
  <1> HIDE DEF less
  <1>2. PICK m \in S : \A n \in S : <<n, m>> \notin less
    BY <1>1, WFMin
  <1>3. \A n \in S : n \in Nat /\ m \in Nat /\ (<<n, m>> \in less <=> n < m)
    BY DEF less
  <1>4. ASSUME NEW n \in S PROVE m <= n
    <2>1. ~(n < m) /\ n \in Nat /\ m \in Nat
      BY <1>2, <1>3
    <2> QED BY <2>1
  <1> QED BY <1>4

LEMMA Maximum ==
  ASSUME NEW S \in SUBSET Nat, S # {}, NEW bound \in Nat, \A n \in S : n <= bound
  PROVE  \E m \in S : \A n \in S : n <= m
  <1> DEFINE below == {bound - n : n \in S}
  <1>1. below \in SUBSET Nat /\ below # {}
    <2>1. \A n \in S : bound - n \in Nat
      OBVIOUS
    <2> QED BY <2>1
  <1>2. PICK d \in below : \A e \in below : d <= e
    BY <1>1, Minimum
  <1>3. PICK m \in S : d = bound - m
    BY <1>2
  <1>4. \A n \in S : bound - n \in below
    OBVIOUS
  <1> HIDE DEF below
  <1> QED BY <1>2, <1>3, <1>4

-------------------------------------------------------------------------------
(* Streams. *)

\* All own bytes of a were sent before those of b.
Before(a, b) == \A x \in Own(a), y \in Own(b) : x < y

LEMMA OwnIs ==
  ASSUME NEW S, NEW a \in Seq(S)
  PROVE  Own(a) = {a[i] : i \in {k \in 1 .. Len(a) : a[k] > 0}}
  BY DEF Own, Range

LEMMA EmptyStream == Own(<< >>) = {} /\ InOrder(<< >>)
  BY DEF Own, Range, InOrder

LEMMA OwnConcat ==
  ASSUME NEW S \in SUBSET Int, NEW a \in Seq(S), NEW b \in Seq(S)
  PROVE  a \o b \in Seq(S) /\ Own(a \o b) = Own(a) \cup Own(b)
  <1>1. a \o b \in Seq(S) /\ Range(a \o b) = Range(a) \cup Range(b)
    BY RangeConcatenation
  <1> QED BY <1>1 DEF Own

LEMMA InOrderConcat ==
  ASSUME NEW S \in SUBSET Int, NEW a \in Seq(S), NEW b \in Seq(S)
  PROVE  InOrder(a \o b) <=> InOrder(a) /\ InOrder(b) /\ Before(a, b)
  <1> DEFINE k == Len(a)
             l == Len(b)
             c == a \o b
  <1>1. /\ k \in Nat /\ l \in Nat /\ c \in Seq(S) /\ Len(c) = k + l
        /\ DOMAIN a = 1 .. k /\ DOMAIN b = 1 .. l /\ DOMAIN c = 1 .. k + l
        /\ \A i \in 1 .. k : c[i] = a[i] /\ a[i] \in Int
        /\ \A i \in 1 .. l : c[k + i] = b[i] /\ b[i] \in Int
    <2>1. ASSUME NEW i \in 1 .. k PROVE c[i] = a[i] /\ a[i] \in Int
      <3>1. c[i] = a[i]
        BY ConcatProperties
      <3> QED BY <3>1, ElementOfSeq
    <2>2. ASSUME NEW i \in 1 .. l PROVE c[k + i] = b[i] /\ b[i] \in Int
      <3>1. k + i \in 1 .. k + l /\ k + i > k /\ (k + i) - k = i
        OBVIOUS
      <3>2. c[k + i] = b[i]
        BY <3>1, ConcatProperties
      <3> QED BY <3>2, ElementOfSeq
    <2> QED BY <2>1, <2>2
  <1> HIDE DEF k, l, c
  <1>2. ASSUME InOrder(c) PROVE InOrder(a) /\ InOrder(b) /\ Before(a, b)
    <2>1. InOrder(a)
      <3> SUFFICES ASSUME NEW i \in 1 .. k, NEW j \in 1 .. k, i < j, a[i] > 0, a[j] > 0
                   PROVE  a[i] < a[j]
        BY <1>1 DEF InOrder
      <3>1. i \in 1 .. k + l /\ j \in 1 .. k + l
        BY <1>1
      <3> QED BY <1>1, <1>2, <3>1 DEF InOrder
    <2>2. InOrder(b)
      <3> SUFFICES ASSUME NEW i \in 1 .. l, NEW j \in 1 .. l, i < j, b[i] > 0, b[j] > 0
                   PROVE  b[i] < b[j]
        BY <1>1 DEF InOrder
      <3>1. k + i \in 1 .. k + l /\ k + j \in 1 .. k + l /\ k + i < k + j
        BY <1>1
      <3> QED BY <1>1, <1>2, <3>1 DEF InOrder
    <2>3. Before(a, b)
      <3> SUFFICES ASSUME NEW i \in 1 .. k, NEW j \in 1 .. l, a[i] > 0, b[j] > 0
                   PROVE  a[i] < b[j]
        BY <1>1 DEF Before, Own, Range
      <3>1. i \in 1 .. k + l /\ k + j \in 1 .. k + l /\ i < k + j
        BY <1>1
      <3> QED BY <1>1, <1>2, <3>1 DEF InOrder
    <2> QED BY <2>1, <2>2, <2>3
  <1>3. ASSUME InOrder(a), InOrder(b), Before(a, b) PROVE InOrder(c)
    <2> SUFFICES ASSUME NEW i \in 1 .. k + l, NEW j \in 1 .. k + l, i < j, c[i] > 0, c[j] > 0
                 PROVE  c[i] < c[j]
      BY <1>1 DEF InOrder
    <2>1. CASE j \in 1 .. k
      <3>1. i \in 1 .. k
        BY <1>1, <2>1
      <3> QED BY <1>1, <1>3, <2>1, <3>1 DEF InOrder
    <2>2. CASE i \in 1 .. k /\ j \notin 1 .. k
      <3>1. j - k \in 1 .. l /\ k + (j - k) = j
        BY <1>1, <2>2
      <3>2. c[i] \in Own(a) /\ c[j] \in Own(b)
        BY <1>1, <2>2, <3>1 DEF Own, Range
      <3> QED BY <1>3, <3>2 DEF Before
    <2>3. CASE i \notin 1 .. k
      <3>1. /\ i - k \in 1 .. l /\ k + (i - k) = i
            /\ j - k \in 1 .. l /\ k + (j - k) = j /\ i - k < j - k
        BY <1>1, <2>3
      <3>2. c[i] = b[i - k] /\ c[j] = b[j - k]
        BY <1>1, <3>1
      <3> QED BY <1>1, <1>3, <3>1, <3>2 DEF InOrder
    <2> QED BY <2>1, <2>2, <2>3
  <1> QED BY <1>2, <1>3 DEF c

\* A stream is its first n bytes and the others.
LEMMA Split ==
  ASSUME NEW S, NEW a \in Seq(S), NEW n \in 0 .. Len(a)
  PROVE  /\ SubSeq(a, 1, n) \in Seq(S) /\ SubSeq(a, n + 1, Len(a)) \in Seq(S)
         /\ Len(SubSeq(a, 1, n)) = n /\ Len(SubSeq(a, n + 1, Len(a))) = Len(a) - n
         /\ a = SubSeq(a, 1, n) \o SubSeq(a, n + 1, Len(a))
  <1>1. Len(a) \in Nat /\ n \in Nat /\ n <= Len(a)
    OBVIOUS
  <1>2. /\ SubSeq(a, 1, n) \in Seq(S) /\ SubSeq(a, n + 1, Len(a)) \in Seq(S)
        /\ Len(SubSeq(a, 1, n)) = n /\ Len(SubSeq(a, n + 1, Len(a))) = Len(a) - n
    BY <1>1, SubSeqProperties
  <1>3. a = SubSeq(a, 1, n) \o SubSeq(a, n + 1, Len(a))
    <2>1. SubSeq(a, 1, Len(a)) = a
      BY SubSeqFull
    <2>2. SubSeq(a, 1, n) \o SubSeq(a, n + 1, Len(a)) = SubSeq(a, 1, Len(a))
      <3> DEFINE l == Len(a)
      <3>1. 1 \in 1 .. l + 1 /\ n \in 1 - 1 .. l /\ l \in n .. l
        BY <1>1
      <3> HIDE DEF l
      <3>2. SubSeq(a, 1, n) \o SubSeq(a, n + 1, l) = SubSeq(a, 1, l)
        BY <3>1, ConcatAdjacentSubSeq DEF l
      <3> QED BY <3>2 DEF l
    <2> QED BY <2>1, <2>2
  <1> QED BY <1>2, <1>3

LEMMA One ==
  ASSUME NEW S, NEW x \in S
  PROVE  <<x>> \in Seq(S) /\ Len(<<x>>) = 1 /\ <<x>>[1] = x
  OBVIOUS

LEMMA Two ==
  ASSUME NEW S, NEW x \in S, NEW y \in S
  PROVE  <<x, y>> \in Seq(S) /\ Len(<<x, y>>) = 2 /\ <<x, y>>[1] = x /\ <<x, y>>[2] = y
  OBVIOUS

\* A stream is what comes before its last byte and that byte.
LEMMA LastByte ==
  ASSUME NEW S, NEW a \in Seq(S), NEW n \in Nat, n = Len(a), n > 0
  PROVE  /\ a[n] \in S /\ SubSeq(a, 1, n - 1) \in Seq(S)
         /\ a = SubSeq(a, 1, n - 1) \o <<a[n]>>
  <1> DEFINE k == n - 1
             b == SubSeq(a, k + 1, n)
  <1>1. k \in 0 .. Len(a) /\ Len(a) - k = 1 /\ k + 1 = n /\ n \in 1 .. Len(a)
    OBVIOUS
  <1>2. /\ SubSeq(a, 1, k) \in Seq(S) /\ b \in Seq(S) /\ Len(b) = 1
        /\ a = SubSeq(a, 1, k) \o b
    <2> HIDE DEF k
    <2>1. /\ SubSeq(a, 1, k) \in Seq(S) /\ SubSeq(a, k + 1, Len(a)) \in Seq(S)
          /\ Len(SubSeq(a, k + 1, Len(a))) = Len(a) - k
          /\ a = SubSeq(a, 1, k) \o SubSeq(a, k + 1, Len(a))
      BY <1>1, Split
    <2> QED BY <1>1, <2>1
  <1>3. a[n] \in S /\ b[1] = a[n]
    BY <1>1
  <1> HIDE DEF b
  <1>4. b = <<a[n]>>
    <2>1. <<a[n]>> \in Seq(S) /\ Len(<<a[n]>>) = 1 /\ <<a[n]>>[1] = a[n]
      BY <1>3, One
    <2>2. \A i \in 1 .. Len(b) : b[i] = <<a[n]>>[i]
      BY <1>2, <1>3, <2>1
    <2> HIDE DEF b
    <2> QED BY <1>2, <2>1, <2>2, SeqEqual
  <1> QED BY <1>2, <1>3, <1>4

LEMMA PrefixInOrder ==
  ASSUME NEW S \in SUBSET Int, NEW a \in Seq(S), NEW n \in 0 .. Len(a)
  PROVE  /\ SubSeq(a, 1, n) \in Seq(S)
         /\ Own(SubSeq(a, 1, n)) \subseteq Own(a)
         /\ InOrder(a) => InOrder(SubSeq(a, 1, n))
  <1> DEFINE first == SubSeq(a, 1, n)
             rest == SubSeq(a, n + 1, Len(a))
  <1>1. first \in Seq(S) /\ rest \in Seq(S) /\ a = first \o rest
    BY Split
  <1> HIDE DEF first, rest
  <1>2. Own(a) = Own(first) \cup Own(rest) /\ (InOrder(a) => InOrder(first))
    BY <1>1, OwnConcat, InOrderConcat
  <1> QED BY <1>1, <1>2 DEF first

\* What one read returns of a stream.
LEMMA Consecutive ==
  ASSUME NEW m \in Nat, NEW n \in Nat
  PROVE  LET chunk == [i \in 1 .. n |-> m + i]
         IN  /\ chunk \in Seq(Nat) /\ Len(chunk) = n
             /\ Own(chunk) = m + 1 .. m + n /\ InOrder(chunk)
  <1> DEFINE chunk == [i \in 1 .. n |-> m + i]
  <1>1. chunk \in Seq(Nat) /\ Len(chunk) = n /\ DOMAIN chunk = 1 .. n
    OBVIOUS
  <1>2. ASSUME NEW x \in m + 1 .. m + n PROVE x \in Own(chunk)
    <2>1. x - m \in 1 .. n /\ x = m + (x - m) /\ x > 0
      OBVIOUS
    <2> QED BY <1>1, <2>1 DEF Own, Range
  <1>3. ASSUME NEW x \in Own(chunk) PROVE x \in m + 1 .. m + n
    <2>1. PICK i \in 1 .. n : x = m + i
      BY <1>1 DEF Own, Range
    <2> QED BY <2>1
  <1>4. InOrder(chunk)
    BY <1>1 DEF InOrder
  <1> QED BY <1>1, <1>2, <1>3, <1>4

\* In the middle of a stream, some bytes are replaced by fewer of the same peer.
LEMMA Replaced ==
  ASSUME NEW S \in SUBSET Int, NEW a \in Seq(S), NEW b \in Seq(S), NEW c \in Seq(S),
         NEW e \in Seq(S), Own(e) \subseteq Own(b), InOrder(b) => InOrder(e),
         InOrder(a \o (b \o c))
  PROVE  LET old == a \o (b \o c)
             new == (a \o e) \o c
         IN  /\ InOrder(new) /\ Own(new) \subseteq Own(old)
             /\ Own(e) = Own(b) => Own(new) = Own(old)
  <1> DEFINE first == a \o e
             last == b \o c
  <1>1. /\ first \in Seq(S) /\ Own(first) = Own(a) \cup Own(e)
        /\ InOrder(first) <=> InOrder(a) /\ InOrder(e) /\ Before(a, e)
    BY OwnConcat, InOrderConcat
  <1>2. /\ last \in Seq(S) /\ Own(last) = Own(b) \cup Own(c)
        /\ InOrder(last) <=> InOrder(b) /\ InOrder(c) /\ Before(b, c)
    BY OwnConcat, InOrderConcat
  <1>3. InOrder(a \o last)
    OBVIOUS
  <1> HIDE DEF first, last
  <1>4. /\ Own(first \o c) = Own(first) \cup Own(c)
        /\ InOrder(first \o c) <=> InOrder(first) /\ InOrder(c) /\ Before(first, c)
    BY <1>1, OwnConcat, InOrderConcat
  <1>5. /\ Own(a \o last) = Own(a) \cup Own(last)
        /\ InOrder(a) /\ InOrder(last) /\ Before(a, last)
    BY <1>2, <1>3, OwnConcat, InOrderConcat
  <1>6. InOrder(first \o c)
    BY <1>1, <1>2, <1>4, <1>5 DEF Before
  <1>7. /\ Own(first \o c) \subseteq Own(a \o last)
        /\ Own(e) = Own(b) => Own(first \o c) = Own(a \o last)
    BY <1>1, <1>2, <1>4, <1>5
  <1> QED BY <1>6, <1>7 DEF first, last
=============================================================================
