----------------------------- MODULE CodecProofs -----------------------------
(***************************************************************************)
(* Whatever the limits are, every valid command and every consistent       *)
(* result of bounded fields that fits a message is decoded as it was       *)
(* encoded, from its fragments in any order and over any remains.          *)
(***************************************************************************)
EXTENDS Codecs, SequenceTheorems, TLAPS

-----------------------------------------------------------------------------
(* Segments                                                                *)

\* A part of a payload that is inside it.
LEMMA SegmentTyped ==
  ASSUME NEW S, NEW p \in Seq(S), NEW o \in Nat, NEW n \in Nat,
         o + n <= Len(p), NEW s, s = Segment(p, o, n)
  PROVE  s \in Seq(S)
<1>1. \A i \in o + 1 .. o + n : p[i] \in S
  OBVIOUS
<1> QED BY <1>1, SubSeqProperties DEF Segment

\* It is the n elements from offset o on.
Copies(s, p, o, n) == Len(s) = n /\ \A i \in 1 .. n : s[i] = p[o + i]

\* A segment has the elements of its place.
LEMMA SegmentShape ==
  ASSUME NEW S, NEW p \in Seq(S), NEW o \in Nat, NEW n \in Nat,
         o + n <= Len(p), NEW s \in Seq(S), s = Segment(p, o, n)
  PROVE  Copies(s, p, o, n)
<1>1. \A i \in o + 1 .. o + n : p[i] \in S
  OBVIOUS
<1>2. /\ Len(SubSeq(p, o + 1, o + n)) =
           IF o + 1 <= o + n THEN (o + n) - (o + 1) + 1 ELSE 0
      /\ \A i \in 1 .. (o + n) - (o + 1) + 1 :
           SubSeq(p, o + 1, o + n)[i] = p[(o + 1) + i - 1]
  BY <1>1, SubSeqProperties
<1> QED BY <1>2 DEF Segment, Copies

\* The segment appended last.
LEMMA SegmentLast ==
  ASSUME NEW S, NEW a \in Seq(S), NEW b \in Seq(S), NEW s,
         s = Segment(a \o b, Len(a), Len(b))
  PROVE  s = b
<1>1. PICK p : p = a \o b
  OBVIOUS
<1>2. /\ p \in Seq(S) /\ Len(p) = Len(a) + Len(b)
      /\ \A i \in 1 .. Len(b) : p[Len(a) + i] = b[i]
  BY <1>1, ConcatProperties
<1>3. /\ Len(a) \in Nat /\ Len(b) \in Nat /\ s = Segment(p, Len(a), Len(b))
  BY <1>1
<1>4. s \in Seq(S)
  BY <1>2, <1>3, SegmentTyped
<1>5. Len(s) = Len(b) /\ \A i \in 1 .. Len(b) : s[i] = p[Len(a) + i]
  <2>1. Copies(s, p, Len(a), Len(b))
    BY <1>2, <1>3, <1>4, SegmentShape
  <2> QED BY <2>1 DEF Copies
<1>6. \A i \in 1 .. Len(s) : s[i] = b[i]
  BY <1>2, <1>3, <1>5
<1> QED BY <1>4, <1>5, <1>6, SeqEqual

\* What is appended later changes no segment.
LEMMA SegmentKept ==
  ASSUME NEW S, NEW a \in Seq(S), NEW b \in Seq(S), NEW o \in Nat, NEW n \in Nat,
         o + n <= Len(a), NEW s, NEW t, s = Segment(a \o b, o, n),
         t = Segment(a, o, n)
  PROVE  s = t
<1>1. PICK p : p = a \o b
  OBVIOUS
<1>2. /\ p \in Seq(S) /\ Len(p) = Len(a) + Len(b)
      /\ \A i \in 1 .. Len(a) : p[i] = a[i]
  BY <1>1, ConcatProperties
<1>3. o + n <= Len(p) /\ s = Segment(p, o, n)
  BY <1>1, <1>2
<1>4. s \in Seq(S) /\ t \in Seq(S)
  BY <1>2, <1>3, SegmentTyped
<1>5. Len(s) = n /\ \A i \in 1 .. n : s[i] = p[o + i]
  <2>1. Copies(s, p, o, n)
    BY <1>2, <1>3, <1>4, SegmentShape
  <2> QED BY <2>1 DEF Copies
<1>6. Len(t) = n /\ \A i \in 1 .. n : t[i] = a[o + i]
  <2>1. Copies(t, a, o, n)
    BY <1>4, SegmentShape
  <2> QED BY <2>1 DEF Copies
<1>7. \A i \in 1 .. n : s[i] = t[i]
  <2>1. ASSUME NEW i \in 1 .. n
        PROVE  p[o + i] = a[o + i]
    <3>1. o + i \in 1 .. Len(a)
      OBVIOUS
    <3> QED BY <1>2, <3>1
  <2> QED BY <1>5, <1>6, <2>1
<1> QED BY <1>4, <1>5, <1>6, <1>7, SeqEqual

-----------------------------------------------------------------------------
(* Fragments                                                               *)

\* The number of fragments, without the division.
LEMMA FragmentCountCases ==
  ASSUME NEW size \in 1 .. MaxMessage
  PROVE  FragmentCount(size) =
           IF size <= FragmentData THEN 1
           ELSE IF size <= 2 * FragmentData THEN 2 ELSE 3
<1>1. /\ FragmentData \in Nat \ {0} /\ MaxMessage \in Nat
      /\ MaxMessage <= 3 * FragmentData
  BY CodecAssumption
<1>2. PICK n, d : n = size + FragmentData - 1 /\ d = FragmentData
  OBVIOUS
<1>3. n \in Nat /\ d \in Nat /\ d > 0 /\ size \in Nat /\ size <= 3 * d /\ size >= 1
  BY <1>1, <1>2
<1>4. PICK q : q = n \div d
  OBVIOUS
<1>5. q \in Int /\ q * d <= n /\ n < (q + 1) * d
  BY <1>3, <1>4
<1>6. q = IF size <= d THEN 1 ELSE IF size <= 2 * d THEN 2 ELSE 3
  <2>1. CASE q <= 0
    <3>1. (q + 1) * d <= d
      BY <1>3, <1>5, <2>1
    <3> QED BY <1>2, <1>3, <1>5, <3>1
  <2>2. CASE q >= 4
    <3>1. q * d >= 4 * d
      BY <1>3, <1>5, <2>2
    <3> QED BY <1>2, <1>3, <1>5, <3>1
  <2>3. CASE q \in {1, 2, 3}
    BY <1>2, <1>3, <1>5, <2>3
  <2> QED BY <1>5, <2>1, <2>2, <2>3
<1> QED BY <1>2, <1>4, <1>6 DEF FragmentCount

\* A fragment carries FragmentData bytes, or the rest of the message.
LEMMA FragmentSizeCases ==
  ASSUME NEW size \in Int, NEW index \in Int
  PROVE  FragmentSize(size, index) =
           IF FragmentData <= size - index * FragmentData THEN FragmentData
           ELSE size - index * FragmentData
<1>1. PICK a, b : a = FragmentData /\ b = size - index * FragmentData
  OBVIOUS
<1>2. a \in Int /\ b \in Int
  BY <1>1, CodecAssumption
<1>3. PICK m : m = CHOOSE x \in {a, b} : \A y \in {a, b} : x <= y
  OBVIOUS
<1>4. CASE a <= b
  <2>1. \A y \in {a, b} : a <= y
    BY <1>2, <1>4
  <2>2. m \in {a, b} /\ \A y \in {a, b} : m <= y
    BY <1>3, <2>1
  <2>3. m = a
    BY <1>2, <1>4, <2>2
  <2> QED BY <1>1, <1>3, <1>4, <2>3 DEF FragmentSize, Min
<1>5. CASE ~(a <= b)
  <2>1. \A y \in {a, b} : b <= y
    BY <1>2, <1>5
  <2>2. m \in {a, b} /\ \A y \in {a, b} : m <= y
    BY <1>3, <2>1
  <2>3. m = b
    BY <1>2, <1>5, <2>2
  <2> QED BY <1>1, <1>3, <1>5, <2>3 DEF FragmentSize, Min
<1> QED BY <1>4, <1>5

\* Where a fragment's bytes lie in its message, and how many they are.
LEMMA FragmentBounds ==
  ASSUME NEW size \in 1 .. MaxMessage, NEW index \in 0 .. FragmentCount(size) - 1
  PROVE  /\ index \in Nat /\ index * FragmentData \in Nat
         /\ FragmentSize(size, index) \in Nat
         /\ index * FragmentData + FragmentSize(size, index) <= size
<1>1. FragmentData \in Nat \ {0} /\ MaxMessage \in Nat
  BY CodecAssumption
<1>2. FragmentCount(size) =
        IF size <= FragmentData THEN 1
        ELSE IF size <= 2 * FragmentData THEN 2 ELSE 3
  BY FragmentCountCases
<1>3. PICK d, c : d = FragmentData /\ c = FragmentCount(size)
  OBVIOUS
<1>4. /\ index \in {0, 1, 2} /\ index < c /\ size \in Nat /\ d \in Nat
      /\ c = IF size <= d THEN 1 ELSE IF size <= 2 * d THEN 2 ELSE 3
  BY <1>1, <1>2, <1>3
<1>5. index * d \in Nat /\ size - index * d >= 0
  BY <1>1, <1>3, <1>4
<1>6. FragmentSize(size, index) =
        IF d <= size - index * d THEN d ELSE size - index * d
  BY <1>1, <1>3, <1>4, FragmentSizeCases
<1> QED BY <1>3, <1>4, <1>5, <1>6

\* Every fragment of a message is accepted, and its bytes are the message's.
LEMMA FragmentCarries ==
  ASSUME NEW S, NEW p \in Seq(S), Len(p) \in 1 .. MaxMessage,
         NEW index \in 0 .. FragmentCount(Len(p)) - 1,
         NEW f, f = EncodeFragment(p, index)
  PROVE  /\ ValidFragment(f) /\ f.size = Len(p) /\ f.checksum = p
         /\ f.index = index
         /\ Place(f) = index * FragmentData + 1 ..
                         index * FragmentData + FragmentSize(Len(p), index)
         /\ \A i \in Place(f) : f.data[i - f.index * FragmentData] = p[i]
<1>1. PICK o, n : o = index * FragmentData /\ n = FragmentSize(Len(p), index)
  OBVIOUS
<1>2. /\ index \in Nat /\ o \in Nat /\ n \in Nat /\ o + n <= Len(p)
  BY <1>1, FragmentBounds
<1>3. PICK s : s = Segment(p, o, n)
  OBVIOUS
<1>4. s \in Seq(S)
  BY <1>2, <1>3, SegmentTyped
<1>5. Len(s) = n /\ \A i \in 1 .. n : s[i] = p[o + i]
  <2>1. Copies(s, p, o, n)
    BY <1>2, <1>3, <1>4, SegmentShape
  <2> QED BY <2>1 DEF Copies
<1>6. f = [index |-> index, count |-> FragmentCount(Len(p)), size |-> Len(p),
           checksum |-> p, data |-> s]
  BY <1>1, <1>3 DEF EncodeFragment
<1>7. /\ f.index = index /\ f.size = Len(p) /\ f.checksum = p /\ f.data = s
      /\ f.count = FragmentCount(Len(p))
  BY <1>6
<1>8. FragmentCount(Len(p)) \in Nat
  <2>1. FragmentData \in Nat \ {0} /\ MaxMessage \in Nat
    BY CodecAssumption
  <2> QED BY <2>1, FragmentCountCases
<1>9. ValidFragment(f)
  BY <1>1, <1>5, <1>7, <1>8 DEF ValidFragment
<1>10. Place(f) = o + 1 .. o + n
  BY <1>1, <1>5, <1>7 DEF Place
<1>11. ASSUME NEW i \in Place(f)
       PROVE  f.data[i - f.index * FragmentData] = p[i]
  <2>1. i \in o + 1 .. o + n /\ f.index * FragmentData = o
    BY <1>1, <1>7, <1>10, <1>11
  <2>2. i - o \in 1 .. n /\ o + (i - o) = i
    BY <1>2, <2>1
  <2>3. s[i - o] = p[o + (i - o)]
    BY <1>5, <2>2
  <2> QED BY <1>7, <2>1, <2>2, <2>3
<1> QED BY <1>1, <1>7, <1>9, <1>10, <1>11

\* Every byte of a message is in one of its fragments.
LEMMA FragmentsCover ==
  ASSUME NEW size \in 1 .. MaxMessage, NEW i \in 1 .. size
  PROVE  \E j \in 0 .. FragmentCount(size) - 1 :
           i \in j * FragmentData + 1 ..
                 j * FragmentData + FragmentSize(size, j)
<1>1. /\ FragmentData \in Nat \ {0} /\ MaxMessage \in Nat
      /\ MaxMessage <= 3 * FragmentData
  BY CodecAssumption
<1>2. FragmentCount(size) =
        IF size <= FragmentData THEN 1
        ELSE IF size <= 2 * FragmentData THEN 2 ELSE 3
  BY FragmentCountCases
<1>3. PICK d, c : d = FragmentData /\ c = FragmentCount(size)
  OBVIOUS
<1>4. /\ size \in Nat /\ i \in Nat /\ d \in Nat /\ size <= 3 * d
      /\ c = IF size <= d THEN 1 ELSE IF size <= 2 * d THEN 2 ELSE 3
  BY <1>1, <1>2, <1>3
<1>5. PICK j : j = IF i <= d THEN 0 ELSE IF i <= 2 * d THEN 1 ELSE 2
  OBVIOUS
<1>6. j \in {0, 1, 2} /\ j \in 0 .. c - 1
  BY <1>4, <1>5
<1>7. FragmentSize(size, j) =
        IF d <= size - j * d THEN d ELSE size - j * d
  BY <1>3, <1>4, <1>6, FragmentSizeCases
<1>8. j * d = IF j = 0 THEN 0 ELSE IF j = 1 THEN d ELSE 2 * d
  BY <1>4, <1>6
<1>9. i \in j * d + 1 .. j * d + FragmentSize(size, j)
  BY <1>4, <1>5, <1>7, <1>8
<1> QED BY <1>3, <1>6, <1>9

\* The last of at most three copies to a byte.
LEMMA LastCopy ==
  ASSUME NEW C \in SUBSET {1, 2, 3}, C # {}
  PROVE  Max(C) \in C
<1>1. PICK x : x \in C
  OBVIOUS
<1>2. C \subseteq {1, 2, 3} /\ x \in {1, 2, 3}
  BY <1>1
<1>3. \E m \in C : \A y \in C : m >= y
  <2>1. CASE 3 \in C
    BY <1>2, <2>1
  <2>2. CASE 3 \notin C /\ 2 \in C
    BY <1>2, <2>2
  <2>3. CASE 3 \notin C /\ 2 \notin C
    BY <1>1, <1>2, <2>3
  <2> QED BY <2>1, <2>2, <2>3
<1> QED BY <1>3 DEF Max

\* The reassembler gives back the message, whatever order its fragments come
\* in and whatever an earlier message left behind.
LEMMA MessageReassembled ==
  ASSUME NEW S, NEW p \in Seq(S), Len(p) \in 1 .. MaxMessage,
         NEW payload \in Deliveries(p)
  PROVE  payload = p
<1>1. PICK c : c = FragmentCount(Len(p))
  OBVIOUS
<1>2. c \in {1, 2, 3}
  BY <1>1, FragmentCountCases
<1>3. PICK o \in [1 .. c -> 0 .. c - 1] :
        /\ 0 .. c - 1 \subseteq { o[i] : i \in 1 .. c }
        /\ payload = Reassembled([i \in 1 .. c |-> EncodeFragment(p, o[i])])
  BY <1>1 DEF Deliveries
<1>4. PICK F : F = [i \in 1 .. c |-> EncodeFragment(p, o[i])]
  OBVIOUS
<1>5. DOMAIN F = 1 .. c /\ Head(F) = F[1] /\ F # <<>> /\ 1 \in 1 .. c
  <2>1. PICK R : R = { EncodeFragment(p, o[i]) : i \in 1 .. c }
    OBVIOUS
  <2>2. F \in [1 .. c -> R] /\ c \in Nat
    BY <1>2, <1>4, <2>1
  <2>3. F \in Seq(R) /\ Len(F) = c
    BY <2>2
  <2> QED BY <1>2, <2>2, <2>3
<1>6. ASSUME NEW k \in 1 .. c
      PROVE  /\ ValidFragment(F[k]) /\ F[k].size = Len(p)
             /\ F[k].checksum = p /\ F[k].index = o[k]
             /\ Place(F[k]) = o[k] * FragmentData + 1 ..
                                o[k] * FragmentData + FragmentSize(Len(p), o[k])
             /\ \A i \in Place(F[k]) :
                  F[k].data[i - F[k].index * FragmentData] = p[i]
  <2>1. o[k] \in 0 .. FragmentCount(Len(p)) - 1
    BY <1>1, <1>3, <1>6
  <2>2. F[k] = EncodeFragment(p, o[k])
    BY <1>4, <1>6
  <2> QED BY <2>1, <2>2, FragmentCarries
<1>7. PICK m : m = Memory(F)
  OBVIOUS
<1>8. ASSUME NEW i \in 1 .. Len(p)
      PROVE  m[i] = p[i]
  <2>1. PICK C : C = { k \in DOMAIN F : ValidFragment(F[k]) /\ i \in Place(F[k]) }
    OBVIOUS
  <2>2. PICK j \in 0 .. c - 1 :
          i \in j * FragmentData + 1 ..
                j * FragmentData + FragmentSize(Len(p), j)
    BY <1>1, FragmentsCover
  <2>3. PICK k \in 1 .. c : o[k] = j
    BY <1>3, <2>2
  <2>4. k \in C
    BY <1>5, <1>6, <2>1, <2>2, <2>3
  <2>5. C \in SUBSET {1, 2, 3}
    BY <1>2, <1>5, <2>1
  <2>6. Max(C) \in C
    BY <2>4, <2>5, LastCopy
  <2>7. PICK l : l = Max(C)
    OBVIOUS
  <2>8. l \in 1 .. c /\ i \in Place(F[l])
    BY <1>5, <2>1, <2>6, <2>7
  <2>9. F[l].data[i - F[l].index * FragmentData] = p[i]
    BY <1>6, <2>8
  <2>10. i \in 1 .. MaxMessage
    <3>1. MaxMessage \in Nat
      BY CodecAssumption
    <3> QED BY <1>8, <3>1
  <2>11. m[i] = F[Max(C)].data[i - F[Max(C)].index * FragmentData]
    BY <1>7, <2>1, <2>4, <2>10 DEF Memory
  <2> QED BY <2>7, <2>9, <2>11
<1>9. PICK w : w = SubSeq(m, 1, Len(p))
  OBVIOUS
<1>10. \A i \in 1 .. Len(p) : m[i] \in S
  BY <1>8
<1>11. /\ w \in Seq(S) /\ Len(w) = Len(p)
       /\ \A i \in 1 .. Len(p) : w[i] = m[i]
  BY <1>9, <1>10, SubSeqProperties
<1>12. w = p
  BY <1>8, <1>11, SeqEqual
<1>13. Head(F).size = Len(p) /\ Head(F).checksum = p
  BY <1>5, <1>6
<1>14. Reassembled(F) = w
  BY <1>5, <1>7, <1>9, <1>12, <1>13 DEF Reassembled
<1> QED BY <1>3, <1>4, <1>12, <1>14

-----------------------------------------------------------------------------
(* Payloads: a header, four segments and a last part                       *)

\* A payload is a sequence like its parts.
LEMMA PartsTyped ==
  ASSUME NEW S, NEW a \in Seq(S), NEW b \in Seq(S), NEW c \in Seq(S),
         NEW d \in Seq(S), NEW e \in Seq(S), NEW z \in Seq(S)
  PROVE  a \o b \o c \o d \o e \o z \in Seq(S)
OBVIOUS

\* Each part of a payload p is at its offset.
Laid(p, a, b, c, d, e, z) ==
  LET n == Len(a) + Len(b) + Len(c) + Len(d) + Len(e) IN
  /\ Len(p) = n + Len(z)
  /\ \A i \in 1 .. Len(a) : p[i] = a[i]
  /\ Segment(p, Len(a), Len(b)) = b
  /\ Segment(p, Len(a) + Len(b), Len(c)) = c
  /\ Segment(p, Len(a) + Len(b) + Len(c), Len(d)) = d
  /\ Segment(p, Len(a) + Len(b) + Len(c) + Len(d), Len(e)) = e
  /\ Segment(p, n, Len(z)) = z
  /\ \A i \in 1 .. Len(z) : p[n + i] = z[i]

\* Parts that are put together are found again.
LEMMA PartsKept ==
  ASSUME NEW S, NEW a \in Seq(S), NEW b \in Seq(S), NEW c \in Seq(S),
         NEW d \in Seq(S), NEW e \in Seq(S), NEW z \in Seq(S)
  PROVE  Laid(a \o b \o c \o d \o e \o z, a, b, c, d, e, z)
<1>n. PICK n \in Nat : n = Len(a) + Len(b) + Len(c) + Len(d) + Len(e)
  OBVIOUS
<1>b. PICK p1 : p1 = a \o b
  OBVIOUS
<1>c. PICK p2 : p2 = p1 \o c
  OBVIOUS
<1>d. PICK p3 : p3 = p2 \o d
  OBVIOUS
<1>e. PICK p4 : p4 = p3 \o e
  OBVIOUS
<1>z. PICK p : p = p4 \o z
  OBVIOUS
<1>3. p1 \in Seq(S) /\ Len(p1) = Len(a) + Len(b)
  BY <1>b, ConcatProperties
<1>4. p2 \in Seq(S) /\ Len(p2) = Len(p1) + Len(c)
  BY <1>c, <1>3, ConcatProperties
<1>5. p3 \in Seq(S) /\ Len(p3) = Len(p2) + Len(d)
  BY <1>d, <1>4, ConcatProperties
<1>6. p4 \in Seq(S) /\ Len(p4) = Len(p3) + Len(e)
  BY <1>e, <1>5, ConcatProperties
<1>7. p \in Seq(S) /\ Len(p) = Len(p4) + Len(z)
  BY <1>z, <1>6, ConcatProperties
<1>8. /\ Len(a) \in Nat /\ Len(b) \in Nat /\ Len(c) \in Nat /\ Len(d) \in Nat
      /\ Len(e) \in Nat /\ Len(z) \in Nat
  OBVIOUS
<1>9. n = Len(p4)
  BY <1>n, <1>3, <1>4, <1>5, <1>6
<1>10. ASSUME NEW o \in Nat, NEW k \in Nat, o + k <= Len(p4)
       PROVE  Segment(p, o, k) = Segment(p4, o, k)
  BY <1>z, <1>6, <1>10, SegmentKept
<1>11. ASSUME NEW o \in Nat, NEW k \in Nat, o + k <= Len(p3)
       PROVE  Segment(p, o, k) = Segment(p3, o, k)
  <2>1. Segment(p4, o, k) = Segment(p3, o, k)
    BY <1>e, <1>5, <1>11, SegmentKept
  <2>2. o + k <= Len(p4)
    BY <1>5, <1>6, <1>8, <1>11
  <2> QED BY <1>10, <2>1, <2>2
<1>12. ASSUME NEW o \in Nat, NEW k \in Nat, o + k <= Len(p2)
       PROVE  Segment(p, o, k) = Segment(p2, o, k)
  <2>1. Segment(p3, o, k) = Segment(p2, o, k)
    BY <1>d, <1>4, <1>12, SegmentKept
  <2>2. o + k <= Len(p3)
    BY <1>4, <1>5, <1>8, <1>12
  <2> QED BY <1>11, <2>1, <2>2
<1>13. ASSUME NEW o \in Nat, NEW k \in Nat, o + k <= Len(p1)
       PROVE  Segment(p, o, k) = Segment(p1, o, k)
  <2>1. Segment(p2, o, k) = Segment(p1, o, k)
    BY <1>c, <1>3, <1>13, SegmentKept
  <2>2. o + k <= Len(p2)
    BY <1>3, <1>4, <1>8, <1>13
  <2> QED BY <1>12, <2>1, <2>2
<1>14. Segment(p, Len(a), Len(b)) = b
  <2>1. Segment(p1, Len(a), Len(b)) = b
    BY <1>b, SegmentLast
  <2> QED BY <1>3, <1>8, <1>13, <2>1
<1>15. Segment(p, Len(a) + Len(b), Len(c)) = c
  <2>1. Segment(p2, Len(p1), Len(c)) = c
    BY <1>c, <1>3, SegmentLast
  <2> QED BY <1>3, <1>4, <1>8, <1>12, <2>1
<1>16. Segment(p, Len(a) + Len(b) + Len(c), Len(d)) = d
  <2>1. Segment(p3, Len(p2), Len(d)) = d
    BY <1>d, <1>4, SegmentLast
  <2> QED BY <1>3, <1>4, <1>5, <1>8, <1>11, <2>1
<1>17. Segment(p, Len(a) + Len(b) + Len(c) + Len(d), Len(e)) = e
  <2>1. Segment(p4, Len(p3), Len(e)) = e
    BY <1>e, <1>5, SegmentLast
  <2> QED BY <1>3, <1>4, <1>5, <1>6, <1>8, <1>10, <2>1
<1>18. Segment(p, n, Len(z)) = z
  BY <1>z, <1>6, <1>9, SegmentLast
<1>19. \A i \in 1 .. Len(z) : p[n + i] = z[i]
  <2>1. p4 \in Seq(S)
    BY <1>6
  <2>2. \A i \in 1 .. Len(z) : p[Len(p4) + i] = z[i]
    BY <1>z, <2>1, ConcatProperties
  <2> QED BY <1>9, <2>2
<1>20. ASSUME NEW i \in 1 .. Len(a)
       PROVE  p[i] = a[i]
  <2>1. p1[i] = a[i]
    BY <1>b, <1>8, ConcatProperties
  <2>2. i \in 1 .. Len(p1) /\ p2[i] = p1[i]
    BY <1>c, <1>3, <1>8, ConcatProperties
  <2>3. i \in 1 .. Len(p2) /\ p3[i] = p2[i]
    BY <1>d, <1>3, <1>4, <1>8, <2>2, ConcatProperties
  <2>4. i \in 1 .. Len(p3) /\ p4[i] = p3[i]
    BY <1>e, <1>4, <1>5, <1>8, <2>3, ConcatProperties
  <2>5. p[i] = p4[i]
    BY <1>z, <1>5, <1>6, <1>8, <2>4, ConcatProperties
  <2> QED BY <2>1, <2>2, <2>3, <2>4, <2>5
<1>21. Len(p) = n + Len(z)
  BY <1>7, <1>9
<1>22. Laid(p, a, b, c, d, e, z)
  BY <1>n, <1>14, <1>15, <1>16, <1>17, <1>18, <1>19, <1>20, <1>21, Zenon DEF Laid
<1> QED BY <1>b, <1>c, <1>d, <1>e, <1>z, <1>22

\* A text without a NUL byte is read whole.
LEMMA TextWhole ==
  ASSUME NEW t \in Seq(Nat \ {0})
  PROVE  Text(t) = t
<1>1. { i \in DOMAIN t : t[i] = 0 } = {}
  OBVIOUS
<1> QED BY <1>1 DEF Text

\* A payload is never mistaken for the failure of a codec.
LEMMA PayloadDecodable ==
  ASSUME NEW p \in Seq(Nat)
  PROVE  p # Undecodable /\ p \in Seq(Elements)
<1>1. \A i \in 1 .. Len(p) : p[i] \in Elements
  BY DEF Elements
<1>2. p \in Seq(Elements)
  BY <1>1
<1> QED BY <1>2, UndecodableAssumption

-----------------------------------------------------------------------------
(* Commands                                                                *)

\* The texts and byte strings that a field of a message can hold.
Texts(max) == { t \in Seq(Nat \ {0}) : Len(t) <= max }
ByteStrings(max) == { b \in Seq(Nat) : Len(b) <= max }

\* Every valid command.
ValidCommands ==
  { c \in [device : Texts(MaxId), resource : Texts(MaxId), name : Texts(MaxName),
           body : ByteStrings(MaxBody), timeout : Nat, source : Texts(MaxId),
           boot : Nat] :
      ValidCommand(c) }

\* Texts are byte strings, and the limits are numbers.
LEMMA CommandFields ==
  ASSUME NEW c \in ValidCommands
  PROVE  /\ c.device \in Seq(Nat) /\ Len(c.device) \in 1 .. MaxId
         /\ c.resource \in Seq(Nat) /\ Len(c.resource) \in 0 .. MaxId
         /\ c.name \in Seq(Nat) /\ Len(c.name) \in 1 .. MaxName
         /\ c.body \in Seq(Nat) /\ Len(c.body) \in 0 .. MaxBody
         /\ c.source \in Seq(Nat) /\ Len(c.source) \in 0 .. MaxId
         /\ c.timeout \in Nat \ {0} /\ c.boot \in Nat
         /\ c.source # <<>> => Len(c.source) # 0 /\ c.boot # 0
         /\ Text(c.device) = c.device /\ Text(c.resource) = c.resource
         /\ Text(c.name) = c.name
         /\ \A i \in 1 .. Len(c.source) : c.source[i] # 0
         /\ ValidCommand(c)
         /\ c = [device |-> c.device, resource |-> c.resource, name |-> c.name,
                 body |-> c.body, timeout |-> c.timeout, source |-> c.source,
                 boot |-> c.boot]
<1>1. /\ c \in [device : Texts(MaxId), resource : Texts(MaxId),
                 name : Texts(MaxName), body : ByteStrings(MaxBody),
                 timeout : Nat, source : Texts(MaxId), boot : Nat]
      /\ ValidCommand(c)
  BY DEF ValidCommands
<1>2. /\ MaxId \in Nat /\ MaxName \in Nat /\ MaxBody \in Nat
  BY CodecAssumption
<1>3. ASSUME NEW max \in Nat, NEW t \in Texts(max)
      PROVE  /\ t \in Seq(Nat) /\ Len(t) \in 0 .. max /\ Text(t) = t
             /\ t # <<>> => Len(t) # 0
             /\ \A i \in 1 .. Len(t) : t[i] # 0
  <2>1. t \in Seq(Nat \ {0}) /\ Len(t) <= max
    BY <1>3 DEF Texts
  <2>2. Text(t) = t
    BY <2>1, TextWhole
  <2>3. \A i \in 1 .. Len(t) : t[i] \in Nat /\ t[i] # 0
    BY <2>1
  <2>4. t \in Seq(Nat)
    BY <2>1, <2>3
  <2>5. t # <<>> => Len(t) # 0
    BY <2>4, EmptySeq
  <2> QED BY <2>1, <2>2, <2>3, <2>4, <2>5
<1>4. c.body \in Seq(Nat) /\ Len(c.body) \in 0 .. MaxBody
  BY <1>1, <1>2 DEF ByteStrings
<1>5. /\ c.device # <<>> /\ c.name # <<>> /\ c.timeout # 0
      /\ (c.source = <<>>) = (c.boot = 0)
  BY <1>1 DEF ValidCommand
<1>6. /\ c.device \in Texts(MaxId) /\ c.resource \in Texts(MaxId)
      /\ c.name \in Texts(MaxName) /\ c.source \in Texts(MaxId)
      /\ c.timeout \in Nat /\ c.boot \in Nat
      /\ c = [device |-> c.device, resource |-> c.resource, name |-> c.name,
              body |-> c.body, timeout |-> c.timeout, source |-> c.source,
              boot |-> c.boot]
  BY <1>1
<1>7. /\ c.device \in Seq(Nat) /\ Len(c.device) \in 1 .. MaxId
      /\ Text(c.device) = c.device
  BY <1>2, <1>3, <1>5, <1>6
<1>8. /\ c.resource \in Seq(Nat) /\ Len(c.resource) \in 0 .. MaxId
      /\ Text(c.resource) = c.resource
  BY <1>2, <1>3, <1>6
<1>9. /\ c.name \in Seq(Nat) /\ Len(c.name) \in 1 .. MaxName
      /\ Text(c.name) = c.name
  BY <1>2, <1>3, <1>5, <1>6
<1>10. /\ c.source \in Seq(Nat) /\ Len(c.source) \in 0 .. MaxId
       /\ c.source # <<>> => Len(c.source) # 0
       /\ \A i \in 1 .. Len(c.source) : c.source[i] # 0
  BY <1>2, <1>3, <1>6
<1> QED BY <1>1, <1>4, <1>5, <1>6, <1>7, <1>8, <1>9, <1>10

\* The source identity as it is appended to a command.
Identifies(z, k, boot, src) ==
  /\ Len(z) = 2 + k /\ z[1] = k /\ z[2] = boot
  /\ \A i \in 1 .. k : z[2 + i] = src[i]

\* Its length, its boot and its bytes, in this order.
LEMMA IdentityAppended ==
  ASSUME NEW S, NEW g \in Seq(S), NEW src \in Seq(S), NEW k \in Nat, NEW boot,
         k = Len(src), g = <<k, boot>>, NEW z \in Seq(S), z = g \o src
  PROVE  Identifies(z, k, boot, src)
<1>1. Len(g) = 2 /\ g[1] = k /\ g[2] = boot
  OBVIOUS
<1>2. Len(z) = 2 + k
  BY <1>1, ConcatProperties
<1>3. \A i \in 1 .. 2 + k : z[i] = IF i <= 2 THEN g[i] ELSE src[i - 2]
  BY <1>1, ConcatProperties
<1>4. z[1] = k /\ z[2] = boot
  BY <1>1, <1>3
<1>5. \A i \in 1 .. k : z[2 + i] = src[i]
  BY <1>3
<1> QED BY <1>2, <1>4, <1>5 DEF Identifies

\* A part that is found element by element.
LEMMA SegmentIs ==
  ASSUME NEW S, NEW q \in Seq(S), NEW b \in Seq(S), NEW o \in Nat,
         o + Len(b) <= Len(q), \A i \in 1 .. Len(b) : q[o + i] = b[i]
  PROVE  Segment(q, o, Len(b)) = b
<1>1. PICK s : s = Segment(q, o, Len(b))
  OBVIOUS
<1>2. s \in Seq(S)
  BY <1>1, SegmentTyped
<1>3. Len(s) = Len(b) /\ \A i \in 1 .. Len(b) : s[i] = q[o + i]
  <2>1. Copies(s, q, o, Len(b))
    BY <1>1, <1>2, SegmentShape
  <2> QED BY <2>1 DEF Copies
<1>4. s = b
  BY <1>2, <1>3, SeqEqual
<1> QED BY <1>1, <1>4

\* The elements of a command's header.
LEMMA CommandHeaderShape ==
  ASSUME NEW v \in Nat, NEW d \in Nat, NEW r \in Nat, NEW m \in Nat,
         NEW b \in Nat, NEW t \in Nat, NEW h, h = <<v, d, r, m, b, t>>
  PROVE  /\ h \in Seq(Nat) /\ Len(h) = 6 /\ h[1] = v /\ h[2] = d /\ h[3] = r
         /\ h[4] = m /\ h[5] = b /\ h[6] = t
OBVIOUS

\* decode takes the source identity from behind the segments.
SourceRead(q, n, src) ==
  SourceOk(q, n) /\ Segment(q, n + 2, q[n + 1]) = src

\* The bytes of the source identity are found again after its length and boot.
LEMMA SourceFound ==
  ASSUME NEW S, NEW q \in Seq(S), NEW n \in Nat, NEW src \in Seq(S),
         NEW k \in Nat, k = Len(src), NEW boot \in Nat,
         Len(q) = n + 2 + k, q[n + 1] = k, q[n + 2] = boot,
         \A i \in 1 .. k : q[n + 2 + i] = src[i],
         k \in 1 .. MaxId, boot # 0, \A i \in 1 .. k : src[i] # 0
  PROVE  SourceRead(q, n, src)
<1>1. ASSUME NEW i \in n + 3 .. Len(q)
      PROVE  q[i] # 0
  <2>1. PICK l \in 1 .. k : i = n + 2 + l
    <3>1. i - n - 2 \in 1 .. k /\ i = n + 2 + (i - n - 2)
      BY <1>1
    <3> QED BY <3>1
  <2> QED BY <2>1
<1>2. SourceOk(q, n)
  BY <1>1 DEF SourceOk
<1>3. PICK o \in Nat : o = n + 2
  OBVIOUS
<1>4. Segment(q, o, Len(src)) = src
  <2>1. o + Len(src) <= Len(q)
    BY <1>3
  <2>2. \A i \in 1 .. Len(src) : q[o + i] = src[i]
    BY <1>3
  <2> QED BY <2>1, <2>2, SegmentIs
<1> QED BY <1>2, <1>3, <1>4 DEF SourceRead

\* Every valid command is encoded, the largest one included, and decoded as it
\* was.
LEMMA CommandDecoded ==
  ASSUME NEW c \in ValidCommands, NEW p, p = EncodeCommand(c)
  PROVE  p \in Seq(Nat) /\ Len(p) \in 1 .. MaxMessage /\ DecodeCommand(p) = c
<1>1. /\ MaxId \in Nat /\ MaxName \in Nat /\ MaxBody \in Nat
      /\ MaxMessage \in Nat /\ MaxCommand <= MaxMessage
      /\ MaxCommand = 6 + 3 * MaxId + MaxName + MaxBody + 2
  BY CodecAssumption DEF MaxCommand, CommandHeader
<1>2. /\ c.device \in Seq(Nat) /\ Len(c.device) \in 1 .. MaxId
      /\ c.resource \in Seq(Nat) /\ Len(c.resource) \in 0 .. MaxId
      /\ c.name \in Seq(Nat) /\ Len(c.name) \in 1 .. MaxName
      /\ c.body \in Seq(Nat) /\ Len(c.body) \in 0 .. MaxBody
      /\ c.source \in Seq(Nat) /\ Len(c.source) \in 0 .. MaxId
      /\ c.timeout \in Nat \ {0} /\ c.boot \in Nat
      /\ c.source # <<>> => Len(c.source) # 0 /\ c.boot # 0
      /\ \A i \in 1 .. Len(c.source) : c.source[i] # 0
  BY CommandFields
<1>35. PICK S : S = Nat
  OBVIOUS
<1>3. PICK dev \in Seq(S), res \in Seq(S), nam \in Seq(S),
           bod \in Seq(S), src \in Seq(S), t \in Nat \ {0}, boot \in Nat :
        /\ dev = c.device /\ res = c.resource /\ nam = c.name /\ bod = c.body
        /\ src = c.source /\ t = c.timeout /\ boot = c.boot
  BY <1>2, <1>35
<1>4. PICK d \in Nat, r \in Nat, m \in Nat, b \in Nat, k \in Nat, v \in {1, 2} :
        /\ d = Len(dev) /\ r = Len(res) /\ m = Len(nam) /\ b = Len(bod)
        /\ k = Len(src) /\ v = IF src = <<>> THEN 1 ELSE 2
  OBVIOUS
<1>5. /\ d \in 1 .. MaxId /\ r \in 0 .. MaxId /\ m \in 1 .. MaxName
      /\ b \in 0 .. MaxBody /\ k \in 0 .. MaxId
      /\ src # <<>> => k # 0 /\ boot # 0
      /\ \A i \in 1 .. k : src[i] # 0
  BY <1>2, <1>3, <1>4
<1>6. PICK h : h = <<v, d, r, m, b, t>>
  OBVIOUS
<1>7. /\ h \in Seq(S) /\ Len(h) = 6 /\ h[1] = v /\ h[2] = d /\ h[3] = r
      /\ h[4] = m /\ h[5] = b /\ h[6] = t
  <2>1. v \in Nat /\ t \in Nat
    OBVIOUS
  <2> QED BY <1>6, <1>35, <2>1, CommandHeaderShape
<1>8. PICK z : z = IF src = <<>> THEN <<>> ELSE <<k, boot>> \o src
  OBVIOUS
<1>9. /\ z \in Seq(S)
      /\ src = <<>> => Len(z) = 0
      /\ src # <<>> => Identifies(z, k, boot, src)
  <2>1. CASE src = <<>>
    BY <1>8, <2>1
  <2>2. CASE src # <<>>
    <3>1. PICK g : g = <<k, boot>>
      OBVIOUS
    <3>2. g \in Seq(S)
      BY <1>35, <3>1
    <3>3. z = g \o src
      BY <1>8, <2>2, <3>1
    <3>4. z \in Seq(S)
      BY <3>2, <3>3
    <3>5. Identifies(z, k, boot, src)
      BY <1>4, <3>1, <3>2, <3>3, <3>4, IdentityAppended
    <3> QED BY <2>2, <3>4, <3>5
  <2> QED BY <2>1, <2>2
<1>10. PICK q : q = h \o dev \o res \o nam \o bod \o z
  OBVIOUS
<1>11. PICK n \in Nat : n = Len(h) + Len(dev) + Len(res) + Len(nam) + Len(bod)
  BY <1>7
<1>33. q \in Seq(S)
  BY <1>7, <1>9, <1>10, PartsTyped
<1>12. /\ Len(q) = n + Len(z)
       /\ \A i \in 1 .. Len(h) : q[i] = h[i]
       /\ Segment(q, Len(h), Len(dev)) = dev
       /\ Segment(q, Len(h) + Len(dev), Len(res)) = res
       /\ Segment(q, Len(h) + Len(dev) + Len(res), Len(nam)) = nam
       /\ Segment(q, Len(h) + Len(dev) + Len(res) + Len(nam), Len(bod)) = bod
       /\ \A i \in 1 .. Len(z) : q[n + i] = z[i]
  <2>1. Laid(q, h, dev, res, nam, bod, z)
    BY <1>7, <1>9, <1>10, PartsKept
  <2> QED BY <1>11, <2>1, Zenon DEF Laid
<1>13. n = 6 + d + r + m + b
  BY <1>4, <1>7, <1>11
<1>14. PICK l \in Nat : l = Len(z) /\ l <= 2 + MaxId /\ (src = <<>> => l = 0)
  BY <1>1, <1>5, <1>9 DEF Identifies
<1>34. Len(q) = n + l
  BY <1>12, <1>14
<1>15. Len(q) \in 1 .. MaxCommand /\ n <= Len(q) /\ 6 <= Len(q)
  BY <1>1, <1>5, <1>13, <1>14, <1>34
<1>16. /\ q[1] = v /\ q[2] = d /\ q[3] = r /\ q[4] = m /\ q[5] = b /\ q[6] = t
  BY <1>7, <1>12
<1>17. ValidCommand(c)
  BY CommandFields
<1>18. EncodeCommand(c) = q
  <2>1. q = << IF c.source = <<>> THEN 1 ELSE 2, Len(c.device), Len(c.resource),
               Len(c.name), Len(c.body), c.timeout >>
            \o c.device \o c.resource \o c.name \o c.body
            \o IF c.source = <<>> THEN <<>>
               ELSE <<Len(c.source), c.boot>> \o c.source
    BY <1>3, <1>4, <1>6, <1>8, <1>10, Zenon
  <2>2. Len(q) <= MaxCommand
    BY <1>1, <1>15
  <2> QED BY <1>17, <2>1, <2>2, Zenon DEF EncodeCommand, FitsCommand
<1>19. CommandSizesOk(q, n)
  <2>1. q[1] = 1 => n = Len(q)
    <3>1. v = 1 => src = <<>>
      BY <1>4
    <3> QED BY <1>14, <1>16, <1>34, <3>1
  <2> QED BY <1>1, <1>5, <1>15, <1>16, <2>1 DEF CommandSizesOk
<1>20. ASSUME src # <<>>
       PROVE  /\ SourceOk(q, n) /\ q[n + 2] = boot
              /\ Segment(q, n + 2, q[n + 1]) = src
  <2>1. /\ k \in 1 .. MaxId /\ boot # 0 /\ \A i \in 1 .. k : src[i] # 0
    BY <1>1, <1>5, <1>20
  <2>2. /\ Len(z) = 2 + k /\ z[1] = k /\ z[2] = boot
        /\ \A i \in 1 .. k : z[2 + i] = src[i]
    BY <1>9, <1>20 DEF Identifies
  <2>3. /\ Len(q) = n + 2 + k /\ q[n + 1] = k /\ q[n + 2] = boot
    BY <1>12, <2>2
  <2>4. ASSUME NEW i \in 1 .. k
        PROVE  q[n + 2 + i] = src[i]
    <3>1. 2 + i \in 1 .. Len(z) /\ n + (2 + i) = n + 2 + i
      BY <2>2, <2>4
    <3>2. q[n + (2 + i)] = z[2 + i]
      BY <1>12, <3>1
    <3> QED BY <2>2, <3>1, <3>2
  <2>5. k = Len(src)
    BY <1>4
  <2>6. SourceRead(q, n, src)
    BY <1>33, <2>1, <2>3, <2>4, <2>5, SourceFound
  <2> QED BY <2>3, <2>6 DEF SourceRead
<1>21. src = <<>> => boot = 0
  BY <1>3, <1>17 DEF ValidCommand
<1>22. /\ Text(dev) = dev /\ Text(res) = res /\ Text(nam) = nam
  BY <1>3, CommandFields
<1>23. c = [device |-> dev, resource |-> res, name |-> nam, body |-> bod,
            timeout |-> t, source |-> src, boot |-> boot]
  BY <1>3, CommandFields
<1>24. PICK o1, o2, o3, o4 :
         /\ o1 = CommandHeader + q[2] /\ o2 = o1 + q[3] /\ o3 = o2 + q[4]
         /\ o4 = o3 + q[5]
  OBVIOUS
<1>25. o1 = 6 + d /\ o2 = 6 + d + r /\ o3 = 6 + d + r + m /\ o4 = n
  BY <1>13, <1>16, <1>24 DEF CommandHeader
<1>26. /\ Segment(q, 6, d) = dev /\ Segment(q, 6 + d, r) = res
       /\ Segment(q, 6 + d + r, m) = nam /\ Segment(q, 6 + d + r + m, b) = bod
  BY <1>4, <1>7, <1>12
<1>27. /\ Text(Segment(q, CommandHeader, q[2])) = dev
       /\ Text(Segment(q, o1, q[3])) = res /\ Text(Segment(q, o2, q[4])) = nam
       /\ Segment(q, o3, q[5]) = bod
  BY <1>16, <1>22, <1>25, <1>26 DEF CommandHeader
<1>28. /\ src = IF q[1] = 1 THEN <<>> ELSE Segment(q, o4 + 2, q[o4 + 1])
       /\ boot = IF q[1] = 1 THEN 0 ELSE q[o4 + 2]
  BY <1>4, <1>16, <1>20, <1>21, <1>25
<1>29. [device |-> Text(Segment(q, CommandHeader, q[2])),
        resource |-> Text(Segment(q, o1, q[3])),
        name |-> Text(Segment(q, o2, q[4])),
        body |-> Segment(q, o3, q[5]), timeout |-> q[6],
        source |-> IF q[1] = 1 THEN <<>> ELSE Segment(q, o4 + 2, q[o4 + 1]),
        boot |-> IF q[1] = 1 THEN 0 ELSE q[o4 + 2]] = c
  BY <1>16, <1>23, <1>27, <1>28, Zenon
<1>30. /\ Len(q) >= CommandHeader /\ q[1] \in {1, 2} /\ CommandSizesOk(q, o4)
       /\ q[1] = 2 => SourceOk(q, o4)
  <2>1. Len(q) >= CommandHeader
    BY <1>15 DEF CommandHeader
  <2>2. q[1] \in {1, 2} /\ (q[1] = 2 => src # <<>>)
    BY <1>4, <1>16
  <2> QED BY <1>19, <1>20, <1>25, <2>1, <2>2
<1>31. DecodeCommand(q) = c
  BY <1>17, <1>24, <1>29, <1>30, Zenon DEF DecodeCommand
<1>32. Len(q) \in 1 .. MaxMessage
  BY <1>1, <1>15
<1> QED BY <1>35, <1>33, <1>18, <1>31, <1>32

\* A valid command is sent and decoded unchanged, with and without a source
\* identity, whatever the order its fragments arrive in and whatever an earlier
\* message left in the reassembly buffer (EspNowCommandCodec,
\* EspNowFrameReassembler::accept).
THEOREM CommandsSurvive ==
  ASSUME NEW c \in ValidCommands
  PROVE  CommandSurvives(c)
<1>1. PICK p : p = EncodeCommand(c)
  OBVIOUS
<1>2. p \in Seq(Nat) /\ Len(p) \in 1 .. MaxMessage /\ DecodeCommand(p) = c
  BY <1>1, CommandDecoded
<1>3. p # Undecodable
  BY <1>2, PayloadDecodable
<1>4. \A payload \in Deliveries(p) : payload = p
  BY <1>2, MessageReassembled
<1> QED BY <1>1, <1>2, <1>3, <1>4 DEF CommandSurvives

-----------------------------------------------------------------------------
(* Results                                                                 *)

\* Every consistent snapshot and every consistent result.
ConsistentStates ==
  { s \in [completeness : Completenesses, schema : Texts(MaxSchema),
           data : ByteStrings(MaxData)] :
      ConsistentState(s) }

ConsistentResults ==
  { r \in [status : ResultStatuses, started : BOOLEAN, hasEstimate : BOOLEAN,
           estimate : Nat, hasProgress : BOOLEAN, progress : Nat,
           hasExpected : BOOLEAN, expected : ConsistentStates,
           remote : ConsistentStates, code : ErrorCodes, retryable : BOOLEAN,
           error : Texts(MaxError)] :
      ConsistentResult(r) }

\* A text as part of a payload.
LEMMA TextPart ==
  ASSUME NEW max \in Nat, NEW t \in Texts(max)
  PROVE  /\ t \in Seq(Elements) /\ Len(t) \in 0 .. max /\ Text(t) = t
         /\ (t = <<>>) = (Len(t) = 0)
<1>1. t \in Seq(Nat \ {0}) /\ Len(t) <= max
  BY DEF Texts
<1>2. Text(t) = t
  BY <1>1, TextWhole
<1>3. \A i \in 1 .. Len(t) : t[i] \in Nat
  BY <1>1
<1>4. t \in Seq(Nat)
  BY <1>1, <1>3
<1>5. t \in Seq(Elements)
  BY <1>4, PayloadDecodable
<1>6. (t = <<>>) = (Len(t) = 0)
  BY <1>4, EmptySeq
<1> QED BY <1>1, <1>2, <1>4, <1>5, <1>6

\* The segments of a snapshot are both present or both absent.
LEMMA StateParts ==
  ASSUME NEW s \in ConsistentStates
  PROVE  /\ s.schema \in Seq(Elements) /\ Len(s.schema) \in 0 .. MaxSchema
         /\ s.data \in Seq(Elements) /\ Len(s.data) \in 0 .. MaxData
         /\ Text(s.schema) = s.schema
         /\ s.completeness \in Completenesses
         /\ (s = NoState) = (s.completeness = "NOT_PROVIDED")
         /\ (s.completeness # "NOT_PROVIDED")
              = (Len(s.schema) # 0 /\ Len(s.data) # 0)
         /\ s = [completeness |-> s.completeness, schema |-> s.schema,
                 data |-> s.data]
<1>1. /\ s \in [completeness : Completenesses, schema : Texts(MaxSchema),
                 data : ByteStrings(MaxData)]
      /\ ConsistentState(s)
  BY DEF ConsistentStates
<1>2. MaxSchema \in Nat /\ MaxData \in Nat
  BY CodecAssumption
<1>3. /\ s.completeness \in Completenesses /\ s.schema \in Texts(MaxSchema)
      /\ s.data \in ByteStrings(MaxData)
      /\ s = [completeness |-> s.completeness, schema |-> s.schema,
              data |-> s.data]
  BY <1>1
<1>4. /\ s.schema \in Seq(Elements) /\ Len(s.schema) \in 0 .. MaxSchema
      /\ Text(s.schema) = s.schema /\ (s.schema = <<>>) = (Len(s.schema) = 0)
  BY <1>2, <1>3, TextPart
<1>5. s.data \in Seq(Nat) /\ Len(s.data) \in 0 .. MaxData
  BY <1>2, <1>3 DEF ByteStrings
<1>6. s.data \in Seq(Elements)
  BY <1>5, PayloadDecodable
<1>7. (s.data = <<>>) = (Len(s.data) = 0)
  BY <1>5, EmptySeq
<1>8. CASE s.completeness = "NOT_PROVIDED"
  <2>1. s = NoState
    BY <1>1, <1>8 DEF ConsistentState
  <2>2. s.schema = <<>>
    BY <2>1 DEF NoState
  <2> QED BY <1>3, <1>4, <1>5, <1>6, <1>8, <2>1, <2>2
<1>9. CASE s.completeness # "NOT_PROVIDED"
  <2>1. s.schema # <<>> /\ s.data # <<>>
    BY <1>1, <1>9 DEF ConsistentState
  <2>2. s # NoState
    BY <1>9 DEF NoState
  <2> QED BY <1>3, <1>4, <1>5, <1>6, <1>7, <1>9, <2>1, <2>2
<1> QED BY <1>8, <1>9

\* The flag bits are those of the result.
LEMMA FlagsOfResult ==
  ASSUME NEW r, r.started \in BOOLEAN, r.hasEstimate \in BOOLEAN,
         r.hasProgress \in BOOLEAN, r.hasExpected \in BOOLEAN
  PROVE  /\ Flags(r) \subseteq FlagNames
         /\ ("STARTED" \in Flags(r)) = r.started
         /\ ("ESTIMATED" \in Flags(r)) = r.hasEstimate
         /\ ("PROGRESS" \in Flags(r)) = r.hasProgress
         /\ ("EXPECTED" \in Flags(r)) = r.hasExpected
         /\ ("REMOTE" \in Flags(r)) = (r.remote.completeness # "NOT_PROVIDED")
         /\ ("ERROR" \in Flags(r)) = (r.code # "NONE")
<1>1. Flags(r) \subseteq FlagNames
  BY DEF Flags
<1>2. ("STARTED" \in Flags(r)) = r.started
  BY DEF Flags, FlagNames
<1>3. ("ESTIMATED" \in Flags(r)) = r.hasEstimate
  BY DEF Flags, FlagNames
<1>4. ("PROGRESS" \in Flags(r)) = r.hasProgress
  BY DEF Flags, FlagNames
<1>5. ("EXPECTED" \in Flags(r)) = r.hasExpected
  BY DEF Flags, FlagNames
<1>6. ("REMOTE" \in Flags(r)) = (r.remote.completeness # "NOT_PROVIDED")
  BY DEF Flags, FlagNames
<1>7. ("ERROR" \in Flags(r)) = (r.code # "NONE")
  BY DEF Flags, FlagNames
<1> QED BY <1>1, <1>2, <1>3, <1>4, <1>5, <1>6, <1>7

\* The parts of a result.
LEMMA ResultParts ==
  ASSUME NEW r \in ConsistentResults
  PROVE  /\ r.status \in ResultStatuses /\ r.code \in ErrorCodes
         /\ r.started \in BOOLEAN /\ r.hasEstimate \in BOOLEAN
         /\ r.hasProgress \in BOOLEAN /\ r.hasExpected \in BOOLEAN
         /\ r.retryable \in BOOLEAN /\ r.estimate \in Nat /\ r.progress \in Nat
         /\ r.expected \in ConsistentStates /\ r.remote \in ConsistentStates
         /\ r.error \in Texts(MaxError) /\ ConsistentResult(r)
         /\ r = [status |-> r.status, started |-> r.started,
                 hasEstimate |-> r.hasEstimate, estimate |-> r.estimate,
                 hasProgress |-> r.hasProgress, progress |-> r.progress,
                 hasExpected |-> r.hasExpected, expected |-> r.expected,
                 remote |-> r.remote, code |-> r.code,
                 retryable |-> r.retryable, error |-> r.error]
<1>1. /\ r \in [status : ResultStatuses, started : BOOLEAN,
                 hasEstimate : BOOLEAN, estimate : Nat, hasProgress : BOOLEAN,
                 progress : Nat, hasExpected : BOOLEAN,
                 expected : ConsistentStates, remote : ConsistentStates,
                 code : ErrorCodes, retryable : BOOLEAN,
                 error : Texts(MaxError)]
      /\ ConsistentResult(r)
  BY DEF ConsistentResults
<1> QED BY <1>1

\* What consistency says of the flags that stand for a part.
LEMMA ResultFlags ==
  ASSUME NEW r \in ConsistentResults
  PROVE  /\ r.hasExpected = (r.expected.completeness # "NOT_PROVIDED")
         /\ (r.code # "NONE") = (r.error # <<>>)
         /\ r.code = "NONE" => r.retryable = FALSE /\ r.error = <<>>
<1>1. /\ (r.expected # NoState) = r.hasExpected
      /\ IF r.code = "NONE" THEN ~r.retryable /\ r.error = <<>>
         ELSE r.error # <<>>
  BY ResultParts DEF ConsistentResult
<1>2. /\ r.hasExpected \in BOOLEAN /\ r.retryable \in BOOLEAN
      /\ r.expected \in ConsistentStates
  BY ResultParts
<1>3. (r.expected = NoState) = (r.expected.completeness = "NOT_PROVIDED")
  BY <1>2, StateParts
<1> QED BY <1>1, <1>2, <1>3

\* A result as it is encoded: its header and its segments.
ResultHeaderOf(r) ==
  << 1, r.status, Flags(r), r.expected.completeness,
     r.remote.completeness, r.code, r.retryable, r.progress, r.estimate,
     Len(r.expected.schema), Len(r.expected.data), Len(r.remote.schema),
     Len(r.remote.data), Len(r.error) >>

\* The header fields are elements of a payload.
LEMMA ResultHeaderTyped ==
  ASSUME NEW r \in ConsistentResults, NEW h, h = ResultHeaderOf(r)
  PROVE  /\ h \in Seq(Elements) /\ Len(h) = 14
         /\ h[1] = 1 /\ h[2] = r.status /\ h[3] = Flags(r)
         /\ h[4] = r.expected.completeness /\ h[5] = r.remote.completeness
         /\ h[6] = r.code /\ h[7] = r.retryable /\ h[8] = r.progress
         /\ h[9] = r.estimate /\ h[10] = Len(r.expected.schema)
         /\ h[11] = Len(r.expected.data) /\ h[12] = Len(r.remote.schema)
         /\ h[13] = Len(r.remote.data) /\ h[14] = Len(r.error)
<1>1. /\ r.status \in ResultStatuses /\ r.code \in ErrorCodes
      /\ r.started \in BOOLEAN /\ r.hasEstimate \in BOOLEAN
      /\ r.hasProgress \in BOOLEAN /\ r.hasExpected \in BOOLEAN
      /\ r.retryable \in BOOLEAN /\ r.estimate \in Nat /\ r.progress \in Nat
      /\ r.expected \in ConsistentStates /\ r.remote \in ConsistentStates
      /\ r.error \in Texts(MaxError)
  BY ResultParts
<1>2. Nat \subseteq Elements /\ BOOLEAN \subseteq Elements
      /\ SUBSET FlagNames \subseteq Elements
  BY Zenon DEF Elements
<1>3. /\ ResultStatuses \subseteq Elements /\ ErrorCodes \subseteq Elements
      /\ Completenesses \subseteq Elements
  BY Zenon DEF Elements
<1>4. /\ r.expected.completeness \in Completenesses
      /\ r.expected.schema \in Seq(Elements) /\ r.expected.data \in Seq(Elements)
  BY <1>1, StateParts
<1>5. /\ r.remote.completeness \in Completenesses
      /\ r.remote.schema \in Seq(Elements) /\ r.remote.data \in Seq(Elements)
  BY <1>1, StateParts
<1>6. r.error \in Seq(Elements)
  <2>1. MaxError \in Nat
    BY CodecAssumption
  <2> QED BY <1>1, <2>1, TextPart
<1>7. Flags(r) \in SUBSET FlagNames
  BY DEF Flags
<1>8. PICK S : S = Elements
  OBVIOUS
<1>9. /\ 1 \in S /\ r.progress \in S /\ r.estimate \in S
  BY <1>1, <1>2, <1>8
<1>10. /\ r.status \in S /\ r.code \in S
       /\ r.expected.completeness \in S /\ r.remote.completeness \in S
  BY <1>1, <1>2, <1>3, <1>4, <1>5, <1>8, Zenon
<1>11. r.retryable \in S
  BY <1>1, <1>2, <1>8, Zenon
<1>12. Flags(r) \in S
  BY <1>2, <1>7, <1>8, Zenon
<1>13. /\ Len(r.expected.schema) \in Nat /\ Len(r.expected.data) \in Nat
       /\ Len(r.remote.schema) \in Nat /\ Len(r.remote.data) \in Nat
       /\ Len(r.error) \in Nat
  BY <1>4, <1>5, <1>6, LenProperties, Zenon
<1>14. /\ Len(r.expected.schema) \in S /\ Len(r.expected.data) \in S
       /\ Len(r.remote.schema) \in S /\ Len(r.remote.data) \in S
       /\ Len(r.error) \in S
  BY <1>2, <1>8, <1>13, Zenon
<1>15. PICK x2, x3, x4, x5, x6, x7, x8, x9, x10, x11, x12, x13, x14 :
         /\ x2 = r.status /\ x3 = Flags(r) /\ x4 = r.expected.completeness
         /\ x5 = r.remote.completeness /\ x6 = r.code /\ x7 = r.retryable
         /\ x8 = r.progress /\ x9 = r.estimate
         /\ x10 = Len(r.expected.schema) /\ x11 = Len(r.expected.data)
         /\ x12 = Len(r.remote.schema) /\ x13 = Len(r.remote.data)
         /\ x14 = Len(r.error)
  OBVIOUS
<1>16. h = <<1, x2, x3, x4, x5, x6, x7, x8, x9, x10, x11, x12, x13, x14>>
  BY <1>15, Zenon DEF ResultHeaderOf
<1>17. /\ x2 \in S /\ x3 \in S /\ x4 \in S /\ x5 \in S /\ x6 \in S /\ x7 \in S
       /\ x8 \in S /\ x9 \in S /\ x10 \in S /\ x11 \in S /\ x12 \in S
       /\ x13 \in S /\ x14 \in S
  BY <1>9, <1>10, <1>11, <1>12, <1>14, <1>15, Zenon
<1>18. /\ h \in Seq(S) /\ Len(h) = 14 /\ h[1] = 1 /\ h[2] = x2 /\ h[3] = x3
       /\ h[4] = x4 /\ h[5] = x5 /\ h[6] = x6 /\ h[7] = x7 /\ h[8] = x8
       /\ h[9] = x9 /\ h[10] = x10 /\ h[11] = x11 /\ h[12] = x12
       /\ h[13] = x13 /\ h[14] = x14
  BY <1>9, <1>16, <1>17
<1> QED BY <1>8, <1>15, <1>18, Zenon

\* The payload of a result, before its size is checked: its parts at their
\* offsets.
LEMMA ResultLaid ==
  ASSUME NEW r \in ConsistentResults, NEW h, h = ResultHeaderOf(r), NEW q,
         q = h \o r.expected.schema \o r.expected.data
               \o r.remote.schema \o r.remote.data \o r.error
  PROVE  /\ q \in Seq(Elements)
         /\ Laid(q, h, r.expected.schema, r.expected.data, r.remote.schema,
                 r.remote.data, r.error)
<1>1. /\ r.expected \in ConsistentStates /\ r.remote \in ConsistentStates
      /\ r.error \in Texts(MaxError)
  BY ResultParts
<1>2. PICK S : S = Elements
  OBVIOUS
<1>3. PICK a, b, c, d, e :
        /\ a = r.expected.schema /\ b = r.expected.data /\ c = r.remote.schema
        /\ d = r.remote.data /\ e = r.error
  OBVIOUS
<1>4. h \in Seq(S)
  BY <1>2, ResultHeaderTyped
<1>5. a \in Seq(S) /\ b \in Seq(S)
  BY <1>1, <1>2, <1>3, StateParts
<1>6. c \in Seq(S) /\ d \in Seq(S)
  BY <1>1, <1>2, <1>3, StateParts
<1>7. e \in Seq(S)
  <2>1. MaxError \in Nat
    BY CodecAssumption
  <2> QED BY <1>1, <1>2, <1>3, <2>1, TextPart
<1>8. q = h \o a \o b \o c \o d \o e
  BY <1>3
<1>9. q \in Seq(S)
  BY <1>4, <1>5, <1>6, <1>7, <1>8, PartsTyped
<1>10. Laid(q, h, a, b, c, d, e)
  BY <1>4, <1>5, <1>6, <1>7, <1>8, PartsKept
<1> QED BY <1>2, <1>3, <1>9, <1>10

\* decode accepts the header and finds the parts again.
LEMMA ResultRead ==
  ASSUME NEW r \in ConsistentResults, NEW h, h = ResultHeaderOf(r),
         NEW q \in Seq(Elements),
         Laid(q, h, r.expected.schema, r.expected.data, r.remote.schema,
              r.remote.data, r.error)
  PROVE  DecodeResult(q) = r
<1>1. /\ r.status \in ResultStatuses /\ r.code \in ErrorCodes
      /\ r.started \in BOOLEAN /\ r.hasEstimate \in BOOLEAN
      /\ r.hasProgress \in BOOLEAN /\ r.hasExpected \in BOOLEAN
      /\ r.retryable \in BOOLEAN /\ ConsistentResult(r)
      /\ r.expected \in ConsistentStates /\ r.remote \in ConsistentStates
      /\ r.error \in Texts(MaxError)
  BY ResultParts
<1>2. PICK es, ed, rs, rd, er :
        /\ es = r.expected.schema /\ ed = r.expected.data
        /\ rs = r.remote.schema /\ rd = r.remote.data /\ er = r.error
  OBVIOUS
<1>3. PICK a, b, c, d, e :
        a = Len(es) /\ b = Len(ed) /\ c = Len(rs) /\ d = Len(rd) /\ e = Len(er)
  OBVIOUS
<1>4. MaxSchema \in Nat /\ MaxData \in Nat /\ MaxError \in Nat
  BY CodecAssumption
<1>5. /\ a \in 0 .. MaxSchema /\ b \in 0 .. MaxData /\ Text(es) = es
      /\ r.expected.completeness \in Completenesses
      /\ (r.expected.completeness # "NOT_PROVIDED") = (a # 0 /\ b # 0)
      /\ r.expected = [completeness |-> r.expected.completeness, schema |-> es,
                       data |-> ed]
  BY <1>1, <1>2, <1>3, StateParts
<1>6. /\ c \in 0 .. MaxSchema /\ d \in 0 .. MaxData /\ Text(rs) = rs
      /\ r.remote.completeness \in Completenesses
      /\ (r.remote.completeness # "NOT_PROVIDED") = (c # 0 /\ d # 0)
      /\ r.remote = [completeness |-> r.remote.completeness, schema |-> rs,
                     data |-> rd]
  BY <1>1, <1>2, <1>3, StateParts
<1>7. e \in 0 .. MaxError /\ Text(er) = er /\ (er = <<>>) = (e = 0)
  BY <1>1, <1>2, <1>3, <1>4, TextPart
<1>8. a \in Nat /\ b \in Nat /\ c \in Nat /\ d \in Nat /\ e \in Nat
  BY <1>4, <1>5, <1>6, <1>7
<1>9. /\ Len(h) = 14
      /\ h[1] = 1 /\ h[2] = r.status /\ h[3] = Flags(r)
      /\ h[4] = r.expected.completeness /\ h[5] = r.remote.completeness
      /\ h[6] = r.code /\ h[7] = r.retryable /\ h[8] = r.progress
      /\ h[9] = r.estimate /\ h[10] = a /\ h[11] = b /\ h[12] = c
      /\ h[13] = d /\ h[14] = e
  BY <1>2, <1>3, ResultHeaderTyped
<1>10. /\ Len(q) = 14 + a + b + c + d + e
       /\ \A i \in 1 .. 14 : q[i] = h[i]
       /\ Segment(q, 14, a) = es /\ Segment(q, 14 + a, b) = ed
       /\ Segment(q, 14 + a + b, c) = rs /\ Segment(q, 14 + a + b + c, d) = rd
       /\ Segment(q, 14 + a + b + c + d, e) = er
  BY <1>2, <1>3, <1>9, Zenon DEF Laid
<1>11. /\ q[1] = h[1] /\ q[2] = h[2] /\ q[3] = h[3] /\ q[4] = h[4]
       /\ q[5] = h[5] /\ q[6] = h[6] /\ q[7] = h[7] /\ q[8] = h[8]
       /\ q[9] = h[9] /\ q[10] = h[10] /\ q[11] = h[11] /\ q[12] = h[12]
       /\ q[13] = h[13] /\ q[14] = h[14]
  BY <1>10
<1>12. /\ q[1] = 1 /\ q[2] = r.status /\ q[3] = Flags(r)
       /\ q[4] = r.expected.completeness /\ q[5] = r.remote.completeness
       /\ q[6] = r.code /\ q[7] = r.retryable /\ q[8] = r.progress
       /\ q[9] = r.estimate /\ q[10] = a /\ q[11] = b /\ q[12] = c
       /\ q[13] = d /\ q[14] = e
  BY <1>9, <1>11, Zenon
<1>13. /\ q[3] \subseteq FlagNames
       /\ ("STARTED" \in q[3]) = r.started
       /\ ("ESTIMATED" \in q[3]) = r.hasEstimate
       /\ ("PROGRESS" \in q[3]) = r.hasProgress
       /\ ("EXPECTED" \in q[3]) = r.hasExpected
       /\ ("REMOTE" \in q[3]) = (r.remote.completeness # "NOT_PROVIDED")
       /\ ("ERROR" \in q[3]) = (r.code # "NONE")
  <2>1. /\ Flags(r) \subseteq FlagNames
        /\ ("STARTED" \in Flags(r)) = r.started
        /\ ("ESTIMATED" \in Flags(r)) = r.hasEstimate
        /\ ("PROGRESS" \in Flags(r)) = r.hasProgress
        /\ ("EXPECTED" \in Flags(r)) = r.hasExpected
        /\ ("REMOTE" \in Flags(r)) = (r.remote.completeness # "NOT_PROVIDED")
        /\ ("ERROR" \in Flags(r)) = (r.code # "NONE")
    BY <1>1, FlagsOfResult
  <2> QED BY <1>12, <2>1, Zenon
<1>14. /\ r.hasExpected = (r.expected.completeness # "NOT_PROVIDED")
       /\ (r.code # "NONE") = (er # <<>>)
       /\ r.code = "NONE" => r.retryable = FALSE /\ er = <<>>
  BY <1>2, ResultFlags
<1>15. HeaderKnown(q)
  BY <1>1, <1>5, <1>6, <1>12, <1>13, Zenon DEF HeaderKnown
<1>16. FlagsMatchSizes(q)
  <2>1. ("EXPECTED" \in q[3]) = (q[10] # 0 /\ q[11] # 0)
    BY <1>5, <1>12, <1>13, <1>14, Zenon
  <2>2. ("REMOTE" \in q[3]) = (q[12] # 0 /\ q[13] # 0)
    BY <1>6, <1>12, <1>13, Zenon
  <2>3. ("ERROR" \in q[3]) = (q[14] # 0)
    <3>1. (er # <<>>) = (e # 0)
      BY <1>7
    <3> QED BY <1>12, <1>13, <1>14, <3>1, Zenon
  <2> QED BY <2>1, <2>2, <2>3, Zenon DEF FlagsMatchSizes
<1>17. PICK remote, error :
         remote = RemoteOffset(q) /\ error = RemoteOffset(q) + q[12] + q[13]
  OBVIOUS
<1>18. /\ ResultHeader = 14 /\ remote = 14 + a + b
       /\ error = 14 + a + b + c + d
  BY <1>12, <1>17 DEF RemoteOffset, ResultHeader
<1>19. StateAt(q, ResultHeader, q[10], q[11], q[4]) = r.expected
  BY <1>5, <1>10, <1>12, <1>18, Zenon DEF StateAt
<1>20. StateAt(q, remote, q[12], q[13], q[5]) = r.remote
  BY <1>6, <1>10, <1>12, <1>18, Zenon DEF StateAt
<1>21. (IF "ERROR" \in q[3] THEN q[6] ELSE "NONE") = r.code
  BY <1>12, <1>13, Zenon
<1>22. ("ERROR" \in q[3] /\ q[7]) = r.retryable
  <2>1. CASE r.code = "NONE"
    <3>1. ~("ERROR" \in q[3]) /\ r.retryable = FALSE
      BY <1>13, <1>14, <2>1, Zenon
    <3> QED BY <3>1, Zenon
  <2>2. CASE r.code # "NONE"
    <3>1. "ERROR" \in q[3]
      BY <1>13, <2>2, Zenon
    <3> QED BY <1>1, <1>12, <3>1
  <2> QED BY <2>1, <2>2
<1>23. (IF "ERROR" \in q[3] THEN Text(Segment(q, error, q[14])) ELSE <<>>)
         = r.error
  <2>1. Text(Segment(q, error, q[14])) = er
    BY <1>7, <1>10, <1>12, <1>18, Zenon
  <2>2. ~("ERROR" \in q[3]) => er = <<>>
    BY <1>13, <1>14, Zenon
  <2> QED BY <1>2, <2>1, <2>2, Zenon
<1>24. [status |-> q[2], started |-> "STARTED" \in q[3],
        hasEstimate |-> "ESTIMATED" \in q[3], estimate |-> q[9],
        hasProgress |-> "PROGRESS" \in q[3], progress |-> q[8],
        hasExpected |-> "EXPECTED" \in q[3],
        expected |-> StateAt(q, ResultHeader, q[10], q[11], q[4]),
        remote |-> StateAt(q, RemoteOffset(q), q[12], q[13], q[5]),
        code |-> IF "ERROR" \in q[3] THEN q[6] ELSE "NONE",
        retryable |-> "ERROR" \in q[3] /\ q[7],
        error |-> IF "ERROR" \in q[3]
                  THEN Text(Segment(q, RemoteOffset(q) + q[12] + q[13], q[14]))
                  ELSE <<>>]
         = [status |-> r.status, started |-> r.started,
            hasEstimate |-> r.hasEstimate, estimate |-> r.estimate,
            hasProgress |-> r.hasProgress, progress |-> r.progress,
            hasExpected |-> r.hasExpected, expected |-> r.expected,
            remote |-> r.remote, code |-> r.code,
            retryable |-> r.retryable, error |-> r.error]
  BY <1>12, <1>13, <1>17, <1>19, <1>20, <1>21, <1>22, <1>23, Zenon
<1>25. r = [status |-> r.status, started |-> r.started,
            hasEstimate |-> r.hasEstimate, estimate |-> r.estimate,
            hasProgress |-> r.hasProgress, progress |-> r.progress,
            hasExpected |-> r.hasExpected, expected |-> r.expected,
            remote |-> r.remote, code |-> r.code,
            retryable |-> r.retryable, error |-> r.error]
  BY ResultParts
<1>26. Len(q) >= ResultHeader /\ error + q[14] = Len(q)
  <2>1. Len(q) = 14 + a + b + c + d + e /\ q[14] = e
    BY <1>10, <1>12
  <2> QED BY <1>8, <1>18, <2>1
<1>27. /\ q[10] <= MaxSchema /\ q[12] <= MaxSchema
       /\ q[11] <= MaxData /\ q[13] <= MaxData /\ q[14] <= MaxError
  BY <1>4, <1>5, <1>6, <1>7, <1>12
<1>28. RemoteOffset(q) + q[12] + q[13] + q[14] = Len(q)
  BY <1>17, <1>26
<1> QED
  BY <1>1, <1>15, <1>16, <1>24, <1>25, <1>26, <1>27, <1>28, Zenon
  DEF DecodeResult

\* A consistent result that fits a message is sent and decoded unchanged, from
\* its fragments in any order; only one that carries an error can be too large
\* (EspNowResultCodec, EspNowFrameReassembler::accept).
THEOREM ResultsSurvive ==
  ASSUME NEW r \in ConsistentResults
  PROVE  ResultSurvives(r)
<1>1. PICK h : h = ResultHeaderOf(r)
  OBVIOUS
<1>2. PICK q : q = h \o r.expected.schema \o r.expected.data
                     \o r.remote.schema \o r.remote.data \o r.error
  OBVIOUS
<1>3. /\ q \in Seq(Elements)
      /\ Laid(q, h, r.expected.schema, r.expected.data, r.remote.schema,
              r.remote.data, r.error)
  BY <1>1, <1>2, ResultLaid
<1>4. q # Undecodable
  BY <1>3, UndecodableAssumption
<1>5. ConsistentResult(r)
  BY ResultParts
<1>6. EncodeResult(r) = IF Len(q) <= MaxMessage THEN q ELSE Undecodable
  BY <1>1, <1>2, <1>5, Zenon DEF EncodeResult, ResultHeaderOf
<1>7. DecodeResult(q) = r
  BY <1>1, <1>3, ResultRead
<1>8. PICK a, b, c, d, e :
        /\ a = Len(r.expected.schema) /\ b = Len(r.expected.data)
        /\ c = Len(r.remote.schema) /\ d = Len(r.remote.data)
        /\ e = Len(r.error)
  OBVIOUS
<1>9. Len(q) = 14 + a + b + c + d + e
  <2>1. Len(h) = 14
    BY <1>1, ResultHeaderTyped
  <2> QED BY <1>3, <1>8, <2>1, Zenon DEF Laid
<1>10. /\ MaxMessage \in Nat /\ MaxSchema \in Nat /\ MaxData \in Nat
       /\ MaxError \in Nat /\ 14 + 2 * (MaxSchema + MaxData) <= MaxMessage
  BY CodecAssumption DEF ResultHeader
<1>11. /\ r.expected \in ConsistentStates /\ r.remote \in ConsistentStates
       /\ r.error \in Texts(MaxError)
  BY ResultParts
<1>12. a \in 0 .. MaxSchema /\ b \in 0 .. MaxData
  BY <1>8, <1>11, StateParts
<1>13. c \in 0 .. MaxSchema /\ d \in 0 .. MaxData
  BY <1>8, <1>11, StateParts
<1>14. e \in 0 .. MaxError /\ (r.error = <<>>) = (e = 0)
  BY <1>8, <1>10, <1>11, TextPart
<1>15. CASE Len(q) <= MaxMessage
  <2>1. EncodeResult(r) = q
    BY <1>6, <1>15
  <2>2. Len(q) \in 1 .. MaxMessage
    BY <1>9, <1>10, <1>12, <1>13, <1>14, <1>15
  <2>3. \A payload \in Deliveries(q) : payload = q
    BY <1>3, <2>2, MessageReassembled
  <2> QED BY <1>4, <1>7, <2>1, <2>3 DEF ResultSurvives
<1>16. CASE ~(Len(q) <= MaxMessage)
  <2>1. EncodeResult(r) = Undecodable
    BY <1>6, <1>16
  <2>2. e # 0
    BY <1>9, <1>10, <1>12, <1>13, <1>14, <1>16
  <2>3. r.code # "NONE"
    BY <1>14, <2>2, ResultFlags
  <2> QED BY <2>1, <2>3 DEF ResultSurvives
<1> QED BY <1>15, <1>16

-----------------------------------------------------------------------------
(* The samples that TLC checks are such commands and results.              *)

\* The sampled texts hold no NUL byte and fit their field.
LEMMA SampleTextsAreTexts ==
  ASSUME NEW max \in Nat, NEW t \in SampleTexts(max), max # 0
  PROVE  t \in Texts(max)
<1>1. PICK n \in {0, 1, max} : t = [i \in 1 .. n |-> i]
  BY DEF SampleTexts
<1>2. n \in Nat /\ n <= max
  BY <1>1
<1>3. t \in Seq(Nat \ {0}) /\ Len(t) = n
  BY <1>1, <1>2
<1> QED BY <1>2, <1>3 DEF Texts

\* The sampled byte strings fit their field.
LEMMA SampleBytesAreBytes ==
  ASSUME NEW max \in Nat, NEW b \in SampleBytes(max), max # 0
  PROVE  b \in ByteStrings(max)
<1>1. PICK n \in {0, 1, max} : b = [i \in 1 .. n |-> i - 1]
  BY DEF SampleBytes
<1>2. n \in Nat /\ n <= max
  BY <1>1
<1>3. b \in Seq(Nat) /\ Len(b) = n
  BY <1>1, <1>2
<1> QED BY <1>2, <1>3 DEF ByteStrings

\* The commands that TLC checks are valid commands of bounded fields.
LEMMA SampleCommandsAreValid ==
  SampleCommands \subseteq ValidCommands
<1>1. /\ MaxId \in Nat /\ MaxId # 0 /\ MaxName \in Nat /\ MaxName # 0
      /\ MaxBody \in Nat /\ MaxBody # 0
  BY CodecAssumption
<1>2. /\ SampleTexts(MaxId) \subseteq Texts(MaxId)
      /\ SampleTexts(MaxName) \subseteq Texts(MaxName)
      /\ SampleBytes(MaxBody) \subseteq ByteStrings(MaxBody)
  BY <1>1, SampleTextsAreTexts, SampleBytesAreBytes
<1>3. ASSUME NEW c \in SampleCommands
      PROVE  c \in ValidCommands
  <2>1. /\ c \in [device : SampleTexts(MaxId), resource : SampleTexts(MaxId),
                   name : SampleTexts(MaxName), body : SampleBytes(MaxBody),
                   timeout : {0, 1}, source : SampleTexts(MaxId),
                   boot : {0, 1}]
        /\ ValidCommand(c)
    BY <1>3 DEF SampleCommands
  <2>2. c \in [device : Texts(MaxId), resource : Texts(MaxId),
               name : Texts(MaxName), body : ByteStrings(MaxBody),
               timeout : Nat, source : Texts(MaxId), boot : Nat]
    BY <1>2, <2>1
  <2> QED BY <2>1, <2>2 DEF ValidCommands
<1> QED BY <1>3

\* The results that TLC checks are consistent results of bounded fields.
LEMMA SampleResultsAreConsistent ==
  SampleResults \subseteq ConsistentResults
<1>1. /\ MaxSchema \in Nat /\ MaxSchema # 0 /\ MaxData \in Nat /\ MaxData # 0
      /\ MaxError \in Nat /\ MaxError # 0
  BY CodecAssumption
<1>2. /\ SampleTexts(MaxSchema) \subseteq Texts(MaxSchema)
      /\ SampleTexts(MaxError) \subseteq Texts(MaxError)
      /\ SampleBytes(MaxData) \subseteq ByteStrings(MaxData)
  BY <1>1, SampleTextsAreTexts, SampleBytesAreBytes
<1>3. ASSUME NEW s \in SampleStates
      PROVE  s \in ConsistentStates
  <2>1. /\ s \in [completeness : Completenesses,
                   schema : SampleTexts(MaxSchema), data : SampleBytes(MaxData)]
        /\ ConsistentState(s)
    BY <1>3 DEF SampleStates
  <2>2. s \in [completeness : Completenesses, schema : Texts(MaxSchema),
               data : ByteStrings(MaxData)]
    BY <1>2, <2>1
  <2> QED BY <2>1, <2>2 DEF ConsistentStates
<1>4. {0, 1} \subseteq Nat /\ {100, 101} \subseteq Nat
      /\ {"NONE", "TIMED_OUT"} \subseteq ErrorCodes
  BY DEF ErrorCodes
<1>5. ASSUME NEW r \in SampleResults
      PROVE  r \in ConsistentResults
  <2>1. /\ r \in [status : ResultStatuses,
                   started : BOOLEAN, hasEstimate : BOOLEAN, estimate : {0, 1},
                   hasProgress : BOOLEAN, progress : {100, 101},
                   hasExpected : BOOLEAN, expected : SampleStates,
                   remote : SampleStates, code : {"NONE", "TIMED_OUT"},
                   retryable : BOOLEAN, error : SampleTexts(MaxError)]
        /\ ConsistentResult(r)
    BY <1>5 DEF SampleResults
  <2>2. r \in [status : ResultStatuses, started : BOOLEAN,
               hasEstimate : BOOLEAN, estimate : Nat, hasProgress : BOOLEAN,
               progress : Nat, hasExpected : BOOLEAN,
               expected : ConsistentStates, remote : ConsistentStates,
               code : ErrorCodes, retryable : BOOLEAN,
               error : Texts(MaxError)]
    BY <1>2, <1>3, <1>4, <2>1
  <2> QED BY <2>1, <2>2 DEF ConsistentResults
<1> QED BY <1>5
=============================================================================
