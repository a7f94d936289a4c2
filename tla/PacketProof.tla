---------------------------- MODULE PacketProof ----------------------------
(***************************************************************************)
(* Proofs about Packet: what encode_packet writes, decode_packet reads,    *)
(* for every packet; and the facts about numbers and joined sequences that *)
(* the proofs about the formats and about the serial line share.           *)
(***************************************************************************)
EXTENDS Packet, Integers, SequencesExt, SequenceTheorems, WellFoundedInduction, TLAPS

Byte          == 0..255
TransportCode == 0..65535

-----------------------------------------------------------------------------
(* Induction over numbers, and joined sequences *)

\* Every set of natural numbers has a least element.
LEMMA Least == ASSUME NEW T, T \subseteq Nat, T # {} PROVE \E n \in T : \A m \in T : n <= m
<1> DEFINE R == OpToRel(<, Nat)
<1>1. IsWellFoundedOn(R, Nat)
  BY NatLessThanWellFounded, Zenon
<1>2. \A x, y \in Nat : y < x => <<y, x>> \in R
  BY DEF OpToRel
<1> HIDE DEF R
<1>3. \E x \in T : \A y \in T : ~(<<y, x>> \in R)
  BY <1>1, WFMin
<1>4. \A x, y \in Nat : ~(y < x) => x <= y
  OBVIOUS
<1> QED
  BY <1>2, <1>3, <1>4

\* A set of numbers up to l that holds zero, and the next number with every
\* number, holds them all.
LEMMA Induction ==
    ASSUME NEW l \in Nat, NEW H, 0 \in H, \A n \in 0..l : n > 0 /\ n - 1 \in H => n \in H
    PROVE  0..l \subseteq H
<1> DEFINE T == {n \in Nat : n <= l /\ n \notin H}
<1> SUFFICES ASSUME T # {} PROVE FALSE
  OBVIOUS
<1>1. PICK n \in T : \A m \in T : n <= m
  BY Least
<1>2. n \in 0..l /\ n \notin H /\ n > 0
  BY <1>1
<1>3. n - 1 \in Nat /\ n - 1 <= l /\ ~(n <= n - 1)
  BY <1>2
<1>4. n - 1 \notin T
  BY <1>1, <1>3
<1>5. n - 1 \in H
  BY <1>3, <1>4
<1> QED
  BY <1>2, <1>5

\* The first n of the sequences that make up s, joined one after the other.
JoinTo(s, n, f) == f = [i \in 1..n |-> IF i = 1 THEN s[i] ELSE f[i - 1] \o s[i]]

\* There are such joins.
LEMMA JoinsExist == ASSUME NEW s, Len(s) \in Nat PROVE \E f : JoinTo(s, Len(s), f)
<1> DEFINE l == Len(s)
           H == {n \in 0..l : \E f : JoinTo(s, n, f)}
<1>1. 0 \in H
  <2> DEFINE f == [i \in 1..0 |-> s[i]]
  <2>1. f = [i \in 1..0 |-> IF i = 1 THEN s[i] ELSE f[i - 1] \o s[i]]
    OBVIOUS
  <2> HIDE DEF f
  <2>2. JoinTo(s, 0, f)
    BY <2>1 DEF JoinTo
  <2> QED
    BY <2>2
<1>2. ASSUME NEW n \in 0..l, n > 0, n - 1 \in H PROVE n \in H
  <2>1. PICK f : JoinTo(s, n - 1, f)
    BY <1>2
  <2> DEFINE g == [i \in 1..n |-> IF i = n THEN (IF n = 1 THEN s[1] ELSE f[n - 1] \o s[n]) ELSE f[i]]
  <2>2. f = [i \in 1..(n - 1) |-> IF i = 1 THEN s[i] ELSE f[i - 1] \o s[i]]
    BY <2>1 DEF JoinTo
  <2>3. ASSUME NEW i \in 1..n PROVE g[i] = IF i = 1 THEN s[i] ELSE g[i - 1] \o s[i]
    <3>1. CASE i = n
      <4>1. n = 1 \/ (n - 1 \in 1..n /\ n - 1 # n)
        BY <1>2
      <4> QED
        BY <3>1, <4>1
    <3>2. CASE i # n
      <4>1. i \in 1..(n - 1) /\ (i = 1 \/ (i - 1 \in 1..n /\ i - 1 # n))
        BY <1>2, <3>2
      <4>2. g[i] = f[i] /\ (i = 1 \/ g[i - 1] = f[i - 1])
        BY <3>2, <4>1
      <4>3. f[i] = IF i = 1 THEN s[i] ELSE f[i - 1] \o s[i]
        BY <2>2, <4>1
      <4> QED
        BY <4>2, <4>3
    <3> QED
      BY <3>1, <3>2
  <2>4. g = [i \in 1..n |-> g[i]]
    OBVIOUS
  <2> HIDE DEF g
  <2>5. JoinTo(s, n, g)
    BY <2>3, <2>4 DEF JoinTo
  <2> QED
    BY <2>5
<1> HIDE DEF H
<1>3. 0..l \subseteq H
  BY <1>1, <1>2, Induction
<1>4. l \in H
  BY <1>3
<1> QED
  BY <1>4 DEF H

\* FlattenSeq returns the last of them.
LEMMA FlattenIsJoin ==
    ASSUME NEW s, Len(s) \in Nat, Len(s) # 0
    PROVE  \E f : JoinTo(s, Len(s), f) /\ FlattenSeq(s) = f[Len(s)]
<1> DEFINE Is(f) == f = [i \in 1..Len(s) |-> IF i = 1 THEN s[i] ELSE f[i - 1] \o s[i]]
           c == CHOOSE f : Is(f)
<1>1. \E f : Is(f)
  BY JoinsExist DEF JoinTo
<1>2. Is(c)
  BY <1>1
<1>3. FlattenSeq(s) = c[Len(s)]
  BY DEF FlattenSeq
<1> HIDE DEF c
<1>4. JoinTo(s, Len(s), c)
  BY <1>2 DEF JoinTo
<1> QED
  BY <1>3, <1>4

\* Nothing joined is nothing.
LEMMA FlattenNone == FlattenSeq(<<>>) = <<>>
BY DEF FlattenSeq

\* Sequences joined are a sequence.
LEMMA FlattenType == ASSUME NEW S, NEW s \in Seq(Seq(S)) PROVE FlattenSeq(s) \in Seq(S)
<1> DEFINE n == Len(s)
<1>1. n \in Nat
  BY LenProperties
<1>2. CASE n = 0
  <2>1. s = <<>>
    BY <1>2, EmptySeq
  <2>2. FlattenSeq(s) = <<>> /\ <<>> \in Seq(S)
    BY <2>1, FlattenNone, EmptySeq
  <2> QED
    BY <2>2
<1>3. CASE n # 0
  <2>1. PICK f : JoinTo(s, n, f) /\ FlattenSeq(s) = f[n]
    BY <1>1, <1>3, FlattenIsJoin
  <2> DEFINE H == {i \in 0..n : i = 0 \/ f[i] \in Seq(S)}
  <2>2. ASSUME NEW i \in 0..n, i > 0, i - 1 \in H PROVE i \in H
    <3>1. i \in 1..n /\ (i = 1 \/ f[i - 1] \in Seq(S))
      BY <2>2
    <3>2. f[i] = IF i = 1 THEN s[i] ELSE f[i - 1] \o s[i]
      BY <2>1, <3>1 DEF JoinTo
    <3>3. s[i] \in Seq(S)
      BY <3>1, ElementOfSeq
    <3> QED
      BY <3>1, <3>2, <3>3, ConcatProperties
  <2>3. 0 \in H
    BY <1>1
  <2> HIDE DEF H
  <2>4. 0..n \subseteq H
    BY <1>1, <2>2, <2>3, Induction
  <2>5. n \in H
    BY <1>1, <2>4
  <2> QED
    BY <1>3, <2>1, <2>5 DEF H
<1> QED
  BY <1>2, <1>3

-----------------------------------------------------------------------------
(* The header byte and the path_len byte *)

\* The header byte is one, and holds route, type and version.
LEMMA HeaderRoundTrip ==
    ASSUME NEW route \in 0..3, NEW type \in 0..15, NEW ver \in 0..3
    PROVE  /\ EncodeHeader(route, type, ver) \in Byte
           /\ DecodeHeader(EncodeHeader(route, type, ver)) = [route |-> route, type |-> type, ver |-> ver]
           /\ EncodeHeader(route, type, ver) % 4 = route
<1> DEFINE b == EncodeHeader(route, type, ver)
<1>1. b = route + 4 * type + 64 * ver
  BY DEF EncodeHeader
<1>2. b \in Byte
  BY <1>1 DEF Byte
<1>3. b % 4 = route
  BY <1>1
<1>4. (b \div 4) % 16 = type
  BY <1>1
<1>5. (b \div 64) % 4 = ver
  BY <1>1
<1> HIDE DEF b
<1>6. DecodeHeader(b) = [route |-> route, type |-> type, ver |-> ver]
  BY <1>3, <1>4, <1>5 DEF DecodeHeader
<1> QED
  BY <1>2, <1>3, <1>6 DEF b

\* The path_len byte is one, and holds the count and the size of the hashes.
LEMMA PathLenRoundTrip ==
    ASSUME NEW count, NEW size, PathLenEncodable(count, size)
    PROVE  /\ EncodePathLen(count, size) \in Byte
           /\ DecodePathLen(EncodePathLen(count, size)) = [count |-> count, size |-> size]
<1> DEFINE b == EncodePathLen(count, size)
<1>1. count \in 0..63 /\ size \in 1..4 /\ b = count + 64 * (size - 1)
  BY DEF PathLenEncodable, EncodePathLen
<1>2. b \in Byte
  BY <1>1 DEF Byte
<1>3. b % 64 = count
  BY <1>1
<1>4. ((b \div 64) % 4) + 1 = size
  BY <1>1
<1> HIDE DEF b
<1>5. DecodePathLen(b) = [count |-> count, size |-> size]
  BY <1>3, <1>4 DEF DecodePathLen
<1> QED
  BY <1>2, <1>5 DEF b

\* What any byte says of the path is within the bounds of the format.
LEMMA PathLenBounds ==
    ASSUME NEW b \in Byte
    PROVE  DecodePathLen(b).count \in 0..63 /\ DecodePathLen(b).size \in 1..4
BY DEF DecodePathLen, Byte

\* A path of whole hashes has as many as its length says.
LEMMA WholeHashes ==
    ASSUME NEW n \in Nat, NEW size \in 1..4
    PROVE  /\ (n * size) \div size = n /\ (n * size) % size = 0
           /\ n % size = 0 => (n \div size) * size = n
<1>1. size = 1 \/ size = 2 \/ size = 3 \/ size = 4
  OBVIOUS
<1> QED
  BY <1>1

\* A function on 1..n is a sequence of length n.
LEMMA FixedLength ==
    ASSUME NEW S, NEW n \in Nat, NEW f \in [1..n -> S]
    PROVE  f \in Seq(S) /\ Len(f) = n
<1>1. f \in Seq(S)
  BY SeqDef
<1>2. DOMAIN f = 1..n /\ DOMAIN f = 1..Len(f) /\ Len(f) \in Nat
  BY <1>1, LenProperties
<1>3. Len(f) = n
  BY <1>2
<1> QED
  BY <1>1, <1>3

\* A transport code travels in two bytes.
LEMMA CodeRoundTrip ==
    ASSUME NEW c \in TransportCode
    PROVE  /\ ToBytes(c, 2) \in Seq(Byte) /\ Len(ToBytes(c, 2)) = 2
           /\ FromBytes2(ToBytes(c, 2)) = c
<1> USE DEF TransportCode
<1> DEFINE b == ToBytes(c, 2)
<1>1. b = [k \in 1..2 |-> (c \div 256^(k - 1)) % 256]
  BY DEF ToBytes
<1>2. 256^0 = 1 /\ 256^1 = 256
  OBVIOUS
<1> HIDE DEF b
<1>3. b[1] = (c \div 256^(1 - 1)) % 256 /\ b[2] = (c \div 256^(2 - 1)) % 256
  BY <1>1
<1>4. b[1] = c % 256 /\ b[2] = (c \div 256) % 256
  <2>1. 1 - 1 = 0 /\ 2 - 1 = 1 /\ c \div 1 = c
    OBVIOUS
  <2> QED
    BY <1>2, <1>3, <2>1
<1>5. b[1] \in Byte /\ b[2] \in Byte
  BY <1>4 DEF Byte
<1>6. b \in [1..2 -> Byte]
  <2>1. \A k \in 1..2 : k = 1 \/ k = 2
    OBVIOUS
  <2>2. DOMAIN b = 1..2 /\ b = [k \in 1..2 |-> b[k]]
    BY <1>1
  <2> QED
    BY <1>5, <2>1, <2>2
<1>7. b \in Seq(Byte) /\ Len(b) = 2
  <2>1. \A n \in Nat : b \in [1..n -> Byte] => b \in Seq(Byte) /\ Len(b) = n
    BY FixedLength
  <2> QED
    BY <1>6, <2>1
<1>8. FromBytes2(b) = c
  <2>1. (c % 256) + 256 * (c \div 256) = c
    OBVIOUS
  <2>2. c \div 256 <= 255
    OBVIOUS
  <2>4. c \div 256 >= 0
    OBVIOUS
  <2>3. (c \div 256) % 256 = c \div 256
    BY <2>2, <2>4
  <2> QED
    BY <1>4, <2>1, <2>3 DEF FromBytes2
<1> QED
  BY <1>7, <1>8 DEF b

-----------------------------------------------------------------------------
(* A packet in bytes *)

\* What a concatenation holds, part by part.
LEMMA Concat ==
    ASSUME NEW S, NEW s \in Seq(S), NEW t \in Seq(S)
    PROVE  /\ s \o t \in Seq(S)
           /\ Len(s \o t) = Len(s) + Len(t)
           /\ \A i \in 1..Len(s) : (s \o t)[i] = s[i]
           /\ \A i \in 1..Len(t) : (s \o t)[Len(s) + i] = t[i]
<1>1. Len(s) \in Nat /\ Len(t) \in Nat
  BY LenProperties
<1>2. \A i \in 1..(Len(s) + Len(t)) : (s \o t)[i] = IF i <= Len(s) THEN s[i] ELSE t[i - Len(s)]
  BY ConcatProperties
<1>3. ASSUME NEW i \in 1..Len(t) PROVE (s \o t)[Len(s) + i] = t[i]
  <2>1. Len(s) + i \in 1..(Len(s) + Len(t)) /\ ~(Len(s) + i <= Len(s)) /\ Len(s) + i - Len(s) = i
    BY <1>1
  <2> QED
    BY <1>2, <2>1
<1>4. ASSUME NEW i \in 1..Len(s) PROVE (s \o t)[i] = s[i]
  <2>1. i \in 1..(Len(s) + Len(t)) /\ i <= Len(s)
    BY <1>1
  <2> QED
    BY <1>2, <2>1
<1> QED
  BY <1>3, <1>4, ConcatProperties

\* What a subsequence that ends within its sequence holds.
LEMMA SubSeqFacts ==
    ASSUME NEW S, NEW s \in Seq(S), NEW m \in Nat \ {0}, NEW n \in Nat, m <= n + 1, n <= Len(s)
    PROVE  /\ SubSeq(s, m, n) \in Seq(S)
           /\ Len(SubSeq(s, m, n)) = n + 1 - m
           /\ \A i \in 1..(n + 1 - m) : SubSeq(s, m, n)[i] = s[m - 1 + i]
<1>1. Len(s) \in Nat
  BY LenProperties
<1>2. \A i \in m..n : s[i] \in S
  BY <1>1, ElementOfSeq
<1>3. /\ SubSeq(s, m, n) \in Seq(S)
      /\ Len(SubSeq(s, m, n)) = IF m <= n THEN n - m + 1 ELSE 0
      /\ \A i \in 1..(n - m + 1) : SubSeq(s, m, n)[i] = s[m + i - 1]
  BY <1>2, SubSeqProperties
<1>4. n - m + 1 = n + 1 - m /\ \A i \in 1..(n + 1 - m) : m + i - 1 = m - 1 + i
  OBVIOUS
<1> QED
  BY <1>3, <1>4

\* Two bytes in a row.
LEMMA PairAt ==
    ASSUME NEW S, NEW s \in Seq(S), NEW m \in Nat \ {0}, m + 1 <= Len(s)
    PROVE  SubSeq(s, m, m + 1)[1] = s[m] /\ SubSeq(s, m, m + 1)[2] = s[m + 1]
<1>1. m + 1 \in Nat /\ m <= (m + 1) + 1 /\ (m + 1) + 1 - m = 2
  OBVIOUS
<1>2. \A i \in 1..((m + 1) + 1 - m) : SubSeq(s, m, m + 1)[i] = s[m - 1 + i]
  BY <1>1, SubSeqFacts
<1>3. 1 \in 1..2 /\ 2 \in 1..2 /\ m - 1 + 1 = m /\ m - 1 + 2 = m + 1
  OBVIOUS
<1> QED
  BY <1>1, <1>2, <1>3

\* The bytes of a packet, one part after the other.
Joined(h, c, l, path, payload) == <<h>> \o c \o <<l>> \o path \o payload

\* Where decode_packet looks for them.
Placed(S, e, h, c, l, path, payload) ==
    /\ e \in Seq(S)
    /\ Len(e) = Len(c) + 2 + Len(path) + Len(payload)
    /\ e[1] = h
    /\ \A i \in 1..Len(c) : e[1 + i] = c[i]
    /\ e[Len(c) + 2] = l
    /\ SubSeq(e, Len(c) + 3, Len(c) + 2 + Len(path)) = path
    /\ From(e, Len(c) + 2 + Len(path) + 1) = payload

\* The parts of a packet are where they were put.
LEMMA Parts ==
    ASSUME NEW S, NEW h \in S, NEW c \in Seq(S), NEW l \in S, NEW path \in Seq(S), NEW payload \in Seq(S)
    PROVE  Placed(S, Joined(h, c, l, path, payload), h, c, l, path, payload)
<1> DEFINE s1 == <<h>> \o c
           s2 == s1 \o <<l>>
           s3 == s2 \o path
           e  == s3 \o payload
<1>0. Len(c) \in Nat /\ Len(path) \in Nat /\ Len(payload) \in Nat
  BY LenProperties
<1>1. <<h>> \in Seq(S) /\ Len(<<h>>) = 1 /\ <<h>>[1] = h
  OBVIOUS
<1>2. <<l>> \in Seq(S) /\ Len(<<l>>) = 1 /\ <<l>>[1] = l
  OBVIOUS
<1>3. /\ s1 \in Seq(S) /\ Len(s1) = 1 + Len(c)
      /\ s1[1] = h /\ \A i \in 1..Len(c) : s1[1 + i] = c[i]
  BY <1>0, <1>1, Concat
<1> HIDE DEF s1
<1>4. /\ s2 \in Seq(S) /\ Len(s2) = 2 + Len(c)
      /\ \A i \in 1..Len(s1) : s2[i] = s1[i]
      /\ s2[Len(s1) + 1] = l
  BY <1>0, <1>2, <1>3, Concat
<1> HIDE DEF s2
<1>5. /\ s3 \in Seq(S) /\ Len(s3) = Len(s2) + Len(path)
      /\ \A i \in 1..Len(s2) : s3[i] = s2[i]
      /\ \A i \in 1..Len(path) : s3[Len(s2) + i] = path[i]
  <2>1. s2 \in Seq(S)
    BY <1>4
  <2> QED
    BY <2>1, Concat
<1> HIDE DEF s3
<1>6. /\ e \in Seq(S) /\ Len(e) = Len(s3) + Len(payload)
      /\ \A i \in 1..Len(s3) : e[i] = s3[i]
      /\ \A i \in 1..Len(payload) : e[Len(s3) + i] = payload[i]
  <2>1. s3 \in Seq(S)
    BY <1>5
  <2> QED
    BY <2>1, Concat
<1> HIDE DEF e
<1>a. Len(e) = Len(c) + 2 + Len(path) + Len(payload)
  BY <1>0, <1>4, <1>5, <1>6
<1>b. \A i \in 1..(1 + Len(c)) : e[i] = s1[i]
  <2> SUFFICES ASSUME NEW i \in 1..(1 + Len(c)) PROVE e[i] = s1[i]
    OBVIOUS
  <2>1. i \in 1..Len(s1) /\ i \in 1..Len(s2) /\ i \in 1..Len(s3)
    BY <1>0, <1>3, <1>4, <1>5
  <2> QED
    BY <1>4, <1>5, <1>6, <2>1
<1>c. e[1] = h /\ \A i \in 1..Len(c) : e[1 + i] = c[i]
  BY <1>0, <1>3, <1>b
<1>d. e[Len(c) + 2] = l
  <2>1. Len(c) + 2 = Len(s1) + 1 /\ Len(c) + 2 \in 1..Len(s2) /\ Len(c) + 2 \in 1..Len(s3)
    BY <1>0, <1>3, <1>4, <1>5
  <2> QED
    BY <1>4, <1>5, <1>6, <2>1
<1>e. SubSeq(e, Len(c) + 3, Len(c) + 2 + Len(path)) = path
  <2> DEFINE q == SubSeq(e, Len(c) + 3, Len(c) + 2 + Len(path))
  <2>1. /\ Len(c) + 3 \in Nat \ {0} /\ Len(c) + 2 + Len(path) \in Nat
        /\ Len(c) + 3 <= Len(c) + 2 + Len(path) + 1 /\ Len(c) + 2 + Len(path) <= Len(e)
        /\ (Len(c) + 2 + Len(path)) + 1 - (Len(c) + 3) = Len(path)
    BY <1>0, <1>a
  <2>2. /\ q \in Seq(S) /\ Len(q) = Len(path)
        /\ \A i \in 1..Len(path) : q[i] = e[(Len(c) + 3) - 1 + i]
    BY <1>6, <2>1, SubSeqFacts
  <2>3. ASSUME NEW i \in 1..Len(path) PROVE q[i] = path[i]
    <3>1. (Len(c) + 3) - 1 + i = Len(s2) + i /\ Len(s2) + i \in 1..Len(s3)
      BY <1>0, <1>4, <1>5
    <3> QED
      BY <1>5, <1>6, <2>2, <3>1
  <2> HIDE DEF q
  <2>4. q = path
    BY <2>2, <2>3, SeqEqual
  <2> QED
    BY <2>4 DEF q
<1>f. From(e, Len(c) + 2 + Len(path) + 1) = payload
  <2> DEFINE m == Len(c) + 2 + Len(path) + 1
             q == SubSeq(e, m, Len(e))
  <2>1. m \in Nat \ {0} /\ Len(e) \in Nat /\ m <= Len(e) + 1 /\ Len(e) + 1 - m = Len(payload)
    BY <1>0, <1>a
  <2>2. m - 1 = Len(s3)
    BY <1>0, <1>4, <1>5
  <2> HIDE DEF m
  <2>3. /\ q \in Seq(S) /\ Len(q) = Len(payload)
        /\ \A i \in 1..Len(payload) : q[i] = e[m - 1 + i]
    BY <1>6, <2>1, SubSeqFacts
  <2>4. \A i \in 1..Len(payload) : q[i] = payload[i]
    BY <1>6, <2>2, <2>3
  <2> HIDE DEF q
  <2>5. q = payload
    BY <2>3, <2>4, SeqEqual
  <2> QED
    BY <2>5 DEF From, q, m
<1> QED
  <2>1. Joined(h, c, l, path, payload) = e
    BY DEF s1, s2, s3, e, Joined
  <2> QED
    BY <1>6, <1>a, <1>c, <1>d, <1>e, <1>f, <2>1 DEF Placed

\* No transport codes, or two.
CodePair       == TransportCode \X TransportCode
TransportCodes == {<<>>} \cup CodePair

\* Two codes are a first and a second.
LEMMA CodePairFacts ==
    ASSUME NEW c \in TransportCodes, c # <<>>
    PROVE  c[1] \in TransportCode /\ c[2] \in TransportCode /\ c = <<c[1], c[2]>>
<1>1. c \in CodePair
  BY DEF TransportCodes
<1>2. PICK x \in TransportCode, y \in TransportCode : c = <<x, y>>
  BY <1>1 DEF CodePair
<1> QED
  BY <1>2

\* Packets over an alphabet, which holds the bytes and whatever else a payload
\* is made of.
PacketOver(S) ==
    [route : 0..3, type : 0..15, ver : 0..3, codes : TransportCodes,
     path : Seq(S), payload : Seq(S), size : 1..4]

\* The bytes of the transport codes.
CodeBytes(p) == IF p.codes = <<>> THEN <<>> ELSE ToBytes(p.codes[1], 2) \o ToBytes(p.codes[2], 2)

\* The transport codes are as many bytes as decode_packet skips, and the code
\* that it reads from each pair of bytes is the one written there.
LEMMA CodeFacts ==
    ASSUME NEW S, Byte \subseteq S, NEW p \in PacketOver(S)
    PROVE  /\ CodeBytes(p) \in Seq(S)
           /\ p.codes = <<>> => Len(CodeBytes(p)) = 0
           /\ p.codes # <<>> =>
                /\ Len(CodeBytes(p)) = 4
                /\ p.codes = <<p.codes[1], p.codes[2]>>
                /\ CodeBytes(p)[1] + 256 * CodeBytes(p)[2] = p.codes[1]
                /\ CodeBytes(p)[3] + 256 * CodeBytes(p)[4] = p.codes[2]
<1>1. CASE p.codes = <<>>
  BY <1>1, EmptySeq DEF CodeBytes
<1>2. CASE p.codes # <<>>
  <2> DEFINE a == ToBytes(p.codes[1], 2)
             b == ToBytes(p.codes[2], 2)
  <2>1. p.codes \in TransportCodes
    BY DEF PacketOver
  <2>2. p.codes[1] \in TransportCode /\ p.codes[2] \in TransportCode /\ p.codes = <<p.codes[1], p.codes[2]>>
    BY <1>2, <2>1, CodePairFacts
  <2>3. /\ a \in Seq(Byte) /\ Len(a) = 2 /\ FromBytes2(a) = p.codes[1]
        /\ b \in Seq(Byte) /\ Len(b) = 2 /\ FromBytes2(b) = p.codes[2]
    BY <2>2, CodeRoundTrip
  <2> DEFINE ab == a \o b
  <2>4. CodeBytes(p) = ab
    BY <1>2 DEF CodeBytes
  <2> HIDE DEF a, b
  <2>5. a \in Seq(S) /\ b \in Seq(S)
    BY <2>3, SeqMonotonic
  <2>6. /\ ab \in Seq(S) /\ Len(ab) = Len(a) + Len(b)
        /\ \A i \in 1..Len(a) : ab[i] = a[i]
        /\ \A i \in 1..Len(b) : ab[Len(a) + i] = b[i]
    BY <2>5, Concat
  <2> HIDE DEF ab
  <2>7. ab[1] = a[1] /\ ab[2] = a[2] /\ ab[3] = b[1] /\ ab[4] = b[2]
    BY <2>3, <2>6
  <2> QED
    BY <1>2, <2>2, <2>3, <2>4, <2>6, <2>7 DEF FromBytes2
<1> QED
  BY <1>1, <1>2

\* What encode_packet writes, and where.
LEMMA EncodedParts ==
    ASSUME NEW S, Byte \subseteq S, NEW p \in PacketOver(S), Encodable(p)
    PROVE  LET e  == EncodePacket(p)
               at == PathLenAt(e)
           IN  /\ e \in Seq(S)
               /\ e[1] = EncodeHeader(p.route, p.type, p.ver)
               /\ DecodeHeader(e[1]) = [route |-> p.route, type |-> p.type, ver |-> p.ver]
               /\ at = Len(CodeBytes(p)) + 2
               /\ \A i \in 1..Len(CodeBytes(p)) : e[1 + i] = CodeBytes(p)[i]
               /\ e[at] \in Byte
               /\ DecodePathLen(e[at]) = [count |-> HashCount(p), size |-> p.size]
               /\ PathBytes(e) = Len(p.path)
               /\ Len(e) = at + Len(p.path) + Len(p.payload)
               /\ SubSeq(e, at + 1, at + Len(p.path)) = p.path
               /\ From(e, at + Len(p.path) + 1) = p.payload
<1> DEFINE route   == p.route
           h       == EncodeHeader(p.route, p.type, p.ver)
           n       == HashCount(p)
           size    == p.size
           l       == EncodePathLen(n, size)
           c       == CodeBytes(p)
           path    == p.path
           payload == p.payload
           e       == EncodePacket(p)
<1>1. p.route \in 0..3 /\ p.type \in 0..15 /\ p.ver \in 0..3 /\ size \in 1..4
  BY DEF PacketOver
<1>2. path \in Seq(S) /\ payload \in Seq(S)
  BY DEF PacketOver
<1>3. h \in Byte /\ DecodeHeader(h) = [route |-> p.route, type |-> p.type, ver |-> p.ver] /\ h % 4 = route
  BY <1>1, HeaderRoundTrip
<1>4. l \in Byte /\ DecodePathLen(l) = [count |-> n, size |-> size]
  BY PathLenRoundTrip DEF Encodable
<1>5. c \in Seq(S) /\ IF route \in TransportRoutes THEN Len(c) = 4 ELSE Len(c) = 0
  BY CodeFacts DEF Encodable
<1>6. e = Joined(h, c, l, path, payload)
  BY DEF EncodePacket, CodeBytes, Joined
<1>7. h \in S /\ l \in S
  BY <1>3, <1>4
<1>8. n = Len(path) \div size /\ Len(path) % size = 0
  BY DEF Encodable, HashCount
<1> HIDE DEF route, h, n, size, l, c, path, payload, e
<1>9. /\ e \in Seq(S)
      /\ Len(e) = Len(c) + 2 + Len(path) + Len(payload)
      /\ e[1] = h
      /\ \A i \in 1..Len(c) : e[1 + i] = c[i]
      /\ e[Len(c) + 2] = l
      /\ SubSeq(e, Len(c) + 3, Len(c) + 2 + Len(path)) = path
      /\ From(e, Len(c) + 2 + Len(path) + 1) = payload
  <2>1. Placed(S, e, h, c, l, path, payload)
    BY <1>2, <1>5, <1>6, <1>7, Parts
  <2> QED
    BY <2>1 DEF Placed
<1>10. PathLenAt(e) = Len(c) + 2
  <2>1. e[1] % 4 = route
    BY <1>3, <1>9
  <2>2. CASE route \in TransportRoutes
    <3>1. Len(c) = 4
      BY <1>5, <2>2
    <3>2. PathLenAt(e) = 6
      BY <2>1, <2>2 DEF PathLenAt
    <3> QED
      BY <3>1, <3>2
  <2>3. CASE route \notin TransportRoutes
    BY <1>5, <2>1, <2>3 DEF PathLenAt
  <2> QED
    BY <2>2, <2>3
<1>11. PathBytes(e) = Len(path)
  <2>1. Len(path) \in Nat
    BY <1>2, LenProperties
  <2>2. n * size = Len(path)
    BY <1>1, <1>8, <2>1, WholeHashes
  <2> DEFINE d == DecodePathLen(e[PathLenAt(e)])
  <2>3. d = [count |-> n, size |-> size]
    BY <1>4, <1>9, <1>10
  <2>4. PathBytes(e) = d.count * d.size
    BY DEF PathBytes
  <2> QED
    BY <2>2, <2>3, <2>4
<1>12. Len(c) + 3 = PathLenAt(e) + 1
  BY <1>5, <1>10
<1>13. /\ DecodeHeader(e[1]) = [route |-> p.route, type |-> p.type, ver |-> p.ver]
       /\ DecodePathLen(e[PathLenAt(e)]) = [count |-> n, size |-> size]
       /\ Len(e) = PathLenAt(e) + Len(path) + Len(payload)
       /\ SubSeq(e, PathLenAt(e) + 1, PathLenAt(e) + Len(path)) = path
       /\ From(e, PathLenAt(e) + Len(path) + 1) = payload
  BY <1>3, <1>4, <1>9, <1>10, <1>12
<1>14. e[PathLenAt(e)] \in Byte
  BY <1>4, <1>9, <1>10
<1> QED
  BY <1>9, <1>10, <1>11, <1>13, <1>14 DEF h, n, size, c, path, payload, e

\* What encode_packet writes for a packet whose path is no longer than the
\* format allows, decode_packet accepts and reads as the packet it was.
THEOREM RoundTrip ==
    ASSUME NEW S, Byte \subseteq S, NEW p \in PacketOver(S), Encodable(p), Len(p.path) <= MAX_PATH_SIZE
    PROVE  Decodable(EncodePacket(p)) /\ DecodePacket(EncodePacket(p)) = p
<1> DEFINE e  == EncodePacket(p)
           at == PathLenAt(e)
           c  == CodeBytes(p)
           path    == p.path
           payload == p.payload
<1>1. /\ e \in Seq(S)
      /\ DecodeHeader(e[1]) = [route |-> p.route, type |-> p.type, ver |-> p.ver]
      /\ at = Len(c) + 2
      /\ \A i \in 1..Len(c) : e[1 + i] = c[i]
      /\ DecodePathLen(e[at]) = [count |-> HashCount(p), size |-> p.size]
      /\ PathBytes(e) = Len(p.path)
      /\ Len(e) = at + Len(p.path) + Len(p.payload)
      /\ SubSeq(e, at + 1, at + Len(p.path)) = p.path
      /\ From(e, at + Len(p.path) + 1) = p.payload
  BY EncodedParts
<1>2. path \in Seq(S) /\ payload \in Seq(S)
  BY DEF PacketOver
<1>c. Len(path) <= MAX_PATH_SIZE
  OBVIOUS
<1>d. SubSeq(e, at + 1, at + Len(path)) = path /\ From(e, at + Len(path) + 1) = payload
  BY <1>1
<1>a. at = Len(c) + 2 /\ PathBytes(e) = Len(path) /\ Len(e) = at + Len(path) + Len(payload)
  BY <1>1
<1> HIDE DEF e, at, c, path, payload
<1>3. Len(c) \in Nat /\ Len(path) \in Nat /\ Len(payload) \in Nat
  BY <1>2, CodeFacts, LenProperties DEF c
<1>b. e \in Seq(S) /\ \A i \in 1..Len(c) : e[1 + i] = c[i]
  BY <1>1
<1>4. e # <<>>
  <2>1. Len(e) > 0
    BY <1>a, <1>3
  <2> QED
    BY <2>1
<1>5. Decodable(e)
  <2>1. Len(e) >= at /\ PathBytes(e) <= MAX_PATH_SIZE /\ Len(e) >= at + PathBytes(e)
    BY <1>a, <1>c, <1>3
  <2> QED
    BY <1>4, <2>1 DEF Decodable, at
<1>6. (IF p.route \in TransportRoutes
       THEN <<FromBytes2(SubSeq(e, 2, 3)), FromBytes2(SubSeq(e, 4, 5))>> ELSE <<>>) = p.codes
  <2>1. p.route \in TransportRoutes <=> p.codes # <<>>
    BY DEF Encodable
  <2>2. CASE p.codes # <<>>
    <3>1. /\ Len(c) = 4 /\ p.codes = <<p.codes[1], p.codes[2]>>
          /\ c[1] + 256 * c[2] = p.codes[1] /\ c[3] + 256 * c[4] = p.codes[2]
      BY <2>2, CodeFacts DEF c
    <3>2. Len(e) >= 6
      BY <1>a, <1>3, <3>1
    <3>3. e[2] = c[1] /\ e[3] = c[2] /\ e[4] = c[3] /\ e[5] = c[4]
      BY <1>b, <3>1
    <3>5. /\ SubSeq(e, 2, 3)[1] = e[2] /\ SubSeq(e, 2, 3)[2] = e[3]
          /\ SubSeq(e, 4, 5)[1] = e[4] /\ SubSeq(e, 4, 5)[2] = e[5]
      <4>1. \A m \in Nat \ {0} : m + 1 <= Len(e) =>
                SubSeq(e, m, m + 1)[1] = e[m] /\ SubSeq(e, m, m + 1)[2] = e[m + 1]
        BY <1>1, PairAt
      <4>2. /\ SubSeq(e, 2, 2 + 1)[1] = e[2] /\ SubSeq(e, 2, 2 + 1)[2] = e[2 + 1]
            /\ SubSeq(e, 4, 4 + 1)[1] = e[4] /\ SubSeq(e, 4, 4 + 1)[2] = e[4 + 1]
        BY <3>2, <4>1
      <4> QED
        BY <4>2
    <3> QED
      BY <2>1, <2>2, <3>1, <3>3, <3>5 DEF FromBytes2
  <2> QED
    BY <2>1, <2>2
<1>7. DecodePacket(e) = [route |-> p.route, type |-> p.type, ver |-> p.ver, codes |-> p.codes,
                         path |-> p.path, payload |-> p.payload, size |-> p.size]
  <2> DEFINE h  == DecodeHeader(e[1])
             cs == IF h.route \in TransportRoutes
                   THEN <<FromBytes2(SubSeq(e, 2, 3)), FromBytes2(SubSeq(e, 4, 5))>> ELSE <<>>
             ph == SubSeq(e, at + 1, at + PathBytes(e))
             pl == From(e, at + PathBytes(e) + 1)
             sz == DecodePathLen(e[at]).size
  <2>1. DecodePacket(e) = [route |-> h.route, type |-> h.type, ver |-> h.ver, codes |-> cs,
                           path |-> ph, payload |-> pl, size |-> sz]
    BY DEF DecodePacket, at
  <2>2. h.route = p.route /\ h.type = p.type /\ h.ver = p.ver
    BY <1>1
  <2>3. cs = p.codes
    BY <1>6, <2>2
  <2>4. ph = path /\ pl = payload
    BY <1>a, <1>d
  <2>5. sz = p.size
    BY <1>1
  <2> HIDE DEF h, cs, ph, pl, sz
  <2> QED
    BY <2>1, <2>2, <2>3, <2>4, <2>5 DEF path, payload
<1>8. p = [route |-> p.route, type |-> p.type, ver |-> p.ver, codes |-> p.codes,
           path |-> p.path, payload |-> p.payload, size |-> p.size]
  BY DEF PacketOver
<1> QED
  BY <1>5, <1>7, <1>8 DEF e

-----------------------------------------------------------------------------
(* What decode_packet accepts *)

\* Where the path_len byte is, and how much follows it.
LEMMA DecodableFacts ==
    ASSUME NEW S, NEW d \in Seq(S), Decodable(d), d[PathLenAt(d)] \in Byte
    PROVE  /\ Len(d) \in Nat /\ PathLenAt(d) \in {2, 6} /\ PathBytes(d) \in Nat
           /\ PathBytes(d) <= MAX_PATH_SIZE /\ PathLenAt(d) + PathBytes(d) <= Len(d)
<1>1. Len(d) \in Nat
  BY LenProperties
<1>2. PathLenAt(d) \in {2, 6}
  BY DEF PathLenAt
<1> DEFINE count == DecodePathLen(d[PathLenAt(d)]).count
           size  == DecodePathLen(d[PathLenAt(d)]).size
<1>3. count \in 0..63 /\ size \in 1..4
  BY PathLenBounds
<1>4. PathBytes(d) = count * size
  BY DEF PathBytes
<1> HIDE DEF count, size
<1>5. PathBytes(d) \in Nat
  BY <1>3, <1>4
<1>6. PathBytes(d) <= MAX_PATH_SIZE /\ Len(d) >= PathLenAt(d) + PathBytes(d)
  BY DEF Decodable
<1> QED
  BY <1>1, <1>2, <1>5, <1>6

\* What decode_packet reads from bytes that it accepts, encode_packet accepts:
\* the path is of whole hashes, and no longer than the format allows.
LEMMA DecodedFacts ==
    ASSUME NEW S, NEW d \in Seq(S), Decodable(d), d[PathLenAt(d)] \in Byte
    PROVE  /\ DecodePacket(d).path \in Seq(S)
           /\ Len(DecodePacket(d).path) = PathBytes(d)
           /\ DecodePacket(d).payload = From(d, PathLenAt(d) + PathBytes(d) + 1)
           /\ DecodePacket(d).payload \in Seq(S)
           /\ Len(DecodePacket(d).payload) = Len(d) - (PathLenAt(d) + PathBytes(d))
           /\ \A i \in 1..(Len(d) - (PathLenAt(d) + PathBytes(d))) :
                  DecodePacket(d).payload[i] = d[PathLenAt(d) + PathBytes(d) + i]
           /\ DecodePacket(d).size \in 1..4
           /\ HashCount(DecodePacket(d)) = DecodePathLen(d[PathLenAt(d)]).count
           /\ HashCount(DecodePacket(d)) \in 0..63
           /\ Len(DecodePacket(d).path) % DecodePacket(d).size = 0
           /\ Len(DecodePacket(d).path) <= MAX_PATH_SIZE
<1> DEFINE at    == PathLenAt(d)
           n     == PathBytes(d)
           path  == SubSeq(d, at + 1, at + n)
           rest  == From(d, at + n + 1)
           count == DecodePathLen(d[at]).count
           size  == DecodePathLen(d[at]).size
           p     == DecodePacket(d)
<1>1. p.path = path /\ p.payload = rest /\ p.size = size
  BY DEF DecodePacket
<1>2. Len(d) \in Nat /\ at \in {2, 6} /\ n \in Nat /\ n <= MAX_PATH_SIZE /\ at + n <= Len(d)
  BY DecodableFacts
<1>3. count \in 0..63 /\ size \in 1..4 /\ n = count * size
  BY PathLenBounds DEF PathBytes
<1>a. HashCount(p) = Len(p.path) \div p.size
  BY DEF HashCount
<1> HIDE DEF at, n, count, size, p
<1>4. path \in Seq(S) /\ Len(path) = n
  <2>1. at + 1 \in Nat \ {0} /\ at + n \in Nat /\ at + 1 <= (at + n) + 1 /\ (at + n) + 1 - (at + 1) = n
    BY <1>2
  <2> QED
    BY <1>2, <2>1, SubSeqFacts
<1>5. rest \in Seq(S) /\ Len(rest) = Len(d) - (at + n) /\ \A i \in 1..(Len(d) - (at + n)) : rest[i] = d[at + n + i]
  <2> DEFINE m == at + n + 1
             q == SubSeq(d, m, Len(d))
  <2>1. /\ m \in Nat \ {0} /\ m <= Len(d) + 1
        /\ Len(d) + 1 - m = Len(d) - (at + n) /\ m - 1 = at + n
    BY <1>2
  <2>2. rest = q
    BY DEF From
  <2> HIDE DEF m
  <2>3. q \in Seq(S) /\ Len(q) = Len(d) + 1 - m /\ \A i \in 1..(Len(d) + 1 - m) : q[i] = d[m - 1 + i]
    BY <1>2, <2>1, SubSeqFacts
  <2> QED
    BY <2>1, <2>2, <2>3
<1>6. n \div size = count /\ n % size = 0
  BY <1>3, WholeHashes
<1> HIDE DEF path, rest
<1>7. HashCount(p) = count /\ Len(p.path) % p.size = 0 /\ Len(p.path) = n
  BY <1>1, <1>4, <1>6, <1>a
<1> QED
  BY <1>1, <1>2, <1>3, <1>4, <1>5, <1>7 DEF at, n, path, rest, count, p

\* The bytes d are those of e up to the last n, which all belong to the payload.
CutFrom(S, e, n, d) ==
    /\ n <= Len(e) /\ d \in Seq(S) /\ Len(d) = Len(e) - n
    /\ PathLenAt(d) = PathLenAt(e) /\ d[PathLenAt(d)] = e[PathLenAt(e)]
    /\ PathBytes(d) = PathBytes(e)
    /\ PathLenAt(e) + PathBytes(e) + n <= Len(e)
    /\ \A i \in 1..(Len(e) - n) : d[i] = e[i]

\* Bytes that lack their end, and are still accepted, lack the end of the
\* payload and nothing else.
LEMMA CutPacket ==
    ASSUME NEW S, NEW e \in Seq(S), e[PathLenAt(e)] \in Byte, NEW n \in Nat,
           NEW d, d = SubSeq(e, 1, Len(e) - n), Decodable(d)
    PROVE  CutFrom(S, e, n, d)
<1>1. Len(e) \in Nat
  BY LenProperties
<1>2. n <= Len(e)
  <2> SUFFICES ASSUME ~(n <= Len(e)) PROVE FALSE
    OBVIOUS
  <2>1. Len(e) - n \in Int /\ Len(e) - n < 1
    BY <1>1
  <2>2. d = <<>>
    BY <2>1, SubSeqEmpty
  <2> QED
    BY <2>2 DEF Decodable
<1> DEFINE k == Len(e) - n
<1>3. k \in Nat /\ 1 <= k + 1 /\ k <= Len(e) /\ k + 1 - 1 = k
  BY <1>1, <1>2
<1> HIDE DEF k
<1>4. d \in Seq(S) /\ Len(d) = k /\ \A i \in 1..k : d[i] = e[i]
  <2>1. d = SubSeq(e, 1, k)
    BY DEF k
  <2>2. /\ SubSeq(e, 1, k) \in Seq(S) /\ Len(SubSeq(e, 1, k)) = k + 1 - 1
        /\ \A i \in 1..(k + 1 - 1) : SubSeq(e, 1, k)[i] = e[1 - 1 + i]
    BY <1>3, SubSeqFacts
  <2> QED
    BY <1>3, <2>1, <2>2
<1>5. d # <<>> /\ Len(d) >= PathLenAt(d) /\ Len(d) >= PathLenAt(d) + PathBytes(d)
  BY DEF Decodable
<1>6. PathLenAt(d) \in {2, 6}
  BY DEF PathLenAt
<1>7. 1 \in 1..k /\ PathLenAt(d) \in 1..k
  BY <1>3, <1>4, <1>5, <1>6
<1>8. PathLenAt(d) = PathLenAt(e)
  BY <1>4, <1>7 DEF PathLenAt
<1>9. d[PathLenAt(d)] = e[PathLenAt(e)]
  BY <1>4, <1>7, <1>8
<1>10. PathBytes(d) = PathBytes(e)
  BY <1>9 DEF PathBytes
<1>11. PathBytes(d) \in Nat
  BY <1>4, <1>9, DecodableFacts
<1>12. PathLenAt(e) + PathBytes(e) + n <= Len(e)
  BY <1>1, <1>4, <1>5, <1>6, <1>8, <1>10, <1>11 DEF k
<1> QED
  BY <1>2, <1>4, <1>8, <1>9, <1>10, <1>12 DEF k, CutFrom
=============================================================================
