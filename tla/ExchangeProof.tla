--------------------------- MODULE ExchangeProof ---------------------------
(***************************************************************************)
(* Proofs about Exchange, for every message, text, path and cut: first     *)
(* what is never acted on and what can be answered, then that what arrives *)
(* whole is understood as it was meant, and what its sender reads from the *)
(* answer.                                                                 *)
(***************************************************************************)
EXTENDS Exchange, PacketProof

-----------------------------------------------------------------------------
(* Sequences of bytes and of symbols *)

\* A sequence, of whatever.
IsSeq(s) == s \in Seq(Range(s))

\* What is a sequence of something is one.
LEMMA SeqIsSeq == ASSUME NEW S, NEW s \in Seq(S) PROVE IsSeq(s)
BY SeqOfRange DEF IsSeq

\* A function on 1..n is a sequence of length n.
LEMMA FunIsSeq ==
    ASSUME NEW n \in Nat, NEW f, f = [i \in 1..n |-> f[i]]
    PROVE  IsSeq(f) /\ Len(f) = n
<1>1. f \in [1..n -> Range(f)]
  BY DEF Range
<1> QED
  BY <1>1, FixedLength DEF IsSeq

\* What two sequences are together.
Joins(s, t, u) ==
    /\ IsSeq(u) /\ Len(s) \in Nat /\ Len(t) \in Nat
    /\ Len(u) = Len(s) + Len(t)
    /\ \A i \in 1..Len(s) : u[i] = s[i]
    /\ \A i \in 1..Len(t) : u[Len(s) + i] = t[i]

\* Sequences can be joined, whatever they hold.
LEMMA JoinIsSeq == ASSUME NEW s, NEW t, IsSeq(s), IsSeq(t) PROVE Joins(s, t, s \o t)
<1> DEFINE S == Range(s) \cup Range(t)
           u == s \o t
<1>1. s \in Seq(S) /\ t \in Seq(S)
  <2>1. Range(s) \subseteq S /\ Range(t) \subseteq S
    OBVIOUS
  <2> QED
    BY <2>1, SeqMonotonic DEF IsSeq
<1> HIDE DEF S
<1>2. /\ u \in Seq(S)
      /\ Len(u) = Len(s) + Len(t)
      /\ \A i \in 1..Len(s) : u[i] = s[i]
      /\ \A i \in 1..Len(t) : u[Len(s) + i] = t[i]
  BY <1>1, Concat
<1>3. Len(s) \in Nat /\ Len(t) \in Nat
  BY <1>1, LenProperties
<1>4. IsSeq(u)
  BY <1>2, SeqIsSeq
<1> QED
  BY <1>2, <1>3, <1>4 DEF Joins

\* ... and are a sequence again.
LEMMA Joined2 == ASSUME NEW s, NEW t, IsSeq(s), IsSeq(t) PROVE IsSeq(s \o t)
BY JoinIsSeq DEF Joins

\* Single bytes, small tuples and numbers in bytes are sequences.
LEMMA SmallSeqs ==
    /\ IsSeq(<<>>)
    /\ \A x : IsSeq(<<x>>)
    /\ \A x, y : IsSeq(<<x, y>>)
    /\ \A x, y, z, w : IsSeq(<<x, y, z, w>>)
    /\ \A x : IsSeq(ToBytes(x, 4)) /\ IsSeq(ToBytes(x, 2))
    /\ \A n \in Nat : IsSeq(Zeros(n)) /\ Len(Zeros(n)) = n
<1>1. IsSeq(<<>>)
  BY EmptySeq, SeqIsSeq
<1>2. ASSUME NEW x PROVE IsSeq(<<x>>)
  <2>1. <<x>> \in Seq({x})
    OBVIOUS
  <2> QED
    BY <2>1, SeqIsSeq
<1>3. ASSUME NEW x, NEW y PROVE IsSeq(<<x, y>>)
  <2>1. <<x, y>> \in Seq({x, y})
    OBVIOUS
  <2> QED
    BY <2>1, SeqIsSeq
<1>4. ASSUME NEW x, NEW y, NEW z, NEW w PROVE IsSeq(<<x, y, z, w>>)
  <2>1. <<x, y, z, w>> \in Seq({x, y, z, w})
    OBVIOUS
  <2> QED
    BY <2>1, SeqIsSeq
<1>5. ASSUME NEW x, NEW n \in Nat PROVE IsSeq(ToBytes(x, n))
  <2>1. ToBytes(x, n) = [i \in 1..n |-> ToBytes(x, n)[i]]
    BY DEF ToBytes
  <2> QED
    BY <2>1, FunIsSeq
<1>6. ASSUME NEW n \in Nat PROVE IsSeq(Zeros(n)) /\ Len(Zeros(n)) = n
  <2>1. Zeros(n) = [i \in 1..n |-> Zeros(n)[i]]
    BY DEF Zeros
  <2> QED
    BY <2>1, FunIsSeq
<1>7. 4 \in Nat /\ 2 \in Nat
  OBVIOUS
<1> QED
  BY <1>1, <1>2, <1>3, <1>4, <1>5, <1>6, <1>7

-----------------------------------------------------------------------------
(* Payloads: what the MAC and the signature name *)

\* Public keys are sequences of 32 bytes.
LEMMA PubIsSeq == ASSUME NEW n PROVE IsSeq(Pub(n)) /\ Len(Pub(n)) = 32
<1> DEFINE s == <<n % 16, 0>>
           t == [i \in 1..30 |-> n]
<1>1. IsSeq(s) /\ Len(s) = 2
  BY SmallSeqs
<1>2. t = [i \in 1..30 |-> t[i]] /\ 30 \in Nat
  OBVIOUS
<1>3. IsSeq(t) /\ Len(t) = 30
  BY <1>2, FunIsSeq
<1>4. Pub(n) = s \o t
  BY DEF Pub
<1> HIDE DEF s, t
<1>5. Joins(s, t, s \o t)
  BY <1>1, <1>3, JoinIsSeq
<1> QED
  BY <1>1, <1>3, <1>4, <1>5 DEF Joins

\* What a sealed text looks like from outside: nothing at all, or a MAC whose
\* every byte names the key and the whole of what follows it.
Sealed(s) ==
    \/ s = <<>>
    \/ \E key, body : Len(body) \in Nat /\ Len(s) = 2 + Len(body) /\ s[1] = <<key, body>>

\* encrypt_then_mac.
LEMMA SealedText ==
    ASSUME NEW key, NEW text, IsSeq(text)
    PROVE  IsSeq(EncryptThenMac(key, text)) /\ Sealed(EncryptThenMac(key, text))
<1>1. CASE text = <<>>
  BY <1>1, SmallSeqs DEF EncryptThenMac, Sealed
<1>2. CASE text # <<>>
  <2> DEFINE pad  == (-Len(text)) % CIPHER_BLOCK_SIZE
             n    == Len(Padded(text))
             body == [i \in DOMAIN Padded(text) |-> <<key, Padded(text)[i]>>]
             mac  == Mac(key, body)
  <2>1. Len(text) \in Nat
    BY LenProperties DEF IsSeq
  <2>2. pad \in Nat
    BY <2>1 DEF CIPHER_BLOCK_SIZE
  <2>3. IsSeq(Zeros(pad))
    BY <2>2, SmallSeqs
  <2>4. IsSeq(Padded(text))
    BY <2>3, Joined2 DEF Padded
  <2>5. n \in Nat /\ DOMAIN Padded(text) = 1..n
    BY <2>4, LenProperties DEF IsSeq
  <2>6. body = [i \in 1..n |-> body[i]]
    BY <2>5
  <2>7. EncryptThenMac(key, text) = mac \o body
    BY <1>2 DEF EncryptThenMac
  <2> HIDE DEF n, body
  <2>8. IsSeq(body) /\ Len(body) \in Nat
    BY <2>5, <2>6, FunIsSeq
  <2>9. mac = [i \in 1..2 |-> mac[i]] /\ mac[1] = <<key, body>> /\ 2 \in Nat
    BY DEF Mac, CIPHER_MAC_SIZE
  <2> HIDE DEF mac
  <2>10. IsSeq(mac) /\ Len(mac) = 2
    BY <2>9, FunIsSeq
  <2>11. Joins(mac, body, mac \o body)
    BY <2>8, <2>10, JoinIsSeq
  <2>12. IsSeq(mac \o body) /\ Len(mac \o body) = 2 + Len(body) /\ (mac \o body)[1] = mac[1]
    BY <2>10, <2>11 DEF Joins
  <2> QED
    BY <2>7, <2>8, <2>9, <2>12 DEF Sealed
<1> QED
  BY <1>1, <1>2

\* A payload that is a header of h bytes and a sealed text.
SealedPayload(payload, h) ==
    \E head, s : IsSeq(head) /\ Len(head) = h /\ IsSeq(s) /\ Sealed(s) /\ payload = head \o s

\* A payload c that is another one without its end.
Shortened(c, payload, n) ==
    /\ IsSeq(c) /\ Len(c) = Len(payload) - n
    /\ \A i \in 1..Len(c) : c[i] = payload[i]

\* No key opens what has been shortened: the MAC names more than is left.
LEMMA ShortenedUnreadable ==
    ASSUME NEW payload, NEW h \in Nat, SealedPayload(payload, h),
           NEW n \in Nat \ {0}, NEW c, Shortened(c, payload, n),
           NEW k, NEW least, Readable(c, h, k, least)
    PROVE  FALSE
<1>1. PICK head, s : IsSeq(head) /\ Len(head) = h /\ IsSeq(s) /\ Sealed(s) /\ payload = head \o s
  BY DEF SealedPayload
<1>2. Joins(head, s, payload)
  BY <1>1, JoinIsSeq
<1>3. /\ Len(s) \in Nat /\ Len(payload) = h + Len(s)
      /\ \A i \in 1..Len(s) : payload[h + i] = s[i]
  BY <1>1, <1>2 DEF Joins
<1>4. Len(c) = Len(payload) - n /\ IsSeq(c) /\ Len(c) \in Nat
  BY LenProperties DEF Shortened, IsSeq
<1> DEFINE r == From(c, h + 1)
           b == Body(r)
<1>5. Len(c) >= h + 18 /\ Opens(k, r)
  BY DEF Readable, CIPHER_MAC_SIZE, CIPHER_BLOCK_SIZE
<1>6. Len(s) > 18 /\ s # <<>>
  BY <1>3, <1>4, <1>5
<1>7. PICK key, body : Len(body) \in Nat /\ Len(s) = 2 + Len(body) /\ s[1] = <<key, body>>
  BY <1>1, <1>6 DEF Sealed
<1>8. r \in Seq(Range(c)) /\ Len(r) = Len(c) - h /\ r[1] = c[h + 1]
  <2> DEFINE m == h + 1
             l == Len(c)
  <2>1. m \in Nat \ {0} /\ l \in Nat /\ m <= l + 1 /\ l <= Len(c) /\ l + 1 - m = Len(c) - h
        /\ 1 \in 1..(l + 1 - m) /\ m - 1 + 1 = h + 1
    BY <1>4, <1>5
  <2>2. c \in Seq(Range(c))
    BY <1>4 DEF IsSeq
  <2> HIDE DEF m, l
  <2>3. /\ SubSeq(c, m, l) \in Seq(Range(c))
        /\ Len(SubSeq(c, m, l)) = l + 1 - m
        /\ \A i \in 1..(l + 1 - m) : SubSeq(c, m, l)[i] = c[m - 1 + i]
    BY <2>1, <2>2, SubSeqFacts
  <2>4. r = SubSeq(c, m, l)
    BY DEF From, m, l
  <2> QED
    BY <2>1, <2>3, <2>4
<1>9. c[h + 1] = payload[h + 1] /\ payload[h + 1] = s[1]
  <2>1. h + 1 \in 1..Len(c) /\ 1 \in 1..Len(s)
    BY <1>4, <1>5, <1>6
  <2> QED
    BY <2>1, <1>3 DEF Shortened
<1> HIDE DEF r
<1>10. SubSeq(r, 1, 2) = Mac(k, b)
  BY <1>5 DEF Opens, CIPHER_MAC_SIZE
<1>11. Len(b) = Len(r) - 2
  <2> DEFINE l == Len(r)
  <2>1. 3 \in Nat \ {0} /\ l \in Nat /\ 3 <= l + 1 /\ l <= Len(r) /\ l + 1 - 3 = Len(r) - 2
    BY <1>8, <1>4, <1>5
  <2> HIDE DEF l
  <2>2. Len(SubSeq(r, 3, l)) = l + 1 - 3
    BY <1>8, <2>1, SubSeqFacts
  <2>3. b = SubSeq(r, 3, l)
    BY DEF Body, From, CIPHER_MAC_SIZE, l
  <2> QED
    BY <2>1, <2>2, <2>3
<1>12. SubSeq(r, 1, 2)[1] = r[1]
  <2>1. 1 \in Nat \ {0} /\ 1 + 1 <= Len(r) /\ 1 + 1 = 2
    BY <1>8, <1>4, <1>5
  <2>2. \A m \in Nat \ {0} : m + 1 <= Len(r) => SubSeq(r, m, m + 1)[1] = r[m]
    BY <1>8, PairAt
  <2> QED
    BY <2>1, <2>2
<1> HIDE DEF b
<1>13. Mac(k, b)[1] = <<k, b>>
  BY DEF Mac, CIPHER_MAC_SIZE
<1>14. <<key, body>> = <<k, b>>
  BY <1>7, <1>8, <1>9, <1>10, <1>12, <1>13
<1>15. Len(body) = Len(b)
  BY <1>14
<1> QED
  BY <1>3, <1>4, <1>7, <1>8, <1>11, <1>15

\* An advert: the parts before and after a signature that names both.
SignedPayload(payload) ==
    \E pub, ts, sig, app, n :
        /\ IsSeq(pub) /\ Len(pub) = 32 /\ IsSeq(ts) /\ Len(ts) = 4 /\ IsSeq(app)
        /\ IsSeq(sig) /\ Len(sig) = 64 /\ sig[1] = <<n, pub \o ts \o app>>
        /\ payload = pub \o ts \o sig \o app

\* The app data of an advert are a sequence, whichever of its fields are set.
LEMMA AppIsSeq == ASSUME NEW a, IsSeq(a.name) PROVE IsSeq(EncodeApp(a))
<1> DEFINE head == <<(a.type % 16) + Flag(a.lat, 16) + Flag(a.feat1, 32) + Flag(a.feat2, 64) + Flag(a.name, 128)>>
           s1 == head \o Optional(a.lat, 4)
           s2 == s1 \o Optional(a.lon, 4)
           s3 == s2 \o Optional(a.feat1, 2)
           s4 == s3 \o Optional(a.feat2, 2)
<1>1. ASSUME NEW o PROVE IsSeq(Optional(o, 4)) /\ IsSeq(Optional(o, 2))
  BY SmallSeqs DEF Optional
<1>2. IsSeq(head)
  BY SmallSeqs
<1>3. EncodeApp(a) = s4 \o a.name
  BY DEF EncodeApp
<1> HIDE DEF head
<1>4. IsSeq(s1)
  BY <1>1, <1>2, Joined2
<1> HIDE DEF s1
<1>5. IsSeq(s2)
  BY <1>1, <1>4, Joined2
<1> HIDE DEF s2
<1>6. IsSeq(s3)
  BY <1>1, <1>5, Joined2
<1> HIDE DEF s3
<1>7. IsSeq(s4)
  BY <1>1, <1>6, Joined2
<1> HIDE DEF s4
<1> QED
  BY <1>3, <1>7, Joined2

\* encode_advert.
LEMMA SignedAdvert ==
    ASSUME NEW n, NEW ts, NEW a, IsSeq(a.name)
    PROVE  SignedPayload(EncodeAdvert(n, ts, a)) /\ IsSeq(EncodeAdvert(n, ts, a))
<1> DEFINE pub == Pub(n)
           t   == ToBytes(ts, 4)
           app == EncodeApp(a)
           sig == Sign(n, pub \o t \o app)
           s1  == pub \o t
           s2  == s1 \o sig
<1>1. IsSeq(pub) /\ Len(pub) = 32
  BY PubIsSeq
<1>2. t = [i \in 1..4 |-> t[i]] /\ 4 \in Nat
  BY DEF ToBytes
<1>3. IsSeq(app)
  BY AppIsSeq
<1>4. sig = [i \in 1..64 |-> sig[i]] /\ 64 \in Nat /\ sig[1] = <<n, pub \o t \o app>>
  BY DEF Sign
<1>5. EncodeAdvert(n, ts, a) = pub \o t \o sig \o app
  BY DEF EncodeAdvert
<1> HIDE DEF pub, t, app, sig
<1>6. IsSeq(t) /\ Len(t) = 4 /\ IsSeq(sig) /\ Len(sig) = 64
  BY <1>2, <1>4, FunIsSeq
<1>7. IsSeq(s1)
  BY <1>1, <1>6, Joined2
<1>8. IsSeq(s2)
  BY <1>6, <1>7, Joined2
<1>9. IsSeq(s2 \o app)
  BY <1>3, <1>8, Joined2
<1>10. SignedPayload(EncodeAdvert(n, ts, a))
  BY <1>1, <1>3, <1>4, <1>5, <1>6 DEF SignedPayload
<1> QED
  BY <1>5, <1>9, <1>10

\* No key signs what has been shortened: the signature names more than is left.
LEMMA ShortenedUnsigned ==
    ASSUME NEW payload, SignedPayload(payload), NEW n \in Nat \ {0}, NEW c, Shortened(c, payload, n),
           NEW d, AdvertDecodable(c), SignatureValid(c, d)
    PROVE  FALSE
<1>1. PICK pub, ts, sig, app, k :
        /\ IsSeq(pub) /\ Len(pub) = 32 /\ IsSeq(ts) /\ Len(ts) = 4 /\ IsSeq(app)
        /\ IsSeq(sig) /\ Len(sig) = 64 /\ sig[1] = <<k, pub \o ts \o app>>
        /\ payload = pub \o ts \o sig \o app
  BY DEF SignedPayload
<1> DEFINE s1 == pub \o ts
           s2 == s1 \o sig
           m  == s1 \o app
<1>2. Joins(pub, ts, s1)
  BY <1>1, JoinIsSeq
<1>3. IsSeq(s1) /\ Len(s1) = 36
  BY <1>1, <1>2 DEF Joins
<1>4. sig[1] = <<k, m>> /\ payload = s2 \o app
  BY <1>1
<1> HIDE DEF s1
<1>5. Joins(s1, sig, s2) /\ Joins(s1, app, m)
  BY <1>1, <1>3, JoinIsSeq
<1>6. IsSeq(s2) /\ Len(s2) = 100 /\ s2[37] = sig[1] /\ Len(m) = 36 + Len(app) /\ Len(app) \in Nat
  <2>1. 1 \in 1..Len(sig) /\ 36 + 1 = 37 /\ 36 + 64 = 100
    BY <1>1
  <2>2. s2[Len(s1) + 1] = sig[1]
    BY <1>5, <2>1 DEF Joins
  <2>3. s2[37] = sig[1]
    BY <1>3, <2>1, <2>2
  <2>4. IsSeq(s2) /\ Len(s2) = Len(s1) + Len(sig)
    BY <1>5 DEF Joins
  <2>5. Len(m) = Len(s1) + Len(app) /\ Len(app) \in Nat
    BY <1>5 DEF Joins
  <2> QED
    BY <1>1, <1>3, <2>3, <2>4, <2>5
<1> HIDE DEF s2, m
<1>7. Joins(s2, app, s2 \o app)
  BY <1>1, <1>6, JoinIsSeq
<1>8. Len(payload) = 100 + Len(app) /\ payload[37] = sig[1]
  <2>1. 37 \in 1..Len(s2)
    BY <1>6
  <2> QED
    BY <1>4, <1>6, <1>7, <2>1 DEF Joins
<1>9. IsSeq(c) /\ Len(c) \in Nat /\ Len(c) = Len(payload) - n /\ Len(c) >= 100
  BY LenProperties DEF Shortened, IsSeq, AdvertDecodable, ADVERT_HEADER_SIZE
<1>10. c[37] = payload[37]
  <2>1. 37 \in 1..Len(c)
    BY <1>9
  <2> QED
    BY <2>1 DEF Shortened
<1> DEFINE u == SubSeq(c, 1, 36)
           v == From(c, 101)
           w == SubSeq(c, 37, 100)
<1>11. w = Sign(d, u \o v)
  BY DEF SignatureValid, ADVERT_HEADER_SIZE
<1>12. Sign(d, u \o v)[1] = <<d, u \o v>>
  BY DEF Sign
<1>13. c \in Seq(Range(c))
  BY <1>9 DEF IsSeq
<1>14. w[1] = c[37]
  <2>1. 37 \in Nat \ {0} /\ 100 \in Nat /\ 37 <= 100 + 1 /\ 100 <= Len(c) /\ 1 \in 1..(100 + 1 - 37) /\ 37 - 1 + 1 = 37
    BY <1>9
  <2>2. \A a \in Nat \ {0}, b \in Nat : a <= b + 1 /\ b <= Len(c) =>
            \A i \in 1..(b + 1 - a) : SubSeq(c, a, b)[i] = c[a - 1 + i]
    BY <1>13, SubSeqFacts
  <2>3. \A i \in 1..(100 + 1 - 37) : SubSeq(c, 37, 100)[i] = c[37 - 1 + i]
    BY <2>1, <2>2
  <2> QED
    BY <2>1, <2>3
<1>15. IsSeq(u) /\ Len(u) = 36 /\ IsSeq(v) /\ Len(v) = Len(c) - 100
  <2>1. \A a \in Nat \ {0}, b \in Nat : a <= b + 1 /\ b <= Len(c) =>
            SubSeq(c, a, b) \in Seq(Range(c)) /\ Len(SubSeq(c, a, b)) = b + 1 - a
    BY <1>13, SubSeqFacts
  <2>2. u \in Seq(Range(c)) /\ Len(u) = 36
    <3>1. 1 \in Nat \ {0} /\ 36 \in Nat /\ 1 <= 36 + 1 /\ 36 <= Len(c) /\ 36 + 1 - 1 = 36
      BY <1>9
    <3>2. SubSeq(c, 1, 36) \in Seq(Range(c)) /\ Len(SubSeq(c, 1, 36)) = 36 + 1 - 1
      BY <2>1, <3>1
    <3> QED
      BY <3>1, <3>2
  <2>3. v \in Seq(Range(c)) /\ Len(v) = Len(c) - 100
    <3> DEFINE l == Len(c)
    <3>1. 101 \in Nat \ {0} /\ l \in Nat /\ 101 <= l + 1 /\ l <= Len(c) /\ l + 1 - 101 = Len(c) - 100
      BY <1>9
    <3> HIDE DEF l
    <3>2. SubSeq(c, 101, l) \in Seq(Range(c)) /\ Len(SubSeq(c, 101, l)) = l + 1 - 101
      BY <2>1, <3>1
    <3>3. v = SubSeq(c, 101, l)
      BY DEF From, l
    <3> QED
      BY <3>1, <3>2, <3>3
  <2> QED
    BY <2>2, <2>3, SeqIsSeq
<1> HIDE DEF u, v, w
<1>16. Joins(u, v, u \o v)
  BY <1>15, JoinIsSeq
<1>17. Len(u \o v) = 36 + (Len(c) - 100)
  BY <1>15, <1>16 DEF Joins
<1>18. <<k, m>> = <<d, u \o v>>
  BY <1>4, <1>8, <1>10, <1>11, <1>12, <1>14
<1>19. Len(m) = Len(u \o v)
  BY <1>18
<1> QED
  BY <1>6, <1>8, <1>9, <1>17, <1>19

-----------------------------------------------------------------------------
(* What is sent, and what is made of it when its end is lost *)

\* A datagram: two addresses and a sealed text.
LEMMA SealedDatagram ==
    ASSUME NEW dest, NEW src, NEW inner, IsSeq(inner)
    PROVE  SealedPayload(Datagram(dest, src, inner), 2) /\ IsSeq(Datagram(dest, src, inner))
<1> DEFINE head == <<Address(dest), Address(src)>>
           s    == EncryptThenMac(SharedSecret(dest, src), inner)
<1>1. IsSeq(head) /\ Len(head) = 2
  BY SmallSeqs
<1>2. IsSeq(s) /\ Sealed(s)
  BY SealedText
<1>3. Datagram(dest, src, inner) = head \o s
  BY DEF Datagram
<1> HIDE DEF head, s
<1> QED
  BY <1>1, <1>2, <1>3, Joined2 DEF SealedPayload

\* The plaintexts are sequences.
LEMMA PlaintextsAreSeqs ==
    ASSUME NEW ts, NEW attempt, NEW type, NEW text, IsSeq(text)
    PROVE  /\ IsSeq(TextThroughEnd(ts, attempt, text, type))
           /\ IsSeq(ComposePlaintext(ts, attempt, text, type))
           /\ \A author : IsSeq(RoomPushInner(ts, attempt, author, text))
           /\ IsSeq(ToBytes(ts, 4) \o text)
           /\ \A since : IsSeq(ToBytes(ts, 4) \o ToBytes(since, 4) \o text \o <<0>>)
<1> DEFINE t == ToBytes(ts, 4)
<1>1. IsSeq(t) /\ IsSeq(<<0>>)
  BY SmallSeqs
<1>2. ASSUME NEW x PROVE IsSeq(t \o <<x>>)
  BY <1>1, SmallSeqs, Joined2
<1>3. IsSeq(TextThroughEnd(ts, attempt, text, type))
  BY <1>2, Joined2 DEF TextThroughEnd
<1>4. IsSeq(ComposePlaintext(ts, attempt, text, type))
  BY <1>1, <1>3, Joined2 DEF ComposePlaintext
<1>5. ASSUME NEW author PROVE IsSeq(RoomPushInner(ts, attempt, author, text))
  <2> DEFINE s1 == t \o <<FlagsByte(attempt, 2)>>
             k  == SubSeq(Pub(author), 1, 4)
             s2 == s1 \o k
  <2>1. IsSeq(s1)
    BY <1>2
  <2>2. k \in Seq(Range(Pub(author)))
    <3>1. \A a \in Nat \ {0}, b \in Nat : a <= b + 1 /\ b <= 32 => SubSeq(Pub(author), a, b) \in Seq(Range(Pub(author)))
      BY PubIsSeq, SubSeqFacts DEF IsSeq
    <3>2. 1 \in Nat \ {0} /\ 4 \in Nat /\ 1 <= 4 + 1 /\ 4 <= 32
      OBVIOUS
    <3> QED
      BY <3>1, <3>2
  <2>3. IsSeq(k)
    BY <2>2, SeqIsSeq
  <2>4. PushThroughText(ts, attempt, author, text) = s2 \o text
    BY DEF PushThroughText
  <2> HIDE DEF s1, k
  <2>5. IsSeq(s2)
    BY <2>1, <2>3, Joined2
  <2> HIDE DEF s2
  <2>6. IsSeq(PushThroughText(ts, attempt, author, text))
    BY <2>4, <2>5, Joined2
  <2> QED
    BY <1>1, <2>6, Joined2 DEF RoomPushInner
<1>6. IsSeq(t \o text)
  BY <1>1, Joined2
<1>7. ASSUME NEW since PROVE IsSeq(t \o ToBytes(since, 4) \o text \o <<0>>)
  <2> DEFINE s1 == t \o ToBytes(since, 4)
             s2 == s1 \o text
  <2>1. IsSeq(s1)
    BY <1>1, SmallSeqs, Joined2
  <2> HIDE DEF s1
  <2>2. IsSeq(s2)
    BY <2>1, Joined2
  <2> HIDE DEF s2
  <2>3. IsSeq(s2 \o <<0>>)
    BY <1>1, <2>2, Joined2
  <2> QED
    BY <2>3 DEF s2, s1
<1> QED
  BY <1>3, <1>4, <1>5, <1>6, <1>7

\* Where the sealed text of a message begins.
HeaderOf(m) == IF m.kind = "login" THEN 33 ELSE 2

\* Every payload is signed or ends in a sealed text.
LEMMA PayloadFacts ==
    ASSUME NEW m \in Messages
    PROVE  /\ IsSeq(Payload(m))
           /\ m.kind = "advert" => SignedPayload(Payload(m))
           /\ m.kind # "advert" => SealedPayload(Payload(m), HeaderOf(m))
<1>1. m.kind \in {"txt", "echo", "push", "login", "req", "grp", "advert"}
  BY MessageAssumption
<1>2. m.kind # "advert" => IsSeq(m.text)
  BY MessageAssumption, SeqIsSeq
<1>3. m.kind = "advert" => IsSeq(m.app.name)
  <2>1. m.kind = "advert" => m.app \in Apps
    BY MessageAssumption, Zenon
  <2>2. m.app \in Apps => m.app.name \in Seq(0..255)
    BY DEF Apps
  <2> QED
    BY <2>1, <2>2, SeqIsSeq
<1>4. CASE m.kind = "txt"
  <2>1. Payload(m) = Datagram(Room, Client, TextThroughEnd(m.ts, m.attempt, m.text, m.type))
    BY <1>4 DEF Payload
  <2> QED
    BY <1>2, <1>4, <2>1, PlaintextsAreSeqs, SealedDatagram DEF HeaderOf
<1>5. CASE m.kind = "echo"
  <2>1. Payload(m) = Datagram(Client, Room, ComposePlaintext(m.ts, m.attempt, m.text, 0))
    BY <1>5 DEF Payload
  <2> QED
    BY <1>2, <1>5, <2>1, PlaintextsAreSeqs, SealedDatagram DEF HeaderOf
<1>6. CASE m.kind = "push"
  <2>1. Payload(m) = Datagram(Client, Room, RoomPushInner(m.ts, m.attempt, Author, m.text))
    BY <1>6 DEF Payload
  <2> QED
    BY <1>2, <1>6, <2>1, PlaintextsAreSeqs, SealedDatagram DEF HeaderOf
<1>7. CASE m.kind = "req"
  <2>1. Payload(m) = Datagram(Room, Client, ToBytes(m.ts, 4) \o m.text)
    BY <1>7 DEF Payload
  <2> QED
    BY <1>2, <1>7, <2>1, PlaintextsAreSeqs, SealedDatagram DEF HeaderOf
<1>8. CASE m.kind = "grp"
  <2> DEFINE head == <<Channel, Address(Client)>>
             s    == EncryptThenMac({Channel}, ComposePlaintext(m.ts, m.attempt, m.text, m.type))
  <2>1. Payload(m) = head \o s
    BY <1>8 DEF Payload
  <2>2. IsSeq(head) /\ Len(head) = 2
    BY SmallSeqs
  <2>3. IsSeq(ComposePlaintext(m.ts, m.attempt, m.text, m.type))
    BY <1>2, <1>8, PlaintextsAreSeqs
  <2>4. IsSeq(s) /\ Sealed(s)
    BY <2>3, SealedText
  <2> HIDE DEF head, s
  <2> QED
    BY <1>8, <2>1, <2>2, <2>4, Joined2 DEF SealedPayload, HeaderOf
<1>9. CASE m.kind = "login"
  <2> DEFINE inner == ToBytes(m.ts, 4) \o ToBytes(m.ts, 4) \o m.text \o <<0>>
             a     == <<Address(Room)>>
             head  == a \o Pub(Client)
             s     == EncryptThenMac(SharedSecret(Room, Client), inner)
  <2>1. Payload(m) = head \o s
    BY <1>9 DEF Payload, AnonLogin
  <2>2. IsSeq(a) /\ Len(a) = 1
    BY SmallSeqs
  <2>3. IsSeq(Pub(Client)) /\ Len(Pub(Client)) = 32
    BY PubIsSeq
  <2>4. IsSeq(inner)
    BY <1>2, <1>9, PlaintextsAreSeqs
  <2> HIDE DEF inner, a
  <2>5. IsSeq(s) /\ Sealed(s)
    BY <2>4, SealedText
  <2>6. Joins(a, Pub(Client), head)
    BY <2>2, <2>3, JoinIsSeq
  <2>7. IsSeq(head) /\ Len(head) = 33
    BY <2>2, <2>3, <2>6 DEF Joins
  <2> HIDE DEF head, s
  <2> QED
    BY <1>9, <2>1, <2>5, <2>7, Joined2 DEF SealedPayload, HeaderOf
<1>10. CASE m.kind = "advert"
  <2>1. Payload(m) = EncodeAdvert(m.from, m.ts, m.app)
    BY <1>10 DEF Payload
  <2> QED
    BY <1>3, <1>10, <2>1, SignedAdvert
<1> QED
  BY <1>1, <1>4, <1>5, <1>6, <1>7, <1>8, <1>9, <1>10

\* Of a shortened payload nothing is made, whatever the message was.
LEMMA ShortenedContent ==
    ASSUME NEW m \in Messages, NEW p, NEW n \in Nat \ {0}, Shortened(p.payload, Payload(m), n)
    PROVE  Content(m, p) = {}
<1> DEFINE c == p.payload
           h == HeaderOf(m)
<1>1. m.kind \in {"txt", "echo", "push", "login", "req", "grp", "advert"}
  BY MessageAssumption
<1>2. ASSUME m.kind # "advert", NEW k, NEW least PROVE ~Readable(c, h, k, least)
  <2>1. SealedPayload(Payload(m), h) /\ h \in Nat
    BY <1>2, PayloadFacts DEF HeaderOf
  <2> QED
    BY <2>1, ShortenedUnreadable
<1>3. ASSUME m.kind = "advert", NEW d, AdvertDecodable(c) PROVE ~SignatureValid(c, d)
  BY <1>3, PayloadFacts, ShortenedUnsigned
<1> HIDE DEF c
<1>4. ASSUME m.kind # "advert", m.kind # "login", NEW least
      PROVE  Opened(c, least) = {} /\ \A k, f : OpenedBy(k, f, c, least) = {}
  <2>1. \A k : ~Readable(c, 2, k, least)
    BY <1>2, <1>4 DEF HeaderOf
  <2> QED
    BY <2>1 DEF Opened, OpenedBy
<1>5. CASE m.kind = "login"
  <2>1. \A k : ~Readable(c, 33, k, 8)
    BY <1>2, <1>5 DEF HeaderOf
  <2>2. OpenedLogin(c) = {}
    BY <2>1 DEF OpenedLogin
  <2> QED
    BY <1>5, <2>2 DEF Content, c
<1>6. CASE m.kind = "advert"
  <2>1. Believed(c) = {}
    BY <1>3, <1>6 DEF Believed
  <2> QED
    BY <1>6, <2>1 DEF Content, c
<1>7. CASE m.kind = "txt"
  <2>1. Opened(c, 6) = {}
    BY <1>4, <1>7
  <2> QED
    BY <1>7, <2>1 DEF Content, c
<1>8. CASE m.kind = "req"
  <2>1. Opened(c, 5) = {}
    BY <1>4, <1>8
  <2> QED
    BY <1>8, <2>1 DEF Content, c
<1>9. CASE m.kind = "push"
  <2>1. OpenedBy(SharedSecret(Room, Client), Room, c, 9) = {}
    BY <1>4, <1>9
  <2> QED
    BY <1>9, <2>1 DEF Content, c
<1>10. CASE m.kind = "echo"
  <2>1. OpenedBy(SharedSecret(Room, Client), Room, c, 6) = {}
    BY <1>4, <1>10
  <2> QED
    BY <1>10, <2>1 DEF Content, c
<1>11. CASE m.kind = "grp"
  <2>1. OpenedBy({Channel}, c[2], c, 6) = {}
    BY <1>4, <1>11
  <2> QED
    BY <1>11, <2>1 DEF Content, c
<1> QED
  BY <1>1, <1>5, <1>6, <1>7, <1>8, <1>9, <1>10, <1>11

-----------------------------------------------------------------------------
(* The packet on its way *)

\* What a payload is made of, besides bytes.
Alphabet(m) == Byte \cup Range(Payload(m))

\* A packet that carries the message and fits.
Carries(p, m) ==
    /\ p \in PacketOver(Alphabet(m))
    /\ p.payload = Payload(m)
    /\ Encodable(p)
    /\ Len(p.path) <= MAX_PATH_SIZE

\* The bytes that travel are those of a packet that carries the message.
WireSound == stage # "new" => \E p : Carries(p, msg) /\ wire = EncodePacket(p)

\* What has been received was decoded from bytes that decode_packet accepts,
\* and what has been made of it was not shortened.
InboundSound ==
    /\ cut > 0 => heard = {}
    /\ stage = "heard" =>
        \E S, d : /\ d \in Seq(S) /\ Decodable(d) /\ d[PathLenAt(d)] \in Byte
                  /\ inbound = {DecodePacket(d)}

Typed ==
    /\ stage \in {"new", "air", "line", "heard", "ignored", "answered", "done"}
    /\ cut \in Cuts \cup {0}
    /\ msg \in Messages
    /\ IsSeq(digest)

IInv == Typed /\ WireSound /\ InboundSound

\* n hashes make up a path.
LEMMA PathOfHashes ==
    ASSUME NEW S, Byte \subseteq S, NEW n \in 0..63, NEW size \in 1..4, n * size <= 64,
           NEW path, path = [i \in 1..(n * size) |-> i]
    PROVE  path \in Seq(S) /\ Len(path) <= 64 /\ Len(path) \div size = n /\ Len(path) % size = 0
<1> DEFINE l == n * size
<1>1. l \in Nat /\ l <= 64
  OBVIOUS
<1>2. l \div size = n /\ l % size = 0
  BY WholeHashes
<1>3. path = [i \in 1..l |-> i]
  OBVIOUS
<1> HIDE DEF l
<1>4. ASSUME NEW i \in 1..l PROVE i \in S
  <2>1. i \in 0..255
    BY <1>1, <1>4
  <2> QED
    BY <2>1 DEF Byte
<1>5. path \in [1..l -> S]
  BY <1>3, <1>4
<1>6. path \in Seq(S) /\ Len(path) = l
  BY <1>1, <1>5, FixedLength
<1> QED
  BY <1>1, <1>2, <1>6

\* A path of n hashes is one that encode_packet accepts.
LEMMA PathFits ==
    ASSUME NEW S, Byte \subseteq S, NEW p \in PacketOver(S), Encodable(p),
           NEW n \in 0..63, n * p.size <= MAX_PATH_SIZE,
           NEW q, q = [p EXCEPT !.path = [i \in 1..(n * p.size) |-> i]]
    PROVE  q \in PacketOver(S) /\ Encodable(q) /\ Len(q.path) <= MAX_PATH_SIZE /\ q.payload = p.payload
<1> DEFINE size == p.size
           path == [i \in 1..(n * size) |-> i]
<1>1. size \in 1..4
  BY DEF PacketOver
<1>2. n * size <= 64
  BY DEF MAX_PATH_SIZE
<1>3. q = [p EXCEPT !.path = path]
  OBVIOUS
<1>4. path = [i \in 1..(n * size) |-> i]
  OBVIOUS
<1> HIDE DEF size, path
<1>5. path \in Seq(S) /\ Len(path) <= 64 /\ Len(path) \div size = n /\ Len(path) % size = 0
  BY <1>1, <1>2, <1>4, PathOfHashes
<1>8. /\ q.path = path /\ q.route = p.route /\ q.codes = p.codes /\ q.size = size /\ q.payload = p.payload
      /\ q \in PacketOver(S)
  BY <1>3, <1>5 DEF PacketOver, size
<1>9. HashCount(q) = n
  BY <1>5, <1>8 DEF HashCount
<1>10. Len(q.path) % q.size = 0 /\ Len(q.path) <= MAX_PATH_SIZE
  BY <1>5, <1>8 DEF MAX_PATH_SIZE
<1>11. (q.route \in TransportRoutes) <=> (q.codes # <<>>)
  BY <1>8 DEF Encodable
<1>12. Encodable(q)
  BY <1>1, <1>8, <1>9, <1>10, <1>11 DEF Encodable, PathLenEncodable
<1> QED
  BY <1>8, <1>10, <1>12

\* The alphabet holds the bytes and the payload.
LEMMA AlphabetFacts ==
    ASSUME NEW m \in Messages
    PROVE  Byte \subseteq Alphabet(m) /\ Payload(m) \in Seq(Alphabet(m))
<1>1. Range(Payload(m)) \subseteq Alphabet(m)
  BY DEF Alphabet
<1> QED
  BY <1>1, PayloadFacts, SeqMonotonic DEF Alphabet, IsSeq

\* build_*_packet for a message gives a packet that carries it.
LEMMA OutboundCarries ==
    ASSUME NEW m \in Messages, NEW size \in 1..4
    PROVE  Carries(Outbound(m, size), m)
<1> DEFINE S == Alphabet(m)
           q == Outbound(m, size)
           type  == TypeOf(m)
           codes == Codes(m)
           load  == Payload(m)
<1>1. m.route \in 0..3
  BY MessageAssumption
<1>2. type \in 0..15
  BY MessageAssumption DEF TypeOf, TXT_MSG, ANON_REQ, REQ, GRP_TXT, ADVERT
<1>3. codes \in TransportCodes /\ (m.route \in TransportRoutes <=> codes # <<>>)
  <2>1. <<>> \in TransportCodes /\ <<513, 7>> \in TransportCodes
    <3>1. <<513, 7>> \in CodePair
      <4>1. 513 \in TransportCode /\ 7 \in TransportCode
        BY DEF TransportCode
      <4> QED
        BY <4>1, Zenon DEF CodePair
    <3>2. CodePair \subseteq TransportCodes
      BY DEF TransportCodes
    <3>3. <<>> \in TransportCodes
      BY DEF TransportCodes
    <3>4. <<513, 7>> \in TransportCodes
      BY <3>1, <3>2, Zenon
    <3> QED
      BY <3>3, <3>4, Zenon
  <2>2. <<513, 7>> # <<>>
    OBVIOUS
  <2> QED
    BY <2>1, <2>2 DEF Codes
<1>4. load \in Seq(S)
  BY AlphabetFacts
<1>5. q = [route |-> m.route, type |-> type, ver |-> 0, codes |-> codes, path |-> <<>>, payload |-> load, size |-> size]
  BY DEF Outbound, BuildPacket
<1> HIDE DEF S, type, codes, load
<1>6. <<>> \in Seq(S) /\ Len(<<>>) = 0
  OBVIOUS
<1> DEFINE none == <<>>
<1> HIDE DEF none
<1>7. /\ q \in PacketOver(S) /\ q.route = m.route /\ q.codes = codes /\ q.size = size
      /\ q.path = <<>> /\ q.payload = load
  BY <1>1, <1>2, <1>3, <1>4, <1>5, <1>6 DEF PacketOver
<1>8. HashCount(q) = 0 /\ Len(q.path) % q.size = 0 /\ Len(q.path) <= 64
  <2>1. 0 \div size = 0 /\ 0 % size = 0
    OBVIOUS
  <2> QED
    BY <1>6, <1>7, <2>1 DEF HashCount
<1>9. Encodable(q)
  BY <1>3, <1>7, <1>8 DEF Encodable, PathLenEncodable
<1> QED
  BY <1>7, <1>8, <1>9 DEF Carries, MAX_PATH_SIZE, S, load

\* What decode_packet makes of the packet when n bytes at its end are lost.
LEMMA CutCarried ==
    ASSUME NEW m \in Messages, NEW p, Carries(p, m), NEW n \in Nat,
           NEW d, d = SubSeq(EncodePacket(p), 1, Len(EncodePacket(p)) - n), Decodable(d)
    PROVE  /\ d \in Seq(Alphabet(m)) /\ d[PathLenAt(d)] \in Byte
           /\ Shortened(DecodePacket(d).payload, Payload(m), n)
<1> DEFINE S       == Alphabet(m)
           e       == EncodePacket(p)
           path    == p.path
           load    == Payload(m)
           at      == PathLenAt(e)
           got     == DecodePacket(d).payload
<1>1. Byte \subseteq S /\ p \in PacketOver(S) /\ Encodable(p) /\ p.payload = load
  BY AlphabetFacts DEF Carries
<1>2. /\ e \in Seq(S) /\ e[at] \in Byte /\ PathBytes(e) = Len(p.path)
      /\ Len(e) = at + Len(p.path) + Len(p.payload)
      /\ From(e, at + Len(p.path) + 1) = p.payload
  BY <1>1, EncodedParts
<1>3. /\ PathBytes(e) = Len(path) /\ Len(e) = at + Len(path) + Len(load)
      /\ From(e, at + Len(path) + 1) = load
  BY <1>1, <1>2
<1>4. path \in Seq(S) /\ load \in Seq(S)
  BY <1>1, AlphabetFacts DEF PacketOver
<1> HIDE DEF path
<1>5. Len(path) \in Nat /\ Len(load) \in Nat /\ at \in {2, 6}
  BY <1>4, LenProperties DEF PathLenAt
<1>6. d = SubSeq(e, 1, Len(e) - n)
  OBVIOUS
<1> HIDE DEF S, e, load, at
<1>7. /\ n <= Len(e) /\ d \in Seq(S) /\ Len(d) = Len(e) - n
      /\ PathLenAt(d) = at /\ d[PathLenAt(d)] = e[at]
      /\ PathBytes(d) = PathBytes(e)
      /\ at + PathBytes(e) + n <= Len(e)
      /\ \A i \in 1..(Len(e) - n) : d[i] = e[i]
  <2>1. e \in Seq(S) /\ e[PathLenAt(e)] \in Byte
    BY <1>2 DEF at
  <2>2. CutFrom(S, e, n, d)
    BY <1>6, <2>1, CutPacket
  <2> QED
    BY <2>2 DEF at, CutFrom
<1>8. d[PathLenAt(d)] \in Byte
  BY <1>2, <1>7
<1>9. /\ got \in Seq(S)
      /\ Len(got) = Len(d) - (PathLenAt(d) + PathBytes(d))
      /\ \A i \in 1..(Len(d) - (PathLenAt(d) + PathBytes(d))) : got[i] = d[PathLenAt(d) + PathBytes(d) + i]
  BY <1>7, <1>8, DecodedFacts
<1> HIDE DEF got
<1> DEFINE k == at + Len(path)
<1>10. k \in Nat /\ Len(e) = k + Len(load) /\ PathLenAt(d) + PathBytes(d) = k
  BY <1>3, <1>5, <1>7
<1>11. /\ Len(got) = Len(load) - n /\ Len(d) - k = Len(load) - n
       /\ \A i \in 1..(Len(load) - n) : got[i] = d[k + i]
  <2>1. Len(d) - k = Len(load) - n
    BY <1>5, <1>7, <1>10
  <2>2. Len(got) = Len(d) - k /\ \A i \in 1..(Len(d) - k) : got[i] = d[k + i]
    BY <1>9, <1>10
  <2> QED
    BY <2>1, <2>2
<1>12. From(e, k + 1) = load
  BY <1>3
<1> HIDE DEF k
<1>13. ASSUME NEW i \in 1..Len(load) PROVE load[i] = e[k + i]
  <2> DEFINE a == k + 1
             l == Len(e)
  <2>1. a \in Nat \ {0} /\ l \in Nat /\ a <= l + 1 /\ l <= Len(e) /\ l + 1 - a = Len(load) /\ a - 1 = k
    BY <1>5, <1>10
  <2>2. load = SubSeq(e, a, l)
    BY <1>12 DEF From
  <2> HIDE DEF a, l
  <2>3. \A j \in 1..(l + 1 - a) : SubSeq(e, a, l)[j] = e[a - 1 + j]
    BY <1>2, <2>1, SubSeqFacts
  <2> QED
    BY <2>1, <2>2, <2>3
<1>14. ASSUME NEW i \in 1..Len(got) PROVE got[i] = load[i]
  <2>1. i \in 1..(Len(load) - n) /\ i \in 1..Len(load) /\ k + i \in 1..(Len(e) - n)
    BY <1>5, <1>10, <1>11
  <2>2. got[i] = d[k + i] /\ d[k + i] = e[k + i]
    BY <1>7, <1>11, <2>1
  <2> QED
    BY <1>13, <2>1, <2>2
<1>15. IsSeq(got)
  BY <1>9, SeqIsSeq
<1>16. Shortened(got, load, n)
  BY <1>11, <1>14, <1>15 DEF Shortened
<1> QED
  BY <1>7, <1>8, <1>16 DEF S, load, got

-----------------------------------------------------------------------------
(* Answers *)

\* encode_packet accepts the packet, and decode_packet reads it back.
Fits(a) == Encodable(a) /\ Decodable(EncodePacket(a)) /\ DecodePacket(EncodePacket(a)) = a

\* A path of whole hashes, not too many and not too long.
ValidPath(path, size) ==
    /\ IsSeq(path) /\ size \in 1..4
    /\ Len(path) % size = 0 /\ Len(path) \div size \in 0..63 /\ Len(path) <= 64

\* A packet without transport codes and with a valid path fits.
LEMMA BuiltFits ==
    ASSUME NEW type \in 0..15, NEW route \in {FLOOD, DIRECT}, NEW path, NEW size, ValidPath(path, size),
           NEW load, IsSeq(load)
    PROVE  Fits(BuildPacket(type, route, path, size, load))
<1> DEFINE S == Byte \cup Range(path) \cup Range(load)
           a == BuildPacket(type, route, path, size, load)
<1>1. Byte \subseteq S /\ Range(path) \subseteq S /\ Range(load) \subseteq S
  OBVIOUS
<1>2. path \in Seq(S) /\ load \in Seq(S)
  BY <1>1, SeqMonotonic DEF IsSeq, ValidPath
<1>3. <<>> \in TransportCodes
  BY DEF TransportCodes
<1>4. route \in 0..3 /\ route \notin TransportRoutes
  BY DEF FLOOD, DIRECT, TransportRoutes, TRANSPORT_FLOOD, TRANSPORT_DIRECT
<1> HIDE DEF S
<1>5. /\ a \in PacketOver(S) /\ a.route = route /\ a.codes = <<>> /\ a.size = size /\ a.path = path
  BY <1>2, <1>3, <1>4 DEF BuildPacket, PacketOver, ValidPath
<1>6. HashCount(a) \in 0..63 /\ Len(a.path) % a.size = 0 /\ Len(a.path) <= MAX_PATH_SIZE
  BY <1>5 DEF HashCount, ValidPath, MAX_PATH_SIZE
<1>7. Encodable(a)
  BY <1>4, <1>5, <1>6 DEF Encodable, PathLenEncodable, ValidPath
<1> HIDE DEF a
<1>8. Decodable(EncodePacket(a)) /\ DecodePacket(EncodePacket(a)) = a
  BY <1>1, <1>5, <1>6, <1>7, RoundTrip
<1> QED
  BY <1>7, <1>8 DEF Fits, a

\* No path at all is a valid one.
LEMMA EmptyPath == ValidPath(<<>>, 1)
<1>1. Len(<<>>) = 0 /\ 0 % 1 = 0 /\ 0 \div 1 = 0
  OBVIOUS
<1> QED
  BY <1>1, SmallSeqs DEF ValidPath

\* reverse_path keeps the length of a path, and with it the number of hashes.
LEMMA ReversedPath ==
    ASSUME NEW path, NEW size, ValidPath(path, size)
    PROVE  ValidPath(ReversePath(path, size), size)
<1> DEFINE n == Len(path)
           r == ReversePath(path, size)
<1>1. n \in Nat /\ DOMAIN path = 1..n
  BY LenProperties DEF ValidPath, IsSeq
<1>2. r = [i \in 1..n |-> r[i]]
  BY <1>1 DEF ReversePath
<1> HIDE DEF n, r
<1>3. IsSeq(r) /\ Len(r) = n
  BY <1>1, <1>2, FunIsSeq
<1> QED
  BY <1>3 DEF ValidPath, n, r

\* A PATH packet fits, whatever path it tells of.
LEMMA PathPacketFits ==
    ASSUME NEW dest, NEW src, NEW path, NEW size, IsSeq(path), NEW type, NEW extra, IsSeq(extra)
    PROVE  Fits(BuildPathPacket(dest, src, path, size, type, extra))
<1> DEFINE s1 == <<EncodePathLen(Len(path) \div size, size)>>
           s2 == s1 \o path
           s3 == <<type % 256>>
           s4 == s2 \o s3
           t  == PathPlaintext(path, size, type, extra)
           load == Datagram(dest, src, t)
<1>1. IsSeq(s1) /\ IsSeq(s3)
  BY SmallSeqs
<1>2. t = s4 \o extra
  BY DEF PathPlaintext
<1>3. BuildPathPacket(dest, src, path, size, type, extra) = BuildPacket(PATH, FLOOD, <<>>, 1, load)
  BY DEF BuildPathPacket
<1> HIDE DEF s1, s3, t
<1>4. IsSeq(s2)
  BY <1>1, Joined2
<1> HIDE DEF s2
<1>5. IsSeq(s4)
  BY <1>1, <1>4, Joined2
<1> HIDE DEF s4
<1>6. IsSeq(t)
  BY <1>2, <1>5, Joined2
<1>7. IsSeq(load)
  BY <1>6, SealedDatagram
<1> HIDE DEF load
<1>8. PATH \in 0..15
  BY DEF PATH
<1> QED
  BY <1>3, <1>7, <1>8, EmptyPath, BuiltFits

\* So does an ACK, in the open or in a PATH.
LEMMA AckFits ==
    ASSUME NEW p, IsSeq(p.path), NEW dest, NEW src, NEW hash, IsSeq(hash)
    PROVE  Fits(AckPacket(p, dest, src, hash))
<1>1. Fits(BuildPathPacket(dest, src, p.path, p.size, ACK, hash))
  BY PathPacketFits
<1>2. ACK \in 0..15
  BY DEF ACK
<1>3. Fits(BuildAckPacket(hash))
  BY <1>2, EmptyPath, BuiltFits DEF BuildAckPacket
<1> QED
  BY <1>1, <1>3 DEF AckPacket

\* The response to a login fits, on whatever path it goes back.
LEMMA ResponseFits ==
    ASSUME NEW p, ValidPath(p.path, p.size), NEW h
    PROVE  Fits(ResponsePacket(p, h))
<1> DEFINE r     == ReturnRoute(p)
           admin == Role(h.content.password) = "admin"
           perm  == IF admin THEN 3 ELSE 2
           blob  == <<1, 2, 3, 0>>
           t     == ToBytes(msg.ts, 4)
           s1    == <<0, 0, IF admin THEN 1 ELSE 0, perm % 256>>
           s2    == t \o s1
           s3    == s2 \o blob
           one   == <<1>>
           inner == LoginResponseInner(msg.ts, admin, perm, blob)
           load  == Datagram(h.from, Room, inner)
<1>1. IsSeq(t) /\ IsSeq(s1) /\ IsSeq(blob) /\ IsSeq(one)
  BY SmallSeqs
<1>2. inner = s3 \o one
  BY DEF LoginResponseInner
<1>3. ResponsePacket(p, h) = BuildPacket(RESPONSE, r.route, r.path, r.size, load)
  BY DEF ResponsePacket
<1> HIDE DEF t, s1, blob, one, inner
<1>4. IsSeq(s2)
  BY <1>1, Joined2
<1> HIDE DEF s2
<1>5. IsSeq(s3)
  BY <1>1, <1>4, Joined2
<1> HIDE DEF s3
<1>6. IsSeq(inner)
  BY <1>1, <1>2, <1>5, Joined2
<1>7. IsSeq(load)
  BY <1>6, SealedDatagram
<1> HIDE DEF load
<1>8. RESPONSE \in 0..15
  BY DEF RESPONSE
<1>9. r.route \in {FLOOD, DIRECT} /\ ValidPath(r.path, r.size)
  <2>1. CASE HashCount(p) = 0
    <3>1. r = [route |-> FLOOD, path |-> <<>>, size |-> 1]
      BY <2>1 DEF ReturnRoute
    <3> QED
      BY <3>1, EmptyPath
  <2>2. CASE HashCount(p) # 0
    <3>1. r = [route |-> DIRECT, path |-> ReversePath(p.path, p.size), size |-> p.size]
      BY <2>2 DEF ReturnRoute
    <3> QED
      BY <3>1, ReversedPath
  <2> QED
    BY <2>1, <2>2
<1> HIDE DEF r
<1> QED
  BY <1>3, <1>7, <1>8, <1>9, BuiltFits

\* Every answer fits.
LEMMA AnswersFit ==
    ASSUME Typed, NEW p, ValidPath(p.path, p.size), NEW h, Answers(p, h)
    PROVE  Fits(AnswerPacket(p, h))
<1>1. msg.kind \in {"txt", "echo", "push", "login", "req"}
  BY MessageAssumption DEF Typed, Answers, Acked
<1>2. ASSUME NEW x PROVE IsSeq(Hash(x))
  BY SmallSeqs DEF Hash, Unrelated, Typed
<1>3. IsSeq(p.path)
  BY DEF ValidPath
<1>4. CASE msg.kind = "txt"
  <2> DEFINE c == h.content
             x == AckHashFor(c.ts, c.attempt, c.text, h.from, c.type)
  <2>1. AnswerPacket(p, h) = AckPacket(p, h.from, Room, Hash(x))
    BY <1>4 DEF AnswerPacket
  <2> HIDE DEF x
  <2> QED
    BY <1>2, <1>3, <2>1, AckFits
<1>5. CASE msg.kind = "echo"
  <2> DEFINE c == h.content
             x == AckHashFor(c.ts, c.attempt, c.text, Room, c.type)
  <2>1. AnswerPacket(p, h) = AckPacket(p, Room, Client, Hash(x))
    BY <1>5 DEF AnswerPacket
  <2> HIDE DEF x
  <2> QED
    BY <1>2, <1>3, <2>1, AckFits
<1>6. CASE msg.kind = "push"
  <2> DEFINE c == h.content
             x == RoomPushAckHash(c.ts, c.attempt, Author, c.text, Client)
  <2>1. AnswerPacket(p, h) = AckPacket(p, Room, Client, Hash(x))
    BY <1>6 DEF AnswerPacket
  <2> HIDE DEF x
  <2> QED
    BY <1>2, <1>3, <2>1, AckFits
<1>7. CASE msg.kind = "login"
  <2>1. AnswerPacket(p, h) = ResponsePacket(p, h)
    BY <1>7 DEF AnswerPacket
  <2> QED
    BY <2>1, ResponseFits
<1>8. CASE msg.kind = "req"
  <2> DEFINE x == ToBytes(h.content.ts, 4) \o <<0>>
  <2>1. AnswerPacket(p, h) = BuildPathPacket(h.from, Room, p.path, p.size, RESPONSE, x)
    BY <1>8 DEF AnswerPacket
  <2>2. IsSeq(x)
    BY SmallSeqs, Joined2
  <2> HIDE DEF x
  <2> QED
    BY <1>3, <2>1, <2>2, PathPacketFits
<1> QED
  BY <1>1, <1>4, <1>5, <1>6, <1>7, <1>8

-----------------------------------------------------------------------------
(* The inductive invariant *)

\* An exchange begins with a message that may be sent.
LEMMA InitInv == Init => IInv
<1> SUFFICES ASSUME Init PROVE IInv
  OBVIOUS
<1>1. msg \in Messages /\ stage = "new" /\ cut = 0 /\ heard = {}
  BY DEF Init
<1>2. IsSeq(digest)
  <2>1. CASE msg.kind \in Acked
    <3>1. digest \in Digests
      BY <2>1 DEF Init
    <3>2. digest \in Seq(0..255)
      BY <3>1, AirAssumption
    <3> QED
      BY <3>2, SeqIsSeq
  <2>2. CASE msg.kind \notin Acked
    <3>1. digest = Unrelated
      BY <2>2 DEF Init
    <3> QED
      BY <3>1, SmallSeqs DEF Unrelated
  <2> QED
    BY <2>1, <2>2
<1> QED
  BY <1>1, <1>2 DEF IInv, Typed, WireSound, InboundSound

\* What is sent carries the message.
LEMMA SendInv == ASSUME IInv, NEW size \in Sizes, Send(size) PROVE IInv'
<1>1. stage' = "air" /\ msg' = msg /\ digest' = digest /\ cut' = cut /\ heard' = heard
  BY DEF Send
<1>2. msg \in Messages /\ size \in 1..4
  BY AirAssumption DEF IInv, Typed
<1>3. Typed'
  BY <1>1 DEF IInv, Typed
<1>4. InboundSound'
  BY <1>1 DEF IInv, InboundSound
<1> DEFINE p == Outbound(msg, size)
<1>5. wire' = EncodePacket(p)
  BY DEF Send
<1>6. Carries(p, msg)
  BY <1>2, OutboundCarries
<1> HIDE DEF p
<1>7. WireSound'
  BY <1>1, <1>5, <1>6 DEF WireSound
<1> QED
  BY <1>3, <1>4, <1>7 DEF IInv

\* Repeaters change the path and nothing else.
LEMMA RelayInv == ASSUME IInv, NEW n \in Hops, Relay(n) PROVE IInv'
<1>1. stage = "air" /\ stage' = "line" /\ msg' = msg /\ digest' = digest /\ cut' = cut /\ heard' = heard
  BY DEF Relay
<1>2. msg \in Messages
  BY DEF IInv, Typed
<1>3. Typed'
  BY <1>1 DEF IInv, Typed
<1>4. InboundSound'
  BY <1>1 DEF IInv, InboundSound
<1>5. PICK p : Carries(p, msg) /\ wire = EncodePacket(p)
  BY <1>1 DEF IInv, WireSound
<1> DEFINE S == Alphabet(msg)
           q == [p EXCEPT !.path = [i \in 1..(n * p.size) |-> i]]
<1>6. Byte \subseteq S /\ p \in PacketOver(S) /\ Encodable(p) /\ Len(p.path) <= MAX_PATH_SIZE /\ p.payload = Payload(msg)
  BY <1>2, <1>5, AlphabetFacts DEF Carries
<1>7. DecodePacket(wire) = p
  BY <1>5, <1>6, RoundTrip
<1>8. n <= 63 /\ n * p.size <= MAX_PATH_SIZE /\ wire' = EncodePacket(q)
  BY <1>7 DEF Relay
<1>9. n \in 0..63
  <2>1. n \in Nat
    BY AirAssumption
  <2>2. n <= 63
    BY <1>8
  <2> QED
    BY <2>1, <2>2
<1>10. q \in PacketOver(S) /\ Encodable(q) /\ Len(q.path) <= MAX_PATH_SIZE /\ q.payload = p.payload
  BY <1>6, <1>8, <1>9, PathFits
<1> HIDE DEF q, S
<1>11. Carries(q, msg)
  BY <1>6, <1>10 DEF Carries, S
<1>12. WireSound'
  BY <1>1, <1>8, <1>11 DEF WireSound
<1> QED
  BY <1>3, <1>4, <1>12 DEF IInv

\* What lacks its end is not acted on.
LEMMA ReceiveInv == ASSUME IInv, NEW n \in Cuts, Receive(n) PROVE IInv'
<1> DEFINE data == SubSeq(wire, 1, Len(wire) - n)
           in   == DecodePacket(data)
<1>1. /\ stage = "line" /\ msg' = msg /\ digest' = digest /\ wire' = wire /\ cut' = n
      /\ stage' = IF heard' = {} THEN "ignored" ELSE "heard"
      /\ inbound' = IF Decodable(data) THEN {in} ELSE {}
      /\ heard' = IF Decodable(data) THEN Content(msg, in) ELSE {}
  BY DEF Receive
<1>2. msg \in Messages /\ n \in Nat
  BY AirAssumption DEF IInv, Typed
<1>3. Typed'
  BY <1>1 DEF IInv, Typed
<1>4. WireSound'
  BY <1>1 DEF IInv, WireSound
<1>5. PICK p : Carries(p, msg) /\ wire = EncodePacket(p)
  BY <1>1 DEF IInv, WireSound
<1>6. data = SubSeq(EncodePacket(p), 1, Len(EncodePacket(p)) - n)
  BY <1>5
<1> HIDE DEF data
<1>7. ASSUME ~Decodable(data) PROVE InboundSound'
  BY <1>1, <1>7 DEF InboundSound
<1>8. ASSUME Decodable(data) PROVE InboundSound'
  <2>1. /\ data \in Seq(Alphabet(msg)) /\ data[PathLenAt(data)] \in Byte
        /\ Shortened(in.payload, Payload(msg), n)
    BY <1>2, <1>5, <1>6, <1>8, CutCarried
  <2>2. n > 0 => heard' = {}
    <3> SUFFICES ASSUME n > 0 PROVE Content(msg, in) = {}
      BY <1>1, <1>8
    <3>1. n \in Nat \ {0}
      BY <1>2
    <3> HIDE DEF in
    <3> QED
      BY <1>2, <2>1, <3>1, ShortenedContent
  <2>3. inbound' = {DecodePacket(data)}
    BY <1>1, <1>8
  <2>4. \E S, d : /\ d \in Seq(S) /\ Decodable(d) /\ d[PathLenAt(d)] \in Byte
                  /\ inbound' = {DecodePacket(d)}
    BY <1>8, <2>1, <2>3
  <2> QED
    BY <1>1, <2>2, <2>4 DEF InboundSound
<1> QED
  BY <1>3, <1>4, <1>7, <1>8 DEF IInv

\* The invariant is inductive.
LEMMA NextInv == IInv /\ [Next]_vars => IInv'
<1> SUFFICES ASSUME IInv, [Next]_vars PROVE IInv'
  OBVIOUS
<1>1. CASE \E size \in Sizes : Send(size)
  BY <1>1, SendInv
<1>2. CASE \E n \in Hops : Relay(n)
  BY <1>2, RelayInv
<1>3. CASE \E n \in Cuts : Receive(n)
  BY <1>3, ReceiveInv
<1>4. CASE Answer
  BY <1>4 DEF Answer, IInv, Typed, WireSound, InboundSound
<1>5. CASE Return
  BY <1>5 DEF Return, IInv, Typed, WireSound, InboundSound
<1>6. CASE UNCHANGED vars
  BY <1>6 DEF vars, IInv, Typed, WireSound, InboundSound
<1> QED
  BY <1>1, <1>2, <1>3, <1>4, <1>5, <1>6 DEF Next

-----------------------------------------------------------------------------
(* What travels, what is shortened and what can be answered *)

\* Every exchange is at one of its stages, and what travels can be decoded and
\* encoded again, whatever the message and however many repeaters it passed.
THEOREM TypeCorrect == Spec => []TypeOK
<1>1. IInv => TypeOK
  <2> SUFFICES ASSUME IInv PROVE TypeOK
    OBVIOUS
  <2>1. ASSUME stage # "new" PROVE Decodable(wire) /\ Encodable(DecodePacket(wire))
    <3>1. PICK p : Carries(p, msg) /\ wire = EncodePacket(p)
      BY <2>1 DEF IInv, WireSound
    <3> DEFINE S == Alphabet(msg)
    <3>2. Byte \subseteq S /\ p \in PacketOver(S) /\ Encodable(p) /\ Len(p.path) <= MAX_PATH_SIZE
      BY <3>1, AlphabetFacts DEF IInv, Typed, Carries
    <3> HIDE DEF S
    <3>3. Decodable(wire) /\ DecodePacket(wire) = p
      BY <3>1, <3>2, RoundTrip
    <3> QED
      BY <3>2, <3>3
  <2> QED
    BY <2>1 DEF TypeOK, IInv, Typed
<1> QED
  BY <1>1, InitInv, NextInv, PTL DEF Spec

\* What the serial line has shortened is never acted on, wherever it was cut:
\* a MAC and a signature name everything that was sealed or signed, and the
\* decoders look at all that is left (mac_then_decrypt, decode_advert).
THEOREM ShortenedIsIgnored == Spec => []ShortenedIgnored
<1>1. IInv => ShortenedIgnored
  BY DEF IInv, InboundSound, ShortenedIgnored
<1> QED
  BY <1>1, InitInv, NextInv, PTL DEF Spec

\* Whatever can be decoded can be answered: the answers to a text, a push, a
\* login and a request all pass encode_packet and are decoded as they were
\* built, for every path, hash size and hash.
THEOREM AnswersAlwaysFit == Spec => []AnswerFits
<1>1. IInv => AnswerFits
  <2> SUFFICES ASSUME IInv, stage = "heard", Answers(The(inbound), The(heard))
               PROVE  Fits(AnswerPacket(The(inbound), The(heard)))
    BY DEF AnswerFits, Fits
  <2>1. PICK S, d : /\ d \in Seq(S) /\ Decodable(d) /\ d[PathLenAt(d)] \in Byte
                    /\ inbound = {DecodePacket(d)}
    BY DEF IInv, InboundSound
  <2> DEFINE p    == DecodePacket(d)
             path == p.path
             size == p.size
  <2>2. The(inbound) = p
    BY <2>1 DEF The
  <2>3. /\ p.path \in Seq(S) /\ p.size \in 1..4
        /\ HashCount(p) \in 0..63 /\ Len(p.path) % p.size = 0 /\ Len(p.path) <= MAX_PATH_SIZE
    BY <2>1, DecodedFacts
  <2>4. HashCount(p) = Len(p.path) \div p.size
    BY DEF HashCount
  <2> HIDE DEF p
  <2>5. IsSeq(p.path)
    BY <2>3, SeqIsSeq
  <2>6. ValidPath(p.path, p.size)
    BY <2>3, <2>4, <2>5 DEF ValidPath, MAX_PATH_SIZE
  <2> QED
    BY <2>2, <2>6, AnswersFit DEF IInv
<1> QED
  BY <1>1, InitInv, NextInv, PTL DEF Spec

-----------------------------------------------------------------------------
(* Parts of sequences *)

\* Sequences with the same entries are the same.
LEMMA SameEntries ==
    ASSUME NEW s, NEW t, IsSeq(s), IsSeq(t), Len(s) = Len(t), \A i \in 1..Len(s) : s[i] = t[i]
    PROVE  s = t
<1> DEFINE S == Range(s) \cup Range(t)
<1>1. s \in Seq(S) /\ t \in Seq(S)
  <2>1. Range(s) \subseteq S /\ Range(t) \subseteq S
    OBVIOUS
  <2> QED
    BY <2>1, SeqMonotonic DEF IsSeq
<1> HIDE DEF S
<1> QED
  BY <1>1, SeqEqual

\* A part of a sequence.
LEMMA PartFacts ==
    ASSUME NEW s, IsSeq(s), NEW m \in Nat \ {0}, NEW n \in Nat, m <= n + 1, n <= Len(s)
    PROVE  /\ IsSeq(SubSeq(s, m, n)) /\ Len(SubSeq(s, m, n)) = n + 1 - m
           /\ \A i \in 1..(n + 1 - m) : SubSeq(s, m, n)[i] = s[m - 1 + i]
<1>1. s \in Seq(Range(s))
  BY DEF IsSeq
<1>2. /\ SubSeq(s, m, n) \in Seq(Range(s)) /\ Len(SubSeq(s, m, n)) = n + 1 - m
      /\ \A i \in 1..(n + 1 - m) : SubSeq(s, m, n)[i] = s[m - 1 + i]
  BY <1>1, SubSeqFacts
<1> QED
  BY <1>2, SeqIsSeq

\* The length of a sequence.
LEMMA LengthOf == ASSUME NEW s, IsSeq(s) PROVE Len(s) \in Nat /\ DOMAIN s = 1..Len(s) /\ (s = <<>> <=> Len(s) = 0)
BY LenProperties, EmptySeq DEF IsSeq

\* The end of a sequence.
LEMMA FromFacts ==
    ASSUME NEW s, IsSeq(s), NEW m \in Nat \ {0}, m <= Len(s) + 1
    PROVE  /\ IsSeq(From(s, m)) /\ Len(From(s, m)) = Len(s) + 1 - m
           /\ \A i \in 1..(Len(s) + 1 - m) : From(s, m)[i] = s[m - 1 + i]
<1>1. PICK n \in Nat : n = Len(s)
  BY LengthOf
<1>2. n <= Len(s) /\ m <= n + 1
  BY <1>1
<1>3. From(s, m) = SubSeq(s, m, n)
  BY <1>1 DEF From
<1> QED
  BY <1>1, <1>2, <1>3, PartFacts

\* What was joined can be taken apart.
LEMMA TakenApart ==
    ASSUME NEW a, NEW b, IsSeq(a), IsSeq(b)
    PROVE  From(a \o b, Len(a) + 1) = b /\ SubSeq(a \o b, 1, Len(a)) = a
<1>1. PICK m \in Nat, n \in Nat : m = Len(a) /\ n = Len(b)
  BY LengthOf
<1>2. PICK u : u = a \o b
  OBVIOUS
<1>3. IsSeq(u) /\ Len(u) = m + n /\ (\A i \in 1..m : u[i] = a[i]) /\ (\A i \in 1..n : u[m + i] = b[i])
  BY <1>1, <1>2, JoinIsSeq DEF Joins
<1>4. From(u, m + 1) = b
  <2>1. PICK f : f = From(u, m + 1)
    OBVIOUS
  <2>2. m + 1 \in Nat \ {0} /\ m + 1 <= Len(u) + 1 /\ Len(u) + 1 - (m + 1) = n
    BY <1>3
  <2>3. IsSeq(f) /\ Len(f) = n /\ \A i \in 1..n : f[i] = u[(m + 1) - 1 + i]
    BY <1>3, <2>1, <2>2, FromFacts
  <2>4. \A i \in 1..n : f[i] = b[i]
    <3>1. (m + 1) - 1 = m
      OBVIOUS
    <3> QED
      BY <1>3, <2>3, <3>1
  <2>5. f = b
    BY <1>1, <2>3, <2>4, SameEntries
  <2> QED
    BY <2>1, <2>5
<1>5. SubSeq(u, 1, m) = a
  <2>1. PICK f : f = SubSeq(u, 1, m)
    OBVIOUS
  <2>2. 1 \in Nat \ {0} /\ 1 <= m + 1 /\ m <= Len(u) /\ m + 1 - 1 = m /\ \A i \in 1..m : 1 - 1 + i = i
    BY <1>3
  <2>3. IsSeq(f) /\ Len(f) = m /\ \A i \in 1..m : f[i] = u[1 - 1 + i]
    BY <1>3, <2>1, <2>2, PartFacts
  <2>4. \A i \in 1..m : f[i] = a[i]
    BY <1>3, <2>2, <2>3
  <2>5. f = a
    BY <1>1, <2>3, <2>4, SameEntries
  <2> QED
    BY <2>1, <2>5
<1> QED
  BY <1>1, <1>2, <1>4, <1>5

\* Joining sequences is associative.
LEMMA JoinParts ==
    ASSUME NEW a, NEW b, NEW c, IsSeq(a), IsSeq(b), IsSeq(c)
    PROVE  (a \o b) \o c = a \o (b \o c)
<1> DEFINE S == Range(a) \cup Range(b) \cup Range(c)
<1>1. a \in Seq(S) /\ b \in Seq(S) /\ c \in Seq(S)
  <2>1. Range(a) \subseteq S /\ Range(b) \subseteq S /\ Range(c) \subseteq S
    OBVIOUS
  <2> QED
    BY <2>1, SeqMonotonic DEF IsSeq
<1> HIDE DEF S
<1> QED
  BY <1>1, ConcatAssociative

-----------------------------------------------------------------------------
(* What is sealed is opened with the same key, and with no other *)

\* A text that is followed by zeros.
Ends(u, text) ==
    /\ IsSeq(u) /\ Len(u) >= Len(text)
    /\ \A i \in 1..Len(text) : u[i] = text[i]
    /\ \A i \in 1..Len(u) : i > Len(text) => u[i] = 0

\* Padding fills the last block with zeros.
LEMMA PaddedFacts ==
    ASSUME NEW text, IsSeq(text)
    PROVE  Ends(Padded(text), text) /\ Len(Padded(text)) % 16 = 0 /\ (text # <<>> => Len(Padded(text)) >= 16)
<1>1. PICK n \in Nat : n = Len(text)
  BY LengthOf
<1>2. PICK pad \in Nat : pad = (-n) % 16
  OBVIOUS
<1>3. (n + pad) % 16 = 0 /\ (n # 0 => n + pad >= 16)
  BY <1>2
<1>4. PICK z : z = Zeros(pad) /\ IsSeq(z) /\ Len(z) = pad /\ \A i \in 1..pad : z[i] = 0
  <2>1. \A i \in 1..pad : Zeros(pad)[i] = 0
    BY DEF Zeros
  <2> QED
    BY <2>1, SmallSeqs
<1>5. PICK u : u = text \o z
  OBVIOUS
<1>6. Padded(text) = u
  BY <1>1, <1>2, <1>4, <1>5 DEF Padded, CIPHER_BLOCK_SIZE
<1>7. IsSeq(u) /\ Len(u) = n + pad /\ (\A i \in 1..n : u[i] = text[i]) /\ (\A i \in 1..pad : u[n + i] = z[i])
  BY <1>1, <1>4, <1>5, JoinIsSeq DEF Joins
<1>8. ASSUME NEW i \in 1..(n + pad), i > n PROVE u[i] = 0
  <2>1. i - n \in 1..pad /\ n + (i - n) = i
    BY <1>8
  <2> QED
    BY <1>4, <1>7, <2>1
<1>9. n + pad >= n
  OBVIOUS
<1>10. Ends(u, text)
  BY <1>1, <1>7, <1>8, <1>9 DEF Ends
<1>11. text # <<>> => n # 0
  BY <1>1, LengthOf
<1> QED
  BY <1>3, <1>6, <1>7, <1>10, <1>11

\* What a key seals, it opens again, and no other key does.
LEMMA SealOpens ==
    ASSUME NEW key, NEW text, IsSeq(text), text # <<>>, NEW s, s = EncryptThenMac(key, text)
    PROVE  /\ IsSeq(s) /\ Len(s) = 2 + Len(Padded(text))
           /\ \A k : Opens(k, s) <=> k = key
           /\ Plaintext(s) = Padded(text)
<1>1. PICK t : t = Padded(text) /\ IsSeq(t) /\ Len(t) % 16 = 0 /\ Len(t) >= 16
  BY PaddedFacts DEF Ends
<1>2. PICK n \in Nat : n = Len(t) /\ DOMAIN t = 1..n
  BY <1>1, LengthOf
<1>3. PICK body : body = [i \in 1..n |-> <<key, t[i]>>]
  OBVIOUS
<1>4. IsSeq(body) /\ Len(body) = n
  <2>1. body = [i \in 1..n |-> body[i]]
    BY <1>3
  <2> QED
    BY <2>1, FunIsSeq
<1>5. PICK mac : mac = Mac(key, body)
  OBVIOUS
<1>6. IsSeq(mac) /\ Len(mac) = 2 /\ mac[1] = <<key, body>>
  <2>1. mac = [i \in 1..2 |-> mac[i]] /\ mac[1] = <<key, body>> /\ 2 \in Nat
    BY <1>5 DEF Mac, CIPHER_MAC_SIZE
  <2> QED
    BY <2>1, FunIsSeq
<1>7. s = mac \o body
  BY <1>1, <1>2, <1>3, <1>5 DEF EncryptThenMac
<1>8. IsSeq(s) /\ Len(s) = 2 + n
  <2>1. Joins(mac, body, s)
    BY <1>4, <1>6, <1>7, JoinIsSeq
  <2>2. IsSeq(s) /\ Len(s) = Len(mac) + Len(body)
    BY <2>1 DEF Joins
  <2> QED
    BY <1>4, <1>6, <2>2
<1>9. From(s, 3) = body /\ SubSeq(s, 1, 2) = mac
  <2>1. 2 + 1 = 3
    OBVIOUS
  <2> QED
    BY <1>4, <1>6, <1>7, <2>1, TakenApart
<1>10. Body(s) = body
  BY <1>9 DEF Body, CIPHER_MAC_SIZE
<1>11. ASSUME NEW k PROVE Opens(k, s) <=> k = key
  <2>1. Len(s) > 2 /\ Len(body) % 16 = 0
    BY <1>1, <1>2, <1>4, <1>8
  <2>2. Opens(k, s) <=> mac = Mac(k, body)
    BY <1>9, <1>10, <2>1 DEF Opens, CIPHER_MAC_SIZE, CIPHER_BLOCK_SIZE
  <2>3. ASSUME mac = Mac(k, body) PROVE k = key
    <3>1. Mac(k, body)[1] = <<k, body>>
      BY DEF Mac, CIPHER_MAC_SIZE
    <3>2. <<k, body>> = <<key, body>>
      BY <1>6, <2>3, <3>1, Zenon
    <3> QED
      BY <3>2
  <2> QED
    BY <1>5, <2>2, <2>3, Zenon
<1>12. Plaintext(s) = t
  <2>1. DOMAIN body = 1..n /\ \A i \in 1..n : body[i][2] = t[i]
    BY <1>3
  <2>2. Plaintext(s) = [i \in 1..n |-> t[i]]
    BY <1>10, <2>1 DEF Plaintext
  <2>3. IsSeq(Plaintext(s)) /\ Len(Plaintext(s)) = n /\ \A i \in 1..n : Plaintext(s)[i] = t[i]
    <3>1. PICK f : f = Plaintext(s)
      OBVIOUS
    <3>2. f = [i \in 1..n |-> f[i]] /\ \A i \in 1..n : f[i] = t[i]
      BY <2>2, <3>1
    <3> QED
      BY <3>1, <3>2, FunIsSeq
  <2> QED
    BY <1>1, <1>2, <2>3, SameEntries
<1> QED
  BY <1>1, <1>2, <1>8, <1>11, <1>12

\* What a key opens behind a header of h bytes, and no other key does.
OpensAs(payload, h, key, text, least) ==
    /\ Inner(payload, h) = Padded(text)
    /\ \A k : Readable(payload, h, k, least) <=> k = key

\* The same behind a header.
LEMMA SealedReadable ==
    ASSUME NEW head, IsSeq(head), NEW key, NEW text, IsSeq(text), text # <<>>,
           NEW payload, payload = head \o EncryptThenMac(key, text), NEW h, h = Len(head), NEW least \in 0..16
    PROVE  OpensAs(payload, h, key, text, least) /\ IsSeq(payload) /\ \A i \in 1..h : payload[i] = head[i]
<1>1. PICK s : s = EncryptThenMac(key, text)
  OBVIOUS
<1>2. IsSeq(s) /\ Len(s) = 2 + Len(Padded(text)) /\ (\A k : Opens(k, s) <=> k = key) /\ Plaintext(s) = Padded(text)
  BY <1>1, SealOpens
<1>3. PICK n \in Nat : n = Len(Padded(text)) /\ n >= 16
  BY PaddedFacts, LengthOf DEF Ends
<1>4. From(payload, h + 1) = s
  BY <1>1, <1>2, TakenApart
<1>5. IsSeq(payload) /\ Len(payload) = h + Len(s) /\ \A i \in 1..h : payload[i] = head[i]
  BY <1>1, <1>2, JoinIsSeq DEF Joins
<1>6. h \in Nat
  BY LengthOf
<1>7. Len(payload) >= h + 2 + 16 /\ n >= least
  BY <1>2, <1>3, <1>5, <1>6
<1>8. \A k : Readable(payload, h, k, least) <=> k = key
  BY <1>2, <1>3, <1>4, <1>7 DEF Readable, CIPHER_MAC_SIZE, CIPHER_BLOCK_SIZE
<1>9. Inner(payload, h) = Padded(text)
  BY <1>2, <1>4 DEF Inner
<1> QED
  BY <1>5, <1>8, <1>9 DEF OpensAs

\* ... and nothing else is needed to open it.
LEMMA SealedOpens ==
    ASSUME NEW head, NEW key, NEW text, NEW least, NEW payload, NEW h,
           least \in 0..16 /\ IsSeq(text) /\ text # <<>> /\ IsSeq(head) /\ h = Len(head)
             /\ payload = head \o EncryptThenMac(key, text)
    PROVE  OpensAs(payload, h, key, text, least)
BY SealedReadable, Zenon

-----------------------------------------------------------------------------
(* Numbers in bytes *)

\* Powers of 256.
LEMMA Powers == 256^0 = 1 /\ 256^1 = 256 /\ 256^2 = 65536 /\ 256^3 = 16777216
BY SMT

\* The four bytes of a number, the upper ones of which are what is left of it
\* after three.
LEMMA FourBytes ==
    ASSUME NEW x \in Int, NEW b, b = ToBytes(x, 4)
    PROVE  /\ IsSeq(b) /\ Len(b) = 4 /\ \A i \in 1..4 : b[i] \in 0..255
           /\ b[4] = (x \div 256^3) % 256
           /\ x = b[1] + 256 * b[2] + 256^2 * b[3] + 256^3 * (x \div 256^3)
<1>1. b = [k \in 1..4 |-> (x \div 256^(k - 1)) % 256]
  BY SMT DEF ToBytes
<1>2. IsSeq(b) /\ Len(b) = 4
  <2>1. b = [i \in 1..4 |-> b[i]] /\ 4 \in Nat
    BY <1>1, SMT
  <2> QED
    BY <2>1, FunIsSeq
<1>3. /\ b[1] = (x \div 256^(1 - 1)) % 256 /\ b[2] = (x \div 256^(2 - 1)) % 256
      /\ b[3] = (x \div 256^(3 - 1)) % 256 /\ b[4] = (x \div 256^(4 - 1)) % 256
  BY <1>1, SMT
<1>4. 1 - 1 = 0 /\ 2 - 1 = 1 /\ 3 - 1 = 2 /\ 4 - 1 = 3 /\ x \div 1 = x
  BY SMT
<1>5. /\ b[1] = x % 256 /\ b[2] = (x \div 256) % 256
      /\ b[3] = (x \div 65536) % 256 /\ b[4] = (x \div 16777216) % 256
  BY <1>3, <1>4, Powers, SMT
<1>6. \A y \in Int : y % 256 \in 0..255
  BY SMT
<1>7. b[1] \in 0..255 /\ b[2] \in 0..255 /\ b[3] \in 0..255 /\ b[4] \in 0..255
  <2>1. x \in Int /\ x \div 256 \in Int /\ x \div 65536 \in Int /\ x \div 16777216 \in Int
    BY SMT
  <2> QED
    BY <1>5, <1>6, <2>1, SMT
<1>8. \A i \in 1..4 : i = 1 \/ i = 2 \/ i = 3 \/ i = 4
  BY SMT
<1>9. x = (x % 256) + 256 * ((x \div 256) % 256) + 65536 * ((x \div 65536) % 256) + 16777216 * (x \div 16777216)
  BY SMT
<1> QED
  BY <1>2, <1>5, <1>7, <1>8, <1>9, Powers, SMT

\* A time travels in four bytes.
LEMMA TimeRoundTrip ==
    ASSUME NEW x \in Int, x \div 256^3 \in 0..255, NEW b, \A i \in 1..4 : b[i] = ToBytes(x, 4)[i]
    PROVE  FromBytes4(b) = x
<1>1. PICK c : c = ToBytes(x, 4)
  BY SMT
<1>2. /\ \A i \in 1..4 : c[i] \in 0..255
      /\ c[4] = (x \div 256^3) % 256
      /\ x = c[1] + 256 * c[2] + 256^2 * c[3] + 256^3 * (x \div 256^3)
  BY <1>1, FourBytes
<1>3. PICK q \in 0..255 : q = x \div 256^3
  OBVIOUS
<1>4. c[4] = q
  <2>1. \A y \in 0..255 : y % 256 = y
    BY SMT
  <2> QED
    BY <1>2, <1>3, <2>1
<1>5. b[1] = c[1] /\ b[2] = c[2] /\ b[3] = c[3] /\ b[4] = c[4]
  BY <1>1, SMT
<1>6. x = c[1] + 256 * c[2] + 256^2 * c[3] + 256^3 * q
  BY <1>2, <1>3
<1> QED
  BY <1>4, <1>5, <1>6 DEF FromBytes4

\* A coordinate does, with its sign.
LEMMA SignedRoundTrip ==
    ASSUME NEW x \in Int, x \div 256^3 \in (-128)..127
    PROVE  Signed(ToBytes(x, 4)) = x
<1>1. PICK c : c = ToBytes(x, 4)
  BY SMT
<1>2. /\ \A i \in 1..4 : c[i] \in 0..255
      /\ c[4] = (x \div 256^3) % 256
      /\ x = c[1] + 256 * c[2] + 256^2 * c[3] + 256^3 * (x \div 256^3)
  BY <1>1, FourBytes
<1>3. PICK q \in (-128)..127 : q = x \div 256^3
  OBVIOUS
<1>4. DOMAIN c = 1..4 /\ c = [i \in 1..4 |-> c[i]]
  BY <1>1, SMT DEF ToBytes
<1>5. c[1] \in 0..255 /\ c[2] \in 0..255 /\ c[3] \in 0..255 /\ c[4] \in 0..255
  BY <1>2, SMT
<1>6. x = c[1] + 256 * c[2] + 256^2 * c[3] + 256^3 * q
  BY <1>2, <1>3
<1>7. CASE q >= 0
  <2>1. \A y \in (-128)..127 : y >= 0 => y % 256 = y /\ y < 128
    BY SMT
  <2>3. c[4] = q % 256
    BY <1>2, <1>3, Zenon
  <2>2. c[4] = q /\ c[4] < 128
    BY <1>7, <2>1, <2>3
  <2> QED
    BY <1>1, <1>6, <2>2 DEF Signed, FromBytes4
<1>8. CASE q < 0
  <2>5. \A y \in (-128)..127 : y < 0 => (y % 256) - 256 = y /\ ~(y % 256 < 128)
    BY SMT
  <2>1. c[4] - 256 = q /\ ~(c[4] < 128)
    BY <1>2, <1>3, <1>8, <2>5
  <2>2. PICK d : d = [c EXCEPT ![4] = @ - 256]
    OBVIOUS
  <2>3. d[1] = c[1] /\ d[2] = c[2] /\ d[3] = c[3] /\ d[4] = c[4] - 256
    BY <1>4, <2>2, SMT
  <2>4. Signed(c) = FromBytes4(d)
    BY <2>1, <2>2, SMT DEF Signed
  <2> QED
    BY <1>1, <1>6, <2>1, <2>3, <2>4 DEF FromBytes4
<1> QED
  BY <1>7, <1>8, SMT

\* The flags of a text message are attempt and type.
LEMMA FlagsRoundTrip ==
    ASSUME NEW attempt \in Nat, NEW type \in 0..63
    PROVE  FlagsByte(attempt, type) % 4 = attempt % 4 /\ FlagsByte(attempt, type) \div 4 = type
BY DEF FlagsByte

-----------------------------------------------------------------------------
(* Strings *)

\* The bytes of u before the first NUL.
LEMMA BeforeNul ==
    ASSUME NEW u, IsSeq(u)
    PROVE  \E k \in 0..Len(u) :
              /\ UpToNul(u) = SubSeq(u, 1, k) /\ IsSeq(UpToNul(u)) /\ Len(UpToNul(u)) = k
              /\ \A i \in 1..k : UpToNul(u)[i] = u[i] /\ u[i] # 0
              /\ k < Len(u) => u[k + 1] = 0
<1>1. PICK n \in Nat : n = Len(u)
  BY LengthOf
<1> DEFINE I == {i \in 1..n : u[i] = 0}
<1>2. SelectInSeq(u, LAMBDA b : b = 0) = IF I # {} THEN Min(I) ELSE 0
  BY <1>1 DEF SelectInSeq
<1>3. ASSUME NEW k \in 0..n
      PROVE  /\ IsSeq(SubSeq(u, 1, k)) /\ Len(SubSeq(u, 1, k)) = k
             /\ \A i \in 1..k : SubSeq(u, 1, k)[i] = u[i]
  <2>1. 1 \in Nat \ {0} /\ k \in Nat /\ 1 <= k + 1 /\ k <= Len(u) /\ k + 1 - 1 = k /\ \A i \in 1..k : 1 - 1 + i = i
    BY <1>1
  <2>2. /\ IsSeq(SubSeq(u, 1, k)) /\ Len(SubSeq(u, 1, k)) = k + 1 - 1
        /\ \A i \in 1..(k + 1 - 1) : SubSeq(u, 1, k)[i] = u[1 - 1 + i]
    BY <2>1, PartFacts
  <2> QED
    BY <2>1, <2>2
<1>4. CASE I = {}
  <2>1. UpToNul(u) = u
    BY <1>2, <1>4 DEF UpToNul
  <2>2. SubSeq(u, 1, n) = u
    <3>1. n \in 0..n
      OBVIOUS
    <3> QED
      BY <1>1, <1>3, <3>1, SameEntries
  <2>3. \A i \in 1..n : u[i] # 0
    BY <1>4
  <2>4. n \in 0..Len(u) /\ ~(n < Len(u))
    BY <1>1
  <2> QED
    BY <1>1, <2>1, <2>2, <2>3, <2>4
<1>5. CASE I # {}
  <2>1. PICK j \in I : \A i \in I : j <= i
    <3>1. I \subseteq Nat
      OBVIOUS
    <3> QED
      BY <1>5, <3>1, Least
  <2>2. Min(I) \in I /\ \A i \in I : Min(I) <= i
    <3> HIDE DEF I
    <3> QED
      BY <2>1 DEF Min
  <2>3. PICK m \in 1..n : m = Min(I) /\ u[m] = 0 /\ \A i \in I : m <= i
    BY <2>2
  <2>4. \A i \in 1..(m - 1) : u[i] # 0
    <3> SUFFICES ASSUME NEW i \in 1..(m - 1), u[i] = 0 PROVE FALSE
      OBVIOUS
    <3>1. i \in I /\ ~(m <= i)
      OBVIOUS
    <3> QED
      BY <2>3, <3>1
  <2>5. PICK k \in 0..n : k = m - 1
    OBVIOUS
  <2>6. UpToNul(u) = SubSeq(u, 1, k)
    <3>1. SelectInSeq(u, LAMBDA b : b = 0) = m /\ m # 0
      BY <1>2, <1>5, <2>3
    <3> QED
      BY <2>5, <3>1 DEF UpToNul
  <2>7. k + 1 = m
    BY <2>5
  <2>8. k \in 0..Len(u)
    BY <1>1
  <2>9. /\ IsSeq(UpToNul(u)) /\ Len(UpToNul(u)) = k
        /\ \A i \in 1..k : UpToNul(u)[i] = u[i]
    BY <1>3, <2>6, Zenon
  <2>10. \A i \in 1..k : u[i] # 0
    BY <2>4, <2>5
  <2>11. u[k + 1] = 0
    BY <2>3, <2>7
  <2> QED
    BY <2>6, <2>8, <2>9, <2>10, <2>11, Zenon
<1> QED
  BY <1>4, <1>5

\* The bytes of u without the zeros at its end.
LEMMA BeforeZeros ==
    ASSUME NEW u, IsSeq(u)
    PROVE  \E k \in 0..Len(u) :
              /\ StripZeros(u) = SubSeq(u, 1, k) /\ IsSeq(StripZeros(u)) /\ Len(StripZeros(u)) = k
              /\ \A i \in 1..k : StripZeros(u)[i] = u[i]
              /\ \A i \in 1..Len(u) : i > k => u[i] = 0
              /\ k > 0 => u[k] # 0
<1>1. PICK n \in Nat : n = Len(u)
  BY LengthOf
<1> DEFINE I == {i \in 1..n : u[i] # 0}
<1>2. SelectLastInSeq(u, LAMBDA b : b # 0) = IF I # {} THEN Max(I) ELSE 0
  BY <1>1 DEF SelectLastInSeq
<1>3. \E k \in 0..n : /\ SelectLastInSeq(u, LAMBDA b : b # 0) = k
                      /\ (\A i \in 1..n : i > k => u[i] = 0) /\ (k > 0 => u[k] # 0)
  <2>1. CASE I = {}
    <3>1. 0 \in 0..n /\ ~(0 > 0) /\ \A i \in 1..n : u[i] = 0
      BY <2>1
    <3> QED
      BY <1>2, <2>1, <3>1
  <2>2. CASE I # {}
    <3> DEFINE J == {n - i : i \in I}
    <3>1. J \subseteq Nat /\ J # {}
      BY <2>2
    <3>2. PICK j \in J : \A i \in J : j <= i
      BY <3>1, Least
    <3>3. PICK m \in I : j = n - m
      OBVIOUS
    <3>4. ASSUME NEW i \in I PROVE m >= i
      <4>1. n - m <= n - i
        BY <3>2, <3>3
      <4> QED
        BY <4>1
    <3>5. Max(I) \in I /\ \A i \in I : Max(I) >= i
      <4> HIDE DEF I
      <4> QED
        BY <3>4 DEF Max
    <3>6. PICK k \in 1..n : k = Max(I) /\ u[k] # 0 /\ \A i \in I : k >= i
      BY <3>5
    <3>7. ASSUME NEW i \in 1..n, i > k PROVE u[i] = 0
      <4>1. ~(k >= i)
        BY <3>7
      <4> QED
        BY <3>6, <4>1
    <3>8. k \in 0..n
      OBVIOUS
    <3>9. SelectLastInSeq(u, LAMBDA b : b # 0) = k
      BY <1>2, <2>2, <3>6
    <3> QED
      BY <3>6, <3>7, <3>8, <3>9
  <2> QED
    BY <2>1, <2>2
<1> HIDE DEF I
<1>4. PICK k \in 0..n : /\ SelectLastInSeq(u, LAMBDA b : b # 0) = k
                        /\ (\A i \in 1..n : i > k => u[i] = 0) /\ (k > 0 => u[k] # 0)
  BY <1>3
<1>5. StripZeros(u) = SubSeq(u, 1, k)
  BY <1>4 DEF StripZeros
<1>6. 1 \in Nat \ {0} /\ k \in Nat /\ 1 <= k + 1 /\ k <= Len(u) /\ k + 1 - 1 = k /\ \A i \in 1..k : 1 - 1 + i = i
  BY <1>1
<1>7. /\ IsSeq(SubSeq(u, 1, k)) /\ Len(SubSeq(u, 1, k)) = k + 1 - 1
      /\ \A i \in 1..(k + 1 - 1) : SubSeq(u, 1, k)[i] = u[1 - 1 + i]
  BY <1>6, PartFacts
<1> QED
  BY <1>1, <1>4, <1>5, <1>6, <1>7

\* The parts of a str: one for every byte.
Letters(x) == [i \in DOMAIN x |-> IF x[i] = INVALID THEN REPLACEMENT ELSE <<x[i]>>]

\* Where nothing is replaced, a str is its bytes.
LEMMA StrSame ==
    ASSUME NEW x, IsSeq(x), \A i \in 1..Len(x) : x[i] # INVALID
    PROVE  Str(x) = x
<1>1. PICK n \in Nat : n = Len(x) /\ DOMAIN x = 1..n /\ (x = <<>> <=> n = 0)
  BY LengthOf
<1>2. PICK s : s = Letters(x)
  OBVIOUS
<1>3. Str(x) = FlattenSeq(s)
  BY <1>2 DEF Str, Letters
<1>4. DOMAIN s = 1..n /\ \A i \in 1..n : s[i] = <<x[i]>>
  BY <1>1, <1>2 DEF Letters
<1>5. Len(s) = n
  <2>1. s = [i \in 1..n |-> s[i]]
    BY <1>1, <1>2 DEF Letters
  <2> QED
    BY <2>1, FunIsSeq
<1>6. CASE n = 0
  <2>1. s = <<>>
    <3>1. s = [i \in 1..n |-> s[i]]
      BY <1>1, <1>2 DEF Letters
    <3>2. IsSeq(s)
      BY <3>1, FunIsSeq
    <3> QED
      BY <1>5, <1>6, <3>2, LengthOf
  <2> QED
    BY <1>1, <1>3, <1>6, <2>1, FlattenNone
<1>7. CASE n # 0
  <2>1. PICK f : JoinTo(s, n, f) /\ FlattenSeq(s) = f[n]
    BY <1>5, <1>7, FlattenIsJoin
  <2> DEFINE H == {i \in 0..n : i = 0 \/ (IsSeq(f[i]) /\ Len(f[i]) = i /\ \A j \in 1..i : f[i][j] = x[j])}
  <2>2. ASSUME NEW i \in 0..n, i > 0, i - 1 \in H PROVE i \in H
    <3>1. i \in 1..n
      BY <2>2
    <3>2. f[i] = IF i = 1 THEN s[i] ELSE f[i - 1] \o s[i]
      BY <2>1, <3>1 DEF JoinTo
    <3>3. PICK l : l = s[i] /\ IsSeq(l) /\ Len(l) = 1 /\ l[1] = x[i]
      <4>1. s[i] = <<x[i]>>
        BY <1>4, <3>1
      <4>2. Len(<<x[i]>>) = 1 /\ <<x[i]>>[1] = x[i]
        OBVIOUS
      <4> QED
        BY <4>1, <4>2, SmallSeqs
    <3>4. CASE i = 1
      <4>1. f[1] = l
        BY <3>2, <3>3, <3>4
      <4>2. \A j \in 1..1 : j = 1
        OBVIOUS
      <4>3. \A j \in 1..1 : f[1][j] = x[j]
        BY <3>3, <3>4, <4>1, <4>2
      <4> QED
        BY <2>2, <3>3, <3>4, <4>1, <4>3
    <3>5. CASE i # 1
      <4>1. PICK g : g = f[i - 1] /\ IsSeq(g) /\ Len(g) = i - 1 /\ \A j \in 1..(i - 1) : g[j] = x[j]
        BY <2>2, <3>5
      <4>2. PICK h : h = g \o l /\ h = f[i]
        BY <3>2, <3>3, <3>5, <4>1
      <4>3. IsSeq(h) /\ Len(h) = i /\ (\A j \in 1..(i - 1) : h[j] = g[j]) /\ h[i] = l[1]
        <5>1. Joins(g, l, h)
          BY <3>3, <4>1, <4>2, JoinIsSeq
        <5>2. i - 1 + 1 = i /\ 1 \in 1..1
          BY <3>1
        <5> QED
          BY <3>3, <4>1, <5>1, <5>2 DEF Joins
      <4>4. \A j \in 1..i : j \in 1..(i - 1) \/ j = i
        BY <3>1
      <4>5. \A j \in 1..i : h[j] = x[j]
        BY <3>3, <4>1, <4>3, <4>4
      <4> QED
        BY <2>2, <4>2, <4>3, <4>5
    <3> QED
      BY <3>4, <3>5
  <2>3. 0 \in H
    BY <1>1
  <2> HIDE DEF H
  <2>4. 0..n \subseteq H
    BY <1>1, <2>2, <2>3, Induction
  <2>5. n \in H
    BY <1>1, <2>4
  <2>6. IsSeq(f[n]) /\ Len(f[n]) = n /\ \A j \in 1..n : f[n][j] = x[j]
    BY <1>7, <2>5 DEF H
  <2>7. f[n] = x
    BY <1>1, <2>6, SameEntries
  <2> QED
    BY <1>3, <2>1, <2>7
<1> QED
  BY <1>6, <1>7

\* Bytes that stay what they are.
Letter == 1..254

\* Without a NUL, a str is made of these.
LEMMA StrOfLetters ==
    ASSUME NEW x, IsSeq(x), \A i \in 1..Len(x) : x[i] \in 1..255
    PROVE  Str(x) \in Seq(Letter)
<1>1. PICK n \in Nat : n = Len(x) /\ DOMAIN x = 1..n
  BY LengthOf
<1>2. PICK s : s = Letters(x)
  OBVIOUS
<1>3. Str(x) = FlattenSeq(s)
  BY <1>2 DEF Str, Letters
<1>4. REPLACEMENT \in Seq(Letter)
  <2>1. 239 \in Letter /\ 191 \in Letter /\ 189 \in Letter
    BY DEF Letter
  <2> QED
    BY <2>1 DEF REPLACEMENT
<1>5. ASSUME NEW i \in 1..n PROVE s[i] \in Seq(Letter)
  <2>1. s[i] = IF x[i] = INVALID THEN REPLACEMENT ELSE <<x[i]>>
    BY <1>1, <1>2 DEF Letters
  <2>2. CASE x[i] = INVALID
    BY <1>4, <2>1, <2>2
  <2>3. CASE x[i] # INVALID
    <3>1. x[i] \in Letter
      BY <1>1, <2>3 DEF Letter, INVALID
    <3>2. <<x[i]>> \in Seq(Letter)
      BY <3>1
    <3> QED
      BY <2>1, <2>3, <3>2
  <2> QED
    BY <2>2, <2>3
<1>6. s \in Seq(Seq(Letter))
  <2>1. s = [i \in 1..n |-> s[i]]
    BY <1>1, <1>2 DEF Letters
  <2>2. s \in [1..n -> Seq(Letter)]
    BY <1>5, <2>1
  <2> QED
    BY <2>2, FixedLength
<1> QED
  BY <1>3, <1>6, FlattenType

\* What is made of letters survives.
LEMMA LettersClean == ASSUME NEW r \in Seq(Letter) PROVE Clean(r)
<1>1. \A i \in DOMAIN r : r[i] \in Letter
  BY LenProperties, ElementOfSeq
<1>2. \A b \in Letter : b \notin {0, INVALID}
  BY DEF Letter, INVALID
<1> QED
  BY <1>1, <1>2 DEF Clean

\* What is decoded of a text that zeros follow: something clean, and what was
\* sent if that was.
LEMMA DecodedText ==
    ASSUME NEW text \in Seq(0..255), NEW u, Ends(u, text)
    PROVE  Str(UpToNul(u)) \in Seq(Letter) /\ (Clean(text) => Str(UpToNul(u)) = text)
<1>1. PICK n \in Nat : n = Len(u)
  BY LengthOf DEF Ends
<1>2. PICK m \in Nat : m = Len(text) /\ DOMAIN text = 1..m /\ IsSeq(text)
  BY SeqIsSeq, LengthOf
<1>3. PICK v : v = UpToNul(u)
  OBVIOUS
<1>4. PICK k \in 0..n : /\ IsSeq(v) /\ Len(v) = k /\ (\A i \in 1..k : v[i] = u[i] /\ u[i] # 0)
                        /\ (k < n => u[k + 1] = 0)
  BY <1>1, <1>3, BeforeNul DEF Ends
<1>5. m <= n /\ (\A i \in 1..m : u[i] = text[i]) /\ \A i \in 1..n : i > m => u[i] = 0
  BY <1>1, <1>2 DEF Ends
<1>6. k <= m
  <2> SUFFICES ASSUME k > m PROVE FALSE
    OBVIOUS
  <2>1. m + 1 \in 1..k /\ m + 1 \in 1..n /\ m + 1 > m
    BY <1>2, <1>4
  <2> QED
    BY <1>4, <1>5, <2>1
<1>7. ASSUME NEW i \in 1..k PROVE v[i] = text[i] /\ text[i] \in 1..255
  <2>1. i \in 1..m
    BY <1>6
  <2>2. text[i] \in 0..255
    BY <1>2, <2>1, ElementOfSeq
  <2>3. v[i] = text[i] /\ text[i] # 0
    BY <1>4, <1>5, <2>1
  <2> QED
    BY <2>2, <2>3
<1>8. Str(v) \in Seq(Letter)
  BY <1>4, <1>7, StrOfLetters
<1>9. ASSUME Clean(text) PROVE Str(v) = text
  <2>1. \A i \in 1..m : text[i] # 0 /\ text[i] # INVALID
    BY <1>2, <1>9 DEF Clean
  <2>2. k = m
    <3> SUFFICES ASSUME k < m PROVE FALSE
      BY <1>6
    <3>1. k + 1 \in 1..m /\ k < n
      BY <1>5
    <3> QED
      BY <1>4, <1>5, <2>1, <3>1
  <2>3. v = text
    BY <1>2, <1>4, <1>7, <2>2, SameEntries
  <2> QED
    BY <1>2, <2>1, <2>3, StrSame
<1> QED
  BY <1>3, <1>8, <1>9

\* A text that zeros follow, and that has none, is what is left without them.
LEMMA StrippedText ==
    ASSUME NEW text, IsSeq(text), Clean(text), NEW u, Ends(u, text)
    PROVE  StripZeros(u) = text
<1>1. PICK n \in Nat : n = Len(u)
  BY LengthOf DEF Ends
<1>2. PICK m \in Nat : m = Len(text) /\ DOMAIN text = 1..m
  BY LengthOf
<1>3. PICK v : v = StripZeros(u)
  OBVIOUS
<1>4. PICK k \in 0..n : /\ IsSeq(v) /\ Len(v) = k /\ (\A i \in 1..k : v[i] = u[i])
                        /\ (\A i \in 1..n : i > k => u[i] = 0) /\ (k > 0 => u[k] # 0)
  BY <1>1, <1>3, BeforeZeros DEF Ends
<1>5. m <= n /\ (\A i \in 1..m : u[i] = text[i]) /\ \A i \in 1..n : i > m => u[i] = 0
  BY <1>1, <1>2 DEF Ends
<1>6. \A i \in 1..m : text[i] # 0
  BY <1>2 DEF Clean
<1>7. ~(k > m)
  <2> SUFFICES ASSUME k > m PROVE FALSE
    OBVIOUS
  <2>1. k \in 1..n /\ k > 0
    OBVIOUS
  <2> QED
    BY <1>4, <1>5, <2>1
<1>8. ~(m > k)
  <2> SUFFICES ASSUME m > k PROVE FALSE
    OBVIOUS
  <2>1. m \in 1..n /\ m \in 1..m
    BY <1>5
  <2> QED
    BY <1>4, <1>5, <1>6, <2>1
<1>9. k = m
  BY <1>7, <1>8
<1>10. v = text
  BY <1>2, <1>4, <1>5, <1>9, SameEntries
<1> QED
  BY <1>3, <1>10

-----------------------------------------------------------------------------
(* What is read of a plaintext *)

\* The NUL that softmesh writes is one more zero.
LEMMA NulEnds ==
    ASSUME NEW w, IsSeq(w), NEW t, Ends(t, w \o << 0 >>)
    PROVE  Ends(t, w)
<1>1. PICK z : z = <<0>> /\ IsSeq(z) /\ Len(z) = 1 /\ z[1] = 0
  <2>1. Len(<<0>>) = 1 /\ <<0>>[1] = 0
    OBVIOUS
  <2> QED
    BY <2>1, SmallSeqs
<1>2. PICK v : v = w \o z
  OBVIOUS
<1>3. PICK n \in Nat : n = Len(w)
  BY LengthOf
<1>4. Len(v) = n + 1 /\ (\A i \in 1..n : v[i] = w[i]) /\ v[n + 1] = 0
  <2>1. Joins(w, z, v)
    BY <1>1, <1>2, JoinIsSeq
  <2>2. 1 \in 1..1
    OBVIOUS
  <2> QED
    BY <1>1, <1>3, <2>1, <2>2 DEF Joins
<1>5. Ends(t, v)
  BY <1>1, <1>2
<1>6. PICK l \in Nat : l = Len(t) /\ IsSeq(t)
  BY <1>5, LengthOf DEF Ends
<1>7. l >= n + 1 /\ (\A i \in 1..(n + 1) : t[i] = v[i]) /\ \A i \in 1..l : i > n + 1 => t[i] = 0
  BY <1>4, <1>5, <1>6 DEF Ends
<1>8. l >= n
  BY <1>7
<1>9. ASSUME NEW i \in 1..n PROVE t[i] = w[i]
  <2>1. i \in 1..(n + 1)
    OBVIOUS
  <2> QED
    BY <1>4, <1>7, <2>1
<1>10. ASSUME NEW i \in 1..l, i > n PROVE t[i] = 0
  <2>1. i = n + 1 \/ i > n + 1
    BY <1>10
  <2>2. n + 1 \in 1..(n + 1)
    OBVIOUS
  <2> QED
    BY <1>4, <1>7, <2>1, <2>2
<1> QED
  BY <1>3, <1>6, <1>8, <1>9, <1>10 DEF Ends

\* Behind its header, a plaintext ends as its text does.
LEMMA TailEnds ==
    ASSUME NEW a, IsSeq(a), NEW text, IsSeq(text), NEW t, Ends(t, a \o text),
           NEW n \in Nat, n = Len(a), NEW m, m = n + 1
    PROVE  (\A i \in 1..n : t[i] = a[i]) /\ Ends(From(t, m), text) /\ n <= Len(t)
<1>1. PICK k \in Nat : k = Len(text)
  BY LengthOf
<1>2. PICK v : v = a \o text
  OBVIOUS
<1>3. Len(v) = n + k /\ (\A i \in 1..n : v[i] = a[i]) /\ \A i \in 1..k : v[n + i] = text[i]
  BY <1>1, <1>2, JoinIsSeq DEF Joins
<1>4. PICK l \in Nat : l = Len(t) /\ IsSeq(t)
  BY LengthOf DEF Ends
<1>5. l >= n + k /\ (\A i \in 1..(n + k) : t[i] = v[i]) /\ \A i \in 1..l : i > n + k => t[i] = 0
  BY <1>2, <1>3, <1>4 DEF Ends
<1>6. PICK f : f = From(t, n + 1) /\ f = From(t, m)
  OBVIOUS
<1>7. IsSeq(f) /\ Len(f) = l - n /\ \A i \in 1..(l - n) : f[i] = t[n + i]
  <2>1. n + 1 \in Nat \ {0} /\ n + 1 <= Len(t) + 1 /\ Len(t) + 1 - (n + 1) = l - n /\ n + 1 - 1 = n
    BY <1>4, <1>5
  <2>2. /\ IsSeq(f) /\ Len(f) = Len(t) + 1 - (n + 1)
        /\ \A i \in 1..(Len(t) + 1 - (n + 1)) : f[i] = t[(n + 1) - 1 + i]
    BY <1>4, <1>6, <2>1, FromFacts
  <2> QED
    BY <2>1, <2>2
<1>8. ASSUME NEW i \in 1..n PROVE t[i] = a[i]
  <2>1. i \in 1..(n + k)
    OBVIOUS
  <2> QED
    BY <1>3, <1>5, <2>1
<1>9. ASSUME NEW i \in 1..k PROVE f[i] = text[i]
  <2>1. n + i \in 1..(n + k) /\ i \in 1..(l - n)
    BY <1>5
  <2> QED
    BY <1>3, <1>5, <1>7, <2>1
<1>10. ASSUME NEW i \in 1..(l - n), i > k PROVE f[i] = 0
  <2>1. n + i \in 1..l /\ n + i > n + k
    BY <1>10
  <2> QED
    BY <1>5, <1>7, <2>1
<1>11. l - n >= k /\ n <= l
  BY <1>5
<1>12. Ends(f, text)
  BY <1>1, <1>7, <1>9, <1>10, <1>11 DEF Ends
<1> QED
  BY <1>4, <1>6, <1>8, <1>11, <1>12

\* What a time in the clear is.
Time(ts) == ts \in Int /\ ts \div 256^3 \in 0..255

\* The first four bytes of a plaintext are its time.
LEMMA TimeRead ==
    ASSUME NEW ts, Time(ts), NEW t, \A i \in 1..4 : t[i] = ToBytes(ts, 4)[i]
    PROVE  FromBytes4(t) = ts
BY TimeRoundTrip DEF Time

\* What is read of a plaintext t: a clean text, the one that was sent if that
\* was clean, and everything else as it was sent.
TextAs(t, ts, attempt, type, text) ==
    \E r \in Seq(Letter) :
        /\ Clean(text) => r = text
        /\ TxtMsg(t) = [ts |-> ts, attempt |-> attempt % 4, type |-> type, text |-> r]

PushAs(t, ts, attempt, author, text) ==
    \E r \in Seq(Letter) :
        /\ Clean(text) => r = text
        /\ RoomPushMsg(t) = [ts |-> ts, attempt |-> attempt % 4, author |-> SubSeq(Pub(author), 1, 4), text |-> r]

LoginAs(t, ts, text) ==
    \E r \in Seq(Letter) : /\ Clean(text) => r = text
                           /\ LoginReq(t) = [ts |-> ts, since |-> ts, password |-> r]

ReqAs(t, ts, text) == \E r : (Clean(text) => r = text) /\ ReqMsg(t) = [ts |-> ts, data |-> r]

\* A text message is read as it was written.
LEMMA TextRead ==
    ASSUME NEW ts, Time(ts), NEW attempt \in Nat, NEW type \in 0..63, NEW text \in Seq(0..255),
           NEW t, Ends(t, TextThroughEnd(ts, attempt, text, type))
    PROVE  TextAs(t, ts, attempt, type, text)
<1>1. PICK b : b = ToBytes(ts, 4) /\ IsSeq(b) /\ Len(b) = 4
  BY FourBytes DEF Time
<1>2. PICK g : g = FlagsByte(attempt, type)
  OBVIOUS
<1>3. PICK f : f = <<g>> /\ IsSeq(f) /\ Len(f) = 1 /\ f[1] = g
  <2>1. Len(<<g>>) = 1 /\ <<g>>[1] = g
    OBVIOUS
  <2> QED
    BY <2>1, SmallSeqs
<1>4. PICK a : a = b \o f
  OBVIOUS
<1>5. IsSeq(a) /\ Len(a) = 5 /\ (\A i \in 1..4 : a[i] = b[i]) /\ a[5] = g
  <2>1. Joins(b, f, a)
    BY <1>1, <1>3, <1>4, JoinIsSeq
  <2>2. 4 + 1 = 5 /\ 1 \in 1..1
    OBVIOUS
  <2> QED
    BY <1>1, <1>3, <2>1, <2>2 DEF Joins
<1>6. Ends(t, a \o text)
  BY <1>1, <1>2, <1>3, <1>4 DEF TextThroughEnd
<1>7. IsSeq(text)
  BY SeqIsSeq
<1>8. (\A i \in 1..5 : t[i] = a[i]) /\ Ends(From(t, 6), text) /\ 5 <= Len(t)
  <2>1. 5 \in Nat /\ 6 = 5 + 1
    OBVIOUS
  <2> QED
    BY <1>5, <1>6, <1>7, <2>1, TailEnds
<1>9. t[5] = g /\ \A i \in 1..4 : t[i] = ToBytes(ts, 4)[i]
  <2>1. 5 \in 1..5 /\ \A i \in 1..4 : i \in 1..5
    OBVIOUS
  <2> QED
    BY <1>1, <1>5, <1>8, <2>1
<1>10. FromBytes4(t) = ts
  BY <1>9, TimeRead
<1>11. g % 4 = attempt % 4 /\ g \div 4 = type
  BY <1>2, FlagsRoundTrip
<1>12. PICK r \in Seq(Letter) : r = Str(UpToNul(From(t, 6))) /\ (Clean(text) => r = text)
  BY <1>8, DecodedText
<1>13. TxtMsg(t) = [ts |-> ts, attempt |-> attempt % 4, type |-> type, text |-> r]
  BY <1>9, <1>10, <1>11, <1>12 DEF TxtMsg
<1> QED
  BY <1>12, <1>13 DEF TextAs

\* So is a request.
LEMMA ReqRead ==
    ASSUME NEW ts, Time(ts), NEW text \in Seq(0..255), NEW t, Ends(t, ToBytes(ts, 4) \o text)
    PROVE  ReqAs(t, ts, text)
<1>1. PICK b : b = ToBytes(ts, 4) /\ IsSeq(b) /\ Len(b) = 4
  BY FourBytes DEF Time
<1>2. IsSeq(text)
  BY SeqIsSeq
<1>3. (\A i \in 1..4 : t[i] = b[i]) /\ Ends(From(t, 5), text) /\ 4 <= Len(t)
  <2>1. 4 \in Nat /\ 5 = 4 + 1
    OBVIOUS
  <2>2. PICK w : w = b \o text
    OBVIOUS
  <2>3. Ends(t, w)
    BY <1>1, <2>2
  <2>4. IsSeq(b) /\ Len(b) = 4
    BY <1>1
  <2> QED
    BY <1>2, <2>1, <2>2, <2>3, <2>4, TailEnds
<1>4. FromBytes4(t) = ts
  BY <1>1, <1>3, TimeRead
<1>5. Clean(text) => StripZeros(From(t, 5)) = text
  BY <1>2, <1>3, StrippedText
<1> QED
  BY <1>4, <1>5 DEF ReqMsg, ReqAs

\* So is a login.
LEMMA LoginRead ==
    ASSUME NEW ts, Time(ts), NEW text \in Seq(0..255),
           NEW t, Ends(t, ToBytes(ts, 4) \o ToBytes(ts, 4) \o text \o << 0 >>)
    PROVE  LoginAs(t, ts, text)
<1>1. PICK b : b = ToBytes(ts, 4) /\ IsSeq(b) /\ Len(b) = 4
  BY FourBytes DEF Time
<1>2. IsSeq(text)
  BY SeqIsSeq
<1>3. PICK a : a = b \o b
  OBVIOUS
<1>4. IsSeq(a) /\ Len(a) = 8 /\ (\A i \in 1..4 : a[i] = b[i]) /\ (\A i \in 1..4 : a[4 + i] = b[i])
  <2>1. Joins(b, b, a)
    BY <1>1, <1>3, JoinIsSeq
  <2>2. 4 + 4 = 8
    OBVIOUS
  <2> QED
    BY <1>1, <2>1, <2>2 DEF Joins
<1>5. PICK w : w = a \o text
  OBVIOUS
<1>6. IsSeq(w)
  BY <1>2, <1>4, <1>5, Joined2
<1>7. Ends(t, w)
  <2>1. Ends(t, w \o <<0>>)
    BY <1>1, <1>3, <1>5
  <2> QED
    BY <1>6, <2>1, NulEnds
<1>8. (\A i \in 1..8 : t[i] = a[i]) /\ Ends(From(t, 9), text) /\ 8 <= Len(t)
  <2>1. 8 \in Nat /\ 8 + 1 = 9
    OBVIOUS
  <2> QED
    BY <1>2, <1>4, <1>5, <1>7, <2>1, TailEnds
<1>9. FromBytes4(t) = ts
  <2>1. \A i \in 1..4 : i \in 1..8
    OBVIOUS
  <2>2. \A i \in 1..4 : t[i] = ToBytes(ts, 4)[i]
    BY <1>1, <1>4, <1>8, <2>1
  <2> QED
    BY <2>2, TimeRead
<1>10. FromBytes4(From(t, 5)) = ts
  <2>1. PICK f : f = From(t, 5)
    OBVIOUS
  <2>2. PICK l \in Nat : l = Len(t) /\ IsSeq(t)
    BY <1>7, LengthOf DEF Ends
  <2>3. \A i \in 1..(Len(t) + 1 - 5) : f[i] = t[5 - 1 + i]
    <3>1. 5 \in Nat \ {0} /\ 5 <= Len(t) + 1
      BY <1>8, <2>2
    <3> QED
      BY <2>1, <2>2, <3>1, FromFacts
  <2>4. \A i \in 1..4 : i \in 1..(Len(t) + 1 - 5) /\ 5 - 1 + i = 4 + i /\ 4 + i \in 1..8
    BY <1>8, <2>2
  <2>5. \A i \in 1..4 : f[i] = ToBytes(ts, 4)[i]
    BY <1>1, <1>4, <1>8, <2>3, <2>4
  <2>6. FromBytes4(f) = ts
    BY <2>5, TimeRead
  <2> QED
    BY <2>1, <2>6
<1>11. PICK r \in Seq(Letter) : r = Str(UpToNul(From(t, 9))) /\ (Clean(text) => r = text)
  BY <1>8, DecodedText
<1>12. LoginReq(t) = [ts |-> ts, since |-> ts, password |-> r]
  BY <1>9, <1>10, <1>11 DEF LoginReq
<1> QED
  BY <1>11, <1>12 DEF LoginAs

\* The four bytes of an author's key.
LEMMA AuthorKey ==
    ASSUME NEW n PROVE IsSeq(SubSeq(Pub(n), 1, 4)) /\ Len(SubSeq(Pub(n), 1, 4)) = 4
<1>1. 1 \in Nat \ {0} /\ 4 \in Nat /\ 1 <= 4 + 1 /\ 4 <= 32 /\ 4 + 1 - 1 = 4
  OBVIOUS
<1>2. IsSeq(Pub(n)) /\ Len(Pub(n)) = 32
  BY PubIsSeq
<1>3. IsSeq(SubSeq(Pub(n), 1, 4)) /\ Len(SubSeq(Pub(n), 1, 4)) = 4 + 1 - 1
  BY <1>1, <1>2, PartFacts
<1> QED
  BY <1>1, <1>3

\* So is a push.
LEMMA PushRead ==
    ASSUME NEW ts, Time(ts), NEW attempt \in Nat, NEW author, NEW text \in Seq(0..255),
           NEW t, Ends(t, RoomPushInner(ts, attempt, author, text))
    PROVE  PushAs(t, ts, attempt, author, text)
<1>1. PICK b : b = ToBytes(ts, 4) /\ IsSeq(b) /\ Len(b) = 4
  BY FourBytes DEF Time
<1>2. PICK g : g = FlagsByte(attempt, 2)
  OBVIOUS
<1>3. PICK f : f = <<g>> /\ IsSeq(f) /\ Len(f) = 1 /\ f[1] = g
  <2>1. Len(<<g>>) = 1 /\ <<g>>[1] = g
    OBVIOUS
  <2> QED
    BY <2>1, SmallSeqs
<1>4. PICK k : k = SubSeq(Pub(author), 1, 4) /\ IsSeq(k) /\ Len(k) = 4
  BY AuthorKey
<1>5. PICK a : a = b \o f
  OBVIOUS
<1>6. IsSeq(a) /\ Len(a) = 5 /\ (\A i \in 1..4 : a[i] = b[i]) /\ a[5] = g
  <2>1. Joins(b, f, a)
    BY <1>1, <1>3, <1>5, JoinIsSeq
  <2>2. 4 + 1 = 5 /\ 1 \in 1..1
    OBVIOUS
  <2> QED
    BY <1>1, <1>3, <2>1, <2>2 DEF Joins
<1>7. PICK c : c = a \o k
  OBVIOUS
<1>8. IsSeq(c) /\ Len(c) = 9 /\ (\A i \in 1..5 : c[i] = a[i]) /\ (\A i \in 1..4 : c[5 + i] = k[i])
  <2>1. Joins(a, k, c)
    BY <1>4, <1>6, <1>7, JoinIsSeq
  <2>2. 5 + 4 = 9
    OBVIOUS
  <2> QED
    BY <1>4, <1>6, <2>1, <2>2 DEF Joins
<1>9. IsSeq(text)
  BY SeqIsSeq
<1>10. PICK w : w = c \o text /\ IsSeq(w)
  BY <1>8, <1>9, Joined2
<1>11. RoomPushInner(ts, attempt, author, text) = w \o <<0>>
  BY <1>1, <1>2, <1>3, <1>4, <1>5, <1>7, <1>10 DEF RoomPushInner, PushThroughText
<1>12. Ends(t, w)
  BY <1>10, <1>11, NulEnds
<1>13. (\A i \in 1..9 : t[i] = c[i]) /\ Ends(From(t, 10), text) /\ 9 <= Len(t)
  <2>1. 9 \in Nat /\ 9 + 1 = 10
    OBVIOUS
  <2> QED
    BY <1>8, <1>9, <1>10, <1>12, <2>1, TailEnds
<1>14. t[5] = g /\ \A i \in 1..4 : t[i] = ToBytes(ts, 4)[i]
  <2>1. 5 \in 1..5 /\ 5 \in 1..9 /\ \A i \in 1..4 : i \in 1..5 /\ i \in 1..9
    OBVIOUS
  <2> QED
    BY <1>1, <1>6, <1>8, <1>13, <2>1
<1>15. FromBytes4(t) = ts
  BY <1>14, TimeRead
<1>16. g % 4 = attempt % 4
  <2>1. 2 \in 0..63
    OBVIOUS
  <2> QED
    BY <1>2, <2>1, FlagsRoundTrip
<1>17. SubSeq(t, 6, 9) = k
  <2>1. PICK s : s = SubSeq(t, 6, 9)
    OBVIOUS
  <2>2. PICK l \in Nat : l = Len(t) /\ IsSeq(t)
    BY <1>12, LengthOf DEF Ends
  <2>3. 6 \in Nat \ {0} /\ 9 \in Nat /\ 6 <= 9 + 1 /\ 9 <= Len(t) /\ 9 + 1 - 6 = 4
        /\ \A i \in 1..4 : 6 - 1 + i = 5 + i /\ 5 + i \in 1..9
    BY <1>13
  <2>4. IsSeq(s) /\ Len(s) = 9 + 1 - 6 /\ \A i \in 1..(9 + 1 - 6) : s[i] = t[6 - 1 + i]
    BY <2>1, <2>2, <2>3, PartFacts
  <2>5. Len(s) = 4 /\ \A i \in 1..4 : s[i] = k[i]
    BY <1>8, <1>13, <2>3, <2>4
  <2>6. s = k
    BY <1>4, <2>4, <2>5, SameEntries
  <2> QED
    BY <2>1, <2>6
<1>18. PICK r \in Seq(Letter) : r = Str(UpToNul(From(t, 10))) /\ (Clean(text) => r = text)
  BY <1>13, DecodedText
<1>19. RoomPushMsg(t) = [ts |-> ts, attempt |-> attempt % 4, author |-> k, text |-> r]
  BY <1>14, <1>15, <1>16, <1>17, <1>18 DEF RoomPushMsg
<1> QED
  BY <1>4, <1>18, <1>19 DEF PushAs

-----------------------------------------------------------------------------
(* Who opens a payload *)

\* The address of a node.
LEMMA AddressIs == ASSUME NEW n PROVE Address(n) = n % 16
<1> DEFINE s == <<n % 16, 0>>
           t == [i \in 1..30 |-> n]
<1>1. IsSeq(s) /\ Len(s) = 2 /\ s[1] = n % 16
  BY SmallSeqs
<1>2. t = [i \in 1..30 |-> t[i]] /\ 30 \in Nat
  OBVIOUS
<1>3. IsSeq(t)
  BY <1>2, FunIsSeq
<1>4. Pub(n) = s \o t
  BY DEF Pub
<1> HIDE DEF s, t
<1>5. Joins(s, t, s \o t)
  BY <1>1, <1>3, JoinIsSeq
<1>6. 1 \in 1..Len(s)
  BY <1>1
<1> QED
  BY <1>1, <1>4, <1>5, <1>6 DEF Joins, Address

\* The client and its neighbour share an address, but not a key.
LEMMA Nodes ==
    /\ Address(Room) = 2 /\ Address(Client) = 1 /\ Address(Neighbour) = 1
    /\ SharedSecret(Client, Room) = SharedSecret(Room, Client)
    /\ SharedSecret(Room, Neighbour) # SharedSecret(Room, Client)
    /\ SharedSecret(Room, Client) # {Channel}
<1>1. Address(Room) = 2 % 16 /\ Address(Client) = 1 % 16 /\ Address(Neighbour) = 17 % 16
  BY AddressIs DEF Room, Client, Neighbour
<1>2. 2 % 16 = 2 /\ 1 % 16 = 1 /\ 17 % 16 = 1
  OBVIOUS
<1>3. {1, 2} = {2, 1} /\ {2, 17} # {2, 1} /\ {2, 1} # {64}
  OBVIOUS
<1> QED
  BY <1>1, <1>2, <1>3 DEF SharedSecret, Room, Client, Neighbour, Channel

\* A text sealed behind two bytes.
LEMMA PairOpens ==
    ASSUME NEW x, NEW y, NEW key, NEW inner, IsSeq(inner), inner # <<>>, NEW least \in 0..16
    PROVE  \E q : /\ q = <<x, y>> \o EncryptThenMac(key, inner)
                  /\ q[1] = x /\ q[2] = y /\ Len(q) > 1 /\ OpensAs(q, 2, key, inner, least)
<1>1. PICK head : head = <<x, y>> /\ IsSeq(head) /\ Len(head) = 2 /\ head[1] = x /\ head[2] = y
  <2>1. Len(<<x, y>>) = 2 /\ <<x, y>>[1] = x /\ <<x, y>>[2] = y
    OBVIOUS
  <2> QED
    BY <2>1, SmallSeqs
<1>2. PICK h : h = Len(head)
  OBVIOUS
<1>3. PICK q : q = head \o EncryptThenMac(key, inner)
  OBVIOUS
<1>4. IsSeq(head)
  BY <1>1
<1>5. OpensAs(q, h, key, inner, least)
  <2>1. /\ least \in 0..16 /\ IsSeq(inner) /\ inner # <<>> /\ IsSeq(head) /\ h = Len(head)
        /\ q = head \o EncryptThenMac(key, inner)
    BY <1>2, <1>3, <1>4, Zenon
  <2> QED
    BY <2>1, SealedOpens, Zenon
<1>6. \A i \in 1..h : q[i] = head[i]
  <2>1. PICK s : s = EncryptThenMac(key, inner) /\ IsSeq(s)
    BY SealOpens
  <2>2. Joins(head, s, q)
    BY <1>3, <1>4, <2>1, JoinIsSeq
  <2> QED
    BY <1>2, <2>2 DEF Joins
<1>7. h = 2
  BY <1>1, <1>2
<1>8. q[1] = x /\ q[2] = y
  BY <1>1, <1>6, <1>7
<1>9. Len(q) > 1
  <2>1. PICK s : s = EncryptThenMac(key, inner) /\ IsSeq(s)
    BY SealOpens
  <2>2. Joins(head, s, q)
    BY <1>3, <1>4, <2>1, JoinIsSeq
  <2>3. Len(q) = 2 + Len(s) /\ Len(s) \in Nat
    BY <1>2, <1>7, <2>2 DEF Joins
  <2> QED
    BY <2>3
<1>10. q = <<x, y>> \o EncryptThenMac(key, inner)
  BY <1>1, <1>3
<1>11. OpensAs(q, 2, key, inner, least)
  BY <1>5, <1>7
<1> QED
  BY <1>8, <1>9, <1>10, <1>11

\* A datagram is opened with the key of its two nodes.
LEMMA DatagramOpens ==
    ASSUME NEW dest, NEW src, NEW inner, IsSeq(inner), inner # <<>>, NEW least \in 0..16,
           NEW payload, payload = Datagram(dest, src, inner)
    PROVE  /\ payload[1] = Address(dest) /\ payload[2] = Address(src) /\ Len(payload) > 1
           /\ Inner(payload, 2) = Padded(inner)
           /\ \A k : Readable(payload, 2, k, least) <=> k = SharedSecret(dest, src)
<1>1. PICK x, y, key : x = Address(dest) /\ y = Address(src) /\ key = SharedSecret(dest, src)
  OBVIOUS
<1>2. PICK q : /\ q = <<x, y>> \o EncryptThenMac(key, inner)
               /\ q[1] = x /\ q[2] = y /\ Len(q) > 1 /\ OpensAs(q, 2, key, inner, least)
  BY PairOpens
<1>3. payload = q
  BY <1>1, <1>2 DEF Datagram
<1> QED
  BY <1>1, <1>2, <1>3 DEF OpensAs

\* Of the nodes at the client's address, the room takes the client for the
\* sender: only its key opens what it sent.
LEMMA RoomOpens ==
    ASSUME NEW inner, IsSeq(inner), inner # <<>>, NEW least \in 0..16,
           NEW payload, payload = Datagram(Room, Client, inner)
    PROVE  Opened(payload, least) = {[from |-> Client, inner |-> Padded(inner)]}
<1>1. /\ payload[1] = Address(Room) /\ payload[2] = Address(Client) /\ Len(payload) > 1
      /\ Inner(payload, 2) = Padded(inner)
      /\ \A k : Readable(payload, 2, k, least) <=> k = SharedSecret(Room, Client)
  BY DatagramOpens
<1> DEFINE D == {d \in Candidates(payload) : /\ payload[1] = Address(Room)
                                             /\ Readable(payload, 2, SharedSecret(Room, d), least)}
<1>2. Client \in D
  BY <1>1 DEF Candidates, Sessions
<1>3. ASSUME NEW d \in D PROVE d = Client
  <2>1. d \in {Client, Neighbour}
    BY DEF Candidates, Sessions
  <2>2. SharedSecret(Room, d) = SharedSecret(Room, Client)
    BY <1>1
  <2> QED
    BY <2>1, <2>2, Nodes
<1>4. Opened(payload, least) = {[from |-> c, inner |-> Inner(payload, 2)] : c \in D}
  BY DEF Opened
<1> HIDE DEF D
<1>5. D = {Client}
  BY <1>2, <1>3
<1> QED
  BY <1>1, <1>4, <1>5

\* A client takes what it can open for the room's.
LEMMA ClientOpens ==
    ASSUME NEW inner, IsSeq(inner), inner # <<>>, NEW least \in 0..16,
           NEW payload, payload = Datagram(Client, Room, inner)
    PROVE  OpenedBy(SharedSecret(Room, Client), Room, payload, least)
               = {[from |-> Room, inner |-> Padded(inner)]}
<1>1. /\ Inner(payload, 2) = Padded(inner)
      /\ \A k : Readable(payload, 2, k, least) <=> k = SharedSecret(Client, Room)
  BY DatagramOpens
<1>2. Readable(payload, 2, SharedSecret(Room, Client), least)
  BY <1>1, Nodes
<1> QED
  BY <1>1, <1>2 DEF OpenedBy

\* Nothing that is written begins with nothing.
LEMMA NotNothing == ASSUME NEW a, IsSeq(a), Len(a) # 0, NEW b, IsSeq(b) PROVE a \o b # <<>>
<1>1. PICK u : u = a \o b
  OBVIOUS
<1>2. Joins(a, b, u)
  BY <1>1, JoinIsSeq
<1>3. IsSeq(u) /\ Len(u) # 0
  BY <1>2 DEF Joins
<1> QED
  BY <1>1, <1>3, LengthOf

\* The plaintexts are not empty.
LEMMA PlaintextsNotEmpty ==
    ASSUME NEW ts \in Int, NEW attempt, NEW type, NEW text, IsSeq(text)
    PROVE  /\ TextThroughEnd(ts, attempt, text, type) # <<>>
           /\ ComposePlaintext(ts, attempt, text, type) # <<>>
           /\ \A author : RoomPushInner(ts, attempt, author, text) # <<>>
           /\ ToBytes(ts, 4) \o text # <<>>
           /\ ToBytes(ts, 4) \o ToBytes(ts, 4) \o text \o <<0>> # <<>>
<1>1. PICK z : z = <<0>> /\ IsSeq(z) /\ Len(z) # 0
  <2>1. Len(<<0>>) # 0
    OBVIOUS
  <2> QED
    BY <2>1, SmallSeqs
<1>2. PICK b : b = ToBytes(ts, 4) /\ IsSeq(b) /\ Len(b) = 4 /\ Len(b) # 0
  BY FourBytes
<1>3. ASSUME NEW a, IsSeq(a) PROVE a \o z # <<>>
  <2>1. PICK u : u = a \o z
    OBVIOUS
  <2>2. Joins(a, z, u)
    BY <1>1, <1>3, <2>1, JoinIsSeq
  <2>3. IsSeq(u) /\ Len(u) # 0
    BY <1>1, <2>2 DEF Joins
  <2> QED
    BY <2>1, <2>3, LengthOf
<1>4. TextThroughEnd(ts, attempt, text, type) # <<>>
  <2>1. PICK f : f = <<FlagsByte(attempt, type)>> /\ IsSeq(f)
    BY SmallSeqs
  <2>2. PICK c : c = b \o f
    OBVIOUS
  <2>3. Joins(b, f, c)
    BY <1>2, <2>1, <2>2, JoinIsSeq
  <2>4. IsSeq(c) /\ Len(c) # 0
    BY <1>2, <2>3 DEF Joins
  <2>5. c \o text # <<>>
    BY <2>4, NotNothing
  <2> QED
    BY <1>2, <2>1, <2>2, <2>5 DEF TextThroughEnd
<1>5. ComposePlaintext(ts, attempt, text, type) # <<>>
  <2>1. IsSeq(TextThroughEnd(ts, attempt, text, type))
    BY PlaintextsAreSeqs
  <2> QED
    BY <1>1, <1>3, <2>1 DEF ComposePlaintext
<1>6. ASSUME NEW author PROVE RoomPushInner(ts, attempt, author, text) # <<>>
  <2>1. PICK f : f = <<FlagsByte(attempt, 2)>> /\ IsSeq(f)
    BY SmallSeqs
  <2>2. PICK k : k = SubSeq(Pub(author), 1, 4) /\ IsSeq(k)
    BY AuthorKey
  <2>3. PICK c : c = b \o f /\ IsSeq(c)
    BY <1>2, <2>1, Joined2
  <2>4. PICK d : d = c \o k /\ IsSeq(d)
    BY <2>2, <2>3, Joined2
  <2>5. PICK e : e = d \o text /\ IsSeq(e)
    BY <2>4, Joined2
  <2>6. RoomPushInner(ts, attempt, author, text) = e \o z
    BY <1>1, <1>2, <2>1, <2>2, <2>3, <2>4, <2>5 DEF RoomPushInner, PushThroughText
  <2> QED
    BY <1>3, <2>5, <2>6
<1>7. b \o text # <<>>
  BY <1>2, NotNothing
<1>8. (b \o b) \o text \o z # <<>>
  <2>1. PICK c : c = b \o b /\ IsSeq(c)
    BY <1>2, Joined2
  <2>2. PICK d : d = c \o text /\ IsSeq(d)
    BY <2>1, Joined2
  <2> QED
    BY <1>3, <2>1, <2>2
<1> QED
  BY <1>1, <1>2, <1>4, <1>5, <1>6, <1>7, <1>8

-----------------------------------------------------------------------------
(* What a receiver makes of a whole message *)

\* The meaning of a message of which the text r was decoded.
MeaningAs(m, r) ==
    CASE m.kind \in {"txt", "echo", "grp"} -> [ts |-> m.ts, attempt |-> m.attempt % 4, type |-> m.type, text |-> r]
      [] m.kind = "push"   -> [ts |-> m.ts, attempt |-> m.attempt % 4, author |-> SubSeq(Pub(Author), 1, 4), text |-> r]
      [] m.kind = "login"  -> [ts |-> m.ts, since |-> m.ts, password |-> r]
      [] m.kind = "req"    -> [ts |-> m.ts, data |-> r]
      [] m.kind = "advert" -> [pub |-> Pub(m.from), ts |-> m.ts, app |-> [m.app EXCEPT !.name = r]]

\* One sender, and a text that is clean and the one that was sent if that was.
Understood(m, S) ==
    \E r : /\ m.kind # "req" => r \in Seq(Letter)
           /\ Clean(Text(m)) => r = Text(m)
           /\ S = {[from |-> Sender(m), content |-> MeaningAs(m, r)]}

\* What the fields of a message hold.
LEMMA MessageFacts ==
    ASSUME NEW m \in Messages
    PROVE  /\ m.kind \in {"txt", "echo", "push", "login", "req", "grp", "advert"}
           /\ Time(m.ts) /\ m.ts \in Int
           /\ m.kind \in {"txt", "echo", "grp"} => m.type \in 0..63 /\ m.attempt \in Nat
           /\ m.kind = "echo" => m.type = 0
           /\ m.kind = "push" => m.attempt \in Nat
           /\ m.kind # "advert" => m.text \in Seq(0..255) /\ IsSeq(m.text) /\ Text(m) = m.text
<1>1. m.kind \in {"txt", "echo", "push", "login", "req", "grp", "advert"}
  BY MessageAssumption
<1>2. m.ts \in Int /\ m.ts \div 256^3 \in 0..255
  <2>1. m.ts \in Nat /\ m.ts \div 256^3 \in 0..255
    BY MessageAssumption
  <2> QED
    BY <2>1
<1>3. m.kind \in {"txt", "echo", "grp"} => m.type \in 0..63 /\ m.attempt \in Nat
  BY MessageAssumption
<1>4. (m.kind = "echo" => m.type = 0) /\ (m.kind = "push" => m.attempt \in Nat)
  BY MessageAssumption
<1>5. m.kind # "advert" => m.text \in Seq(0..255)
  BY MessageAssumption
<1>6. m.kind # "advert" => IsSeq(m.text) /\ Text(m) = m.text
  BY <1>5, SeqIsSeq DEF Text
<1> QED
  BY <1>1, <1>2, <1>3, <1>4, <1>5, <1>6 DEF Time

\* Three parts, the second of which goes from m to n.
Three(a, b, c, m, n, u) ==
    IsSeq(a) /\ IsSeq(b) /\ IsSeq(c) /\ m = Len(a) + 1 /\ n = Len(a) + Len(b) /\ u = (a \o b) \o c

PartIs(u, m, n, b) == SubSeq(u, m, n) = b

\* The middle one of three parts.
LEMMA Middle ==
    ASSUME NEW a, NEW b, NEW c, NEW m, NEW n, NEW v, Three(a, b, c, m, n, v)
    PROVE  PartIs(v, m, n, b)
<1>1. PICK k \in Nat, l \in Nat, j \in Nat : k = Len(a) /\ l = Len(b) /\ j = Len(c)
  BY LengthOf DEF Three
<1>2. PICK u : u = a \o b
  OBVIOUS
<1>3. IsSeq(u) /\ Len(u) = k + l /\ \A i \in 1..l : u[k + i] = b[i]
  BY <1>1, <1>2, JoinIsSeq DEF Joins, Three
<1>4. v = u \o c /\ IsSeq(c) /\ IsSeq(b) /\ m = Len(a) + 1 /\ n = Len(a) + Len(b)
  BY <1>2 DEF Three
<1>5. Joins(u, c, v)
  BY <1>3, <1>4, JoinIsSeq
<1>6. IsSeq(v) /\ Len(v) = k + l + j /\ \A i \in 1..(k + l) : v[i] = u[i]
  BY <1>1, <1>3, <1>5 DEF Joins
<1>7. PICK f : f = SubSeq(v, m, n)
  OBVIOUS
<1>8. m \in Nat \ {0} /\ n \in Nat /\ m <= n + 1 /\ n <= Len(v) /\ n + 1 - m = l /\ m - 1 = k
  BY <1>1, <1>4, <1>6
<1>9. IsSeq(f) /\ Len(f) = n + 1 - m /\ \A i \in 1..(n + 1 - m) : f[i] = v[m - 1 + i]
  BY <1>6, <1>7, <1>8, PartFacts
<1>10. \A i \in 1..l : k + i \in 1..(k + l)
  OBVIOUS
<1>11. Len(f) = l /\ \A i \in 1..l : f[i] = b[i]
  <2>1. Len(f) = l /\ \A i \in 1..l : f[i] = v[k + i]
    BY <1>8, <1>9
  <2>2. \A i \in 1..l : v[k + i] = u[k + i]
    BY <1>6, <1>10
  <2> QED
    BY <1>3, <2>1, <2>2
<1>12. f = b
  BY <1>1, <1>4, <1>9, <1>11, SameEntries
<1> QED
  BY <1>7, <1>12 DEF PartIs

\* The key in a login.
LEMMA LoginKey ==
    ASSUME NEW a, NEW pub, NEW s, IsSeq(a) /\ IsSeq(pub) /\ IsSeq(s) /\ Len(a) = 1 /\ Len(pub) = 32
    PROVE  SubSeq((a \o pub) \o s, 2, 33) = pub
<1>1. PICK i, j : i = 2 /\ j = 33
  OBVIOUS
<1>2. i = Len(a) + 1 /\ j = Len(a) + Len(pub)
  BY <1>1
<1>3. PICK u : u = (a \o pub) \o s
  OBVIOUS
<1>4. Three(a, pub, s, i, j, u)
  BY <1>2, <1>3, Zenon DEF Three
<1>5. PartIs(u, i, j, pub)
  BY <1>4, Middle
<1> QED
  BY <1>1, <1>3, <1>5 DEF PartIs

\* What is made of what one node can open.
LEMMA OneOpened ==
    ASSUME NEW c, NEW t, NEW S, S = {[from |-> c, inner |-> t]}
    PROVE  /\ {[from |-> o.from, content |-> TxtMsg(o.inner)] : o \in S} = {[from |-> c, content |-> TxtMsg(t)]}
           /\ {[from |-> o.from, content |-> ReqMsg(o.inner)] : o \in S} = {[from |-> c, content |-> ReqMsg(t)]}
           /\ {[from |-> o.from, content |-> RoomPushMsg(o.inner)] : o \in S} = {[from |-> c, content |-> RoomPushMsg(t)]}
<1>1. [from |-> c, inner |-> t].from = c /\ [from |-> c, inner |-> t].inner = t
  OBVIOUS
<1>2. PICK e : e = [from |-> c, inner |-> t]
  BY Zenon
<1>3. e.from = c /\ e.inner = t /\ S = {e}
  BY <1>1, <1>2, Zenon
<1>4. {[from |-> o.from, content |-> TxtMsg(o.inner)] : o \in S} = {[from |-> e.from, content |-> TxtMsg(e.inner)]}
  BY <1>3, Zenon
<1>5. {[from |-> o.from, content |-> ReqMsg(o.inner)] : o \in S} = {[from |-> e.from, content |-> ReqMsg(e.inner)]}
  BY <1>3, Zenon
<1>6. {[from |-> o.from, content |-> RoomPushMsg(o.inner)] : o \in S}
          = {[from |-> e.from, content |-> RoomPushMsg(e.inner)]}
  BY <1>3, Zenon
<1> QED
  BY <1>3, <1>4, <1>5, <1>6, Zenon

\* A text of a client.
LEMMA TxtUnderstood ==
    ASSUME NEW m \in Messages, m.kind = "txt", NEW p, p.payload = Payload(m)
    PROVE  Understood(m, Content(m, p))
<1>1. PICK inner : inner = TextThroughEnd(m.ts, m.attempt, m.text, m.type)
  OBVIOUS
<1>2. PICK load : load = p.payload /\ load = Datagram(Room, Client, inner)
  BY <1>1 DEF Payload
<1>3. IsSeq(inner) /\ inner # <<>>
  BY <1>1, MessageFacts, PlaintextsAreSeqs, PlaintextsNotEmpty
<1>4. PICK t : t = Padded(inner) /\ Ends(t, inner)
  BY <1>3, PaddedFacts
<1>5. Opened(load, 6) = {[from |-> Client, inner |-> t]}
  <2>1. 6 \in 0..16
    OBVIOUS
  <2> QED
    BY <1>2, <1>3, <1>4, <2>1, RoomOpens
<1>6. PICK r \in Seq(Letter) :
        /\ Clean(m.text) => r = m.text
        /\ TxtMsg(t) = [ts |-> m.ts, attempt |-> m.attempt % 4, type |-> m.type, text |-> r]
  <2>1. Time(m.ts) /\ m.attempt \in Nat /\ m.type \in 0..63 /\ m.text \in Seq(0..255)
    BY MessageFacts
  <2>2. Ends(t, TextThroughEnd(m.ts, m.attempt, m.text, m.type))
    BY <1>1, <1>4
  <2>3. TextAs(t, m.ts, m.attempt, m.type, m.text)
    BY <2>1, <2>2, TextRead, Zenon
  <2> QED
    BY <2>3 DEF TextAs
<1>7. Content(m, p) = {[from |-> o.from, content |-> TxtMsg(o.inner)] : o \in Opened(load, 6)}
  BY <1>2 DEF Content
<1>8. Content(m, p) = {[from |-> Client, content |-> TxtMsg(t)]}
  BY <1>5, <1>7, OneOpened, Zenon
<1>9. MeaningAs(m, r) = TxtMsg(t) /\ Sender(m) = Client
  BY <1>6 DEF MeaningAs, Sender
<1> QED
  BY <1>6, <1>8, <1>9, MessageFacts DEF Understood

\* An echo.
LEMMA EchoUnderstood ==
    ASSUME NEW m \in Messages, m.kind = "echo", NEW p, p.payload = Payload(m)
    PROVE  Understood(m, Content(m, p))
<1>1. PICK w : w = TextThroughEnd(m.ts, m.attempt, m.text, m.type)
  OBVIOUS
<1>2. PICK inner : inner = ComposePlaintext(m.ts, m.attempt, m.text, 0)
  OBVIOUS
<1>3. inner = w \o <<0>>
  BY <1>1, <1>2, MessageFacts DEF ComposePlaintext
<1>4. PICK load : load = p.payload /\ load = Datagram(Client, Room, inner)
  BY <1>2 DEF Payload
<1>5. IsSeq(inner) /\ inner # <<>> /\ IsSeq(w)
  BY <1>1, <1>2, MessageFacts, PlaintextsAreSeqs, PlaintextsNotEmpty
<1>6. PICK t : t = Padded(inner) /\ Ends(t, w)
  BY <1>3, <1>5, PaddedFacts, NulEnds
<1>7. OpenedBy(SharedSecret(Room, Client), Room, load, 6) = {[from |-> Room, inner |-> t]}
  <2>1. 6 \in 0..16
    OBVIOUS
  <2> QED
    BY <1>4, <1>5, <1>6, <2>1, ClientOpens
<1>8. PICK r \in Seq(Letter) :
        /\ Clean(m.text) => r = m.text
        /\ TxtMsg(t) = [ts |-> m.ts, attempt |-> m.attempt % 4, type |-> m.type, text |-> r]
  <2>1. Time(m.ts) /\ m.attempt \in Nat /\ m.type \in 0..63 /\ m.text \in Seq(0..255)
    BY MessageFacts
  <2>2. Ends(t, TextThroughEnd(m.ts, m.attempt, m.text, m.type))
    BY <1>1, <1>6
  <2>3. TextAs(t, m.ts, m.attempt, m.type, m.text)
    BY <2>1, <2>2, TextRead, Zenon
  <2> QED
    BY <2>3 DEF TextAs
<1>9. Content(m, p) = {[from |-> o.from, content |-> TxtMsg(o.inner)] :
                           o \in OpenedBy(SharedSecret(Room, Client), Room, load, 6)}
  BY <1>4 DEF Content
<1>10. Content(m, p) = {[from |-> Room, content |-> TxtMsg(t)]}
  BY <1>7, <1>9, OneOpened, Zenon
<1>11. MeaningAs(m, r) = TxtMsg(t) /\ Sender(m) = Room
  BY <1>8 DEF MeaningAs, Sender
<1> QED
  BY <1>8, <1>10, <1>11, MessageFacts DEF Understood

\* A group message, which the channel's key opens.
LEMMA GrpUnderstood ==
    ASSUME NEW m \in Messages, m.kind = "grp", NEW p, p.payload = Payload(m)
    PROVE  Understood(m, Content(m, p))
<1>1. PICK w : w = TextThroughEnd(m.ts, m.attempt, m.text, m.type)
  OBVIOUS
<1>2. PICK inner : inner = ComposePlaintext(m.ts, m.attempt, m.text, m.type)
  OBVIOUS
<1>3. inner = w \o <<0>>
  BY <1>1, <1>2 DEF ComposePlaintext
<1>4. PICK x, y, key, load : /\ x = Channel /\ y = Address(Client) /\ key = {Channel} /\ load = p.payload
                             /\ load = <<x, y>> \o EncryptThenMac(key, inner)
  BY <1>2 DEF Payload
<1>5. IsSeq(inner) /\ inner # <<>> /\ IsSeq(w)
  BY <1>1, <1>2, MessageFacts, PlaintextsAreSeqs, PlaintextsNotEmpty
<1>6. PICK t : t = Padded(inner) /\ Ends(t, w)
  BY <1>3, <1>5, PaddedFacts, NulEnds
<1>7. load[2] = y /\ OpenedBy(key, y, load, 6) = {[from |-> y, inner |-> t]}
  <2>1. 6 \in 0..16
    OBVIOUS
  <2>2. PICK least \in 0..16 : least = 6
    BY <2>1, Zenon
  <2>4. PICK q : /\ q = <<x, y>> \o EncryptThenMac(key, inner)
                 /\ q[1] = x /\ q[2] = y /\ Len(q) > 1 /\ OpensAs(q, 2, key, inner, least)
    BY <1>5, PairOpens, Zenon
  <2>3. load[2] = y /\ OpensAs(load, 2, key, inner, 6)
    BY <1>4, <2>2, <2>4, Zenon
  <2> QED
    BY <1>6, <2>3 DEF OpensAs, OpenedBy
<1>8. PICK r \in Seq(Letter) :
        /\ Clean(m.text) => r = m.text
        /\ TxtMsg(t) = [ts |-> m.ts, attempt |-> m.attempt % 4, type |-> m.type, text |-> r]
  <2>1. Time(m.ts) /\ m.attempt \in Nat /\ m.type \in 0..63 /\ m.text \in Seq(0..255)
    BY MessageFacts
  <2>2. Ends(t, TextThroughEnd(m.ts, m.attempt, m.text, m.type))
    BY <1>1, <1>6
  <2>3. TextAs(t, m.ts, m.attempt, m.type, m.text)
    BY <2>1, <2>2, TextRead, Zenon
  <2> QED
    BY <2>3 DEF TextAs
<1>9. Content(m, p) = {[from |-> o.from, content |-> TxtMsg(o.inner)] : o \in OpenedBy(key, y, load, 6)}
  BY <1>4, <1>7 DEF Content
<1>10. Content(m, p) = {[from |-> y, content |-> TxtMsg(t)]}
  BY <1>7, <1>9, OneOpened, Zenon
<1>11. MeaningAs(m, r) = TxtMsg(t) /\ Sender(m) = y
  BY <1>4, <1>8 DEF MeaningAs, Sender
<1> QED
  BY <1>8, <1>10, <1>11, MessageFacts DEF Understood

\* A push of the room.
LEMMA PushUnderstood ==
    ASSUME NEW m \in Messages, m.kind = "push", NEW p, p.payload = Payload(m)
    PROVE  Understood(m, Content(m, p))
<1>1. PICK inner : inner = RoomPushInner(m.ts, m.attempt, Author, m.text)
  OBVIOUS
<1>2. PICK load : load = p.payload /\ load = Datagram(Client, Room, inner)
  BY <1>1 DEF Payload
<1>3. IsSeq(inner) /\ inner # <<>>
  BY <1>1, MessageFacts, PlaintextsAreSeqs, PlaintextsNotEmpty
<1>4. PICK t : t = Padded(inner) /\ Ends(t, inner)
  BY <1>3, PaddedFacts
<1>5. OpenedBy(SharedSecret(Room, Client), Room, load, 9) = {[from |-> Room, inner |-> t]}
  <2>1. 9 \in 0..16
    OBVIOUS
  <2> QED
    BY <1>2, <1>3, <1>4, <2>1, ClientOpens
<1>6. PICK r \in Seq(Letter) :
        /\ Clean(m.text) => r = m.text
        /\ RoomPushMsg(t) = [ts |-> m.ts, attempt |-> m.attempt % 4, author |-> SubSeq(Pub(Author), 1, 4), text |-> r]
  <2>1. Time(m.ts) /\ m.attempt \in Nat /\ m.text \in Seq(0..255)
    BY MessageFacts
  <2>2. Ends(t, RoomPushInner(m.ts, m.attempt, Author, m.text))
    BY <1>1, <1>4
  <2>3. PushAs(t, m.ts, m.attempt, Author, m.text)
    BY <2>1, <2>2, PushRead, Zenon
  <2> QED
    BY <2>3 DEF PushAs
<1>7. Content(m, p) = {[from |-> o.from, content |-> RoomPushMsg(o.inner)] :
                           o \in OpenedBy(SharedSecret(Room, Client), Room, load, 9)}
  BY <1>2 DEF Content
<1>8. Content(m, p) = {[from |-> Room, content |-> RoomPushMsg(t)]}
  BY <1>5, <1>7, OneOpened, Zenon
<1>9. MeaningAs(m, r) = RoomPushMsg(t) /\ Sender(m) = Room
  BY <1>6 DEF MeaningAs, Sender
<1> QED
  BY <1>6, <1>8, <1>9, MessageFacts DEF Understood

\* A request.
LEMMA ReqUnderstood ==
    ASSUME NEW m \in Messages, m.kind = "req", NEW p, p.payload = Payload(m)
    PROVE  Understood(m, Content(m, p))
<1>1. PICK inner : inner = ToBytes(m.ts, 4) \o m.text
  OBVIOUS
<1>2. PICK load : load = p.payload /\ load = Datagram(Room, Client, inner)
  BY <1>1 DEF Payload
<1>3. IsSeq(inner) /\ inner # <<>>
  BY <1>1, MessageFacts, PlaintextsAreSeqs, PlaintextsNotEmpty
<1>4. PICK t : t = Padded(inner) /\ Ends(t, inner)
  BY <1>3, PaddedFacts
<1>5. Opened(load, 5) = {[from |-> Client, inner |-> t]}
  <2>1. 5 \in 0..16
    OBVIOUS
  <2> QED
    BY <1>2, <1>3, <1>4, <2>1, RoomOpens
<1>6. PICK r : (Clean(m.text) => r = m.text) /\ ReqMsg(t) = [ts |-> m.ts, data |-> r]
  <2>1. Time(m.ts) /\ m.text \in Seq(0..255)
    BY MessageFacts
  <2>2. Ends(t, ToBytes(m.ts, 4) \o m.text)
    BY <1>1, <1>4
  <2>3. ReqAs(t, m.ts, m.text)
    BY <2>1, <2>2, ReqRead, Zenon
  <2> QED
    BY <2>3 DEF ReqAs
<1>7. Content(m, p) = {[from |-> o.from, content |-> ReqMsg(o.inner)] : o \in Opened(load, 5)}
  BY <1>2 DEF Content
<1>8. Content(m, p) = {[from |-> Client, content |-> ReqMsg(t)]}
  BY <1>5, <1>7, OneOpened, Zenon
<1>9. MeaningAs(m, r) = ReqMsg(t) /\ Sender(m) = Client
  BY <1>6 DEF MeaningAs, Sender
<1> QED
  BY <1>6, <1>8, <1>9, MessageFacts DEF Understood

\* A login: the key is in the clear, and only the client's opens it.
LEMMA LoginUnderstood ==
    ASSUME NEW m \in Messages, m.kind = "login", NEW p, p.payload = Payload(m)
    PROVE  Understood(m, Content(m, p))
<1>1. PICK inner : inner = ToBytes(m.ts, 4) \o ToBytes(m.ts, 4) \o m.text \o <<0>>
  OBVIOUS
<1>2. PICK a, key, pub : /\ a = <<Address(Room)>> /\ key = SharedSecret(Room, Client) /\ pub = Pub(Client)
                         /\ IsSeq(a) /\ IsSeq(pub) /\ Len(pub) = 32
  <2>1. IsSeq(<<Address(Room)>>)
    BY SmallSeqs
  <2>2. IsSeq(Pub(Client)) /\ Len(Pub(Client)) = 32
    BY PubIsSeq
  <2> QED
    BY <2>1, <2>2, Zenon
<1>3. Len(a) = 1 /\ a[1] = Address(Room)
  BY <1>2
<1>4. PICK head : head = a \o pub
  OBVIOUS
<1>5. IsSeq(head) /\ Len(head) = 33 /\ head[1] = Address(Room) /\ \A i \in 1..32 : head[1 + i] = pub[i]
  <2>1. Joins(a, pub, head)
    BY <1>2, <1>4, JoinIsSeq
  <2>2. 1 + 32 = 33 /\ 1 \in 1..1
    OBVIOUS
  <2> QED
    BY <1>2, <1>3, <2>1, <2>2 DEF Joins
<1>6. PICK load : load = p.payload /\ load = head \o EncryptThenMac(key, inner)
  BY <1>1, <1>2, <1>4 DEF Payload, AnonLogin
<1>7. IsSeq(inner) /\ inner # <<>>
  BY <1>1, MessageFacts, PlaintextsAreSeqs, PlaintextsNotEmpty
<1>8. PICK t : t = Padded(inner) /\ Ends(t, inner)
  BY <1>7, PaddedFacts
<1>9. Inner(load, 33) = t /\ \A k : Readable(load, 33, k, 8) <=> k = key
  <2>1. /\ 8 \in 0..16 /\ IsSeq(inner) /\ inner # <<>> /\ IsSeq(head) /\ 33 = Len(head)
        /\ load = head \o EncryptThenMac(key, inner)
    BY <1>5, <1>6, <1>7
  <2>2. OpensAs(load, 33, key, inner, 8)
    BY <2>1, SealedOpens, Zenon
  <2> QED
    BY <1>8, <2>2 DEF OpensAs
<1>10. /\ load # <<>> /\ load[1] = Address(Room) /\ Len(load) > 33 /\ SubSeq(load, 2, 33) = pub
  <2>1. PICK s : s = EncryptThenMac(key, inner) /\ IsSeq(s) /\ Len(s) \in Nat /\ Len(s) > 0
    <3>1. PICK s : s = EncryptThenMac(key, inner) /\ IsSeq(s) /\ Len(s) = 2 + Len(Padded(inner))
      BY <1>7, SealOpens
    <3>2. Len(Padded(inner)) \in Nat
      BY <1>8, LengthOf DEF Ends
    <3> QED
      BY <3>1, <3>2
  <2>2. Joins(head, s, load)
    BY <1>5, <1>6, <2>1, JoinIsSeq
  <2>3. IsSeq(load) /\ Len(load) = 33 + Len(s) /\ \A i \in 1..33 : load[i] = head[i]
    BY <1>5, <2>2 DEF Joins
  <2>4. load[1] = Address(Room) /\ Len(load) > 33
    BY <1>5, <2>1, <2>3
  <2>5. load # <<>>
    BY <2>1, <2>3, LengthOf
  <2>6. SubSeq(load, 2, 33) = pub
    <3>2. load = (a \o pub) \o s
      BY <1>4, <1>6, <2>1
    <3>3. IsSeq(a) /\ IsSeq(pub) /\ IsSeq(s) /\ Len(a) = 1 /\ Len(pub) = 32
      BY <1>2, <1>3, <2>1
    <3> QED
      BY <3>2, <3>3, LoginKey
  <2> QED
    BY <2>4, <2>5, <2>6
<1> DEFINE D == {d \in Sessions : /\ load # <<>> /\ load[1] = Address(Room)
                                  /\ Len(load) > 33 /\ SubSeq(load, 2, 33) = Pub(d)
                                  /\ Readable(load, 33, SharedSecret(Room, d), 8)}
<1>11. Client \in D
  BY <1>2, <1>9, <1>10 DEF Sessions
<1>12. ASSUME NEW d \in D PROVE d = Client
  <2>1. d \in {Client, Neighbour}
    BY DEF Sessions
  <2>2. SharedSecret(Room, d) = SharedSecret(Room, Client)
    BY <1>2, <1>9
  <2> QED
    BY <2>1, <2>2, Nodes
<1>13. OpenedLogin(load) = {[from |-> c, content |-> LoginReq(Inner(load, 33))] : c \in D}
  BY DEF OpenedLogin
<1> HIDE DEF D
<1>14. D = {Client}
  BY <1>11, <1>12
<1>15. Content(m, p) = {[from |-> Client, content |-> LoginReq(t)]}
  <2>1. Content(m, p) = OpenedLogin(load)
    BY <1>6 DEF Content
  <2> QED
    BY <1>9, <1>13, <1>14, <2>1
<1>16. PICK r \in Seq(Letter) : /\ Clean(m.text) => r = m.text
                                /\ LoginReq(t) = [ts |-> m.ts, since |-> m.ts, password |-> r]
  <2>1. Time(m.ts) /\ m.text \in Seq(0..255)
    BY MessageFacts
  <2>2. Ends(t, ToBytes(m.ts, 4) \o ToBytes(m.ts, 4) \o m.text \o <<0>>)
    BY <1>1, <1>8
  <2>3. LoginAs(t, m.ts, m.text)
    BY <2>1, <2>2, LoginRead, Zenon
  <2> QED
    BY <2>3 DEF LoginAs
<1>17. MeaningAs(m, r) = LoginReq(t) /\ Sender(m) = Client
  BY <1>16 DEF MeaningAs, Sender
<1> QED
  BY <1>15, <1>16, <1>17, MessageFacts DEF Understood

-----------------------------------------------------------------------------
(* Adverts *)

\* A part of a sequence that can be taken out, and what it is.
PartOf(s, m, n)      == IsSeq(s) /\ m \in Nat \ {0} /\ n \in Nat /\ m <= n + 1 /\ n <= Len(s)
PartHas(s, m, n, u)  == IsSeq(u) /\ Len(u) = n + 1 - m /\ \A i \in 1..(n + 1 - m) : u[i] = s[m - 1 + i]

\* What SubSeq takes out.
LEMMA PartTaken == ASSUME NEW s, NEW m, NEW n, PartOf(s, m, n) PROVE PartHas(s, m, n, SubSeq(s, m, n))
<1>1. IsSeq(s) /\ m \in Nat \ {0} /\ n \in Nat /\ m <= n + 1 /\ n <= Len(s)
  BY DEF PartOf
<1>2. /\ IsSeq(SubSeq(s, m, n)) /\ Len(SubSeq(s, m, n)) = n + 1 - m
      /\ \A i \in 1..(n + 1 - m) : SubSeq(s, m, n)[i] = s[m - 1 + i]
  BY <1>1, PartFacts
<1> QED
  BY <1>2, Zenon DEF PartHas

\* s is in d, after k entries.
At(d, k, s) == k \in Nat /\ Len(s) \in Nat /\ k + Len(s) <= Len(d) /\ \A i \in 1..Len(s) : d[k + i] = s[i]

\* What is in a sequence stays where it is when another follows, and that
\* one comes after it.
LEMMA AtJoin ==
    ASSUME NEW a, NEW b, IsSeq(a), IsSeq(b)
    PROVE  At(a \o b, Len(a), b) /\ \A k, s : At(a, k, s) => At(a \o b, k, s)
<1>1. PICK u : u = a \o b /\ Joins(a, b, u)
  BY JoinIsSeq
<1>2. At(u, Len(a), b)
  BY <1>1 DEF Joins, At
<1>3. ASSUME NEW k, NEW s, At(a, k, s) PROVE At(u, k, s)
  <2>1. ASSUME NEW i \in 1..Len(s) PROVE u[k + i] = s[i]
    <3>1. k + i \in 1..Len(a)
      BY <1>1, <1>3 DEF At, Joins
    <3> QED
      BY <1>1, <1>3, <3>1 DEF At, Joins
  <2> QED
    BY <1>1, <1>3, <2>1 DEF At, Joins
<1> QED
  BY <1>1, <1>2, <1>3

\* From m to n there is s, which comes after k entries.
TakesOut(d, k, s, m, n) == IsSeq(d) /\ IsSeq(s) /\ At(d, k, s) /\ m = k + 1 /\ n = k + Len(s)

\* What is in a sequence can be taken out.
LEMMA AtPart ==
    ASSUME NEW d, NEW k, NEW s, NEW m, NEW n, TakesOut(d, k, s, m, n)
    PROVE  PartIs(d, m, n, s)
<1>1. IsSeq(d) /\ IsSeq(s) /\ k \in Nat /\ Len(s) \in Nat /\ k + Len(s) <= Len(d) /\ m = k + 1 /\ n = k + Len(s)
  BY DEF TakesOut, At
<1>2. \A i \in 1..Len(s) : d[k + i] = s[i]
  BY DEF TakesOut, At
<1>3. PartOf(d, m, n) /\ n + 1 - m = Len(s) /\ m - 1 = k
  BY <1>1 DEF PartOf
<1>4. PICK u : u = SubSeq(d, m, n) /\ PartHas(d, m, n, u)
  BY <1>3, PartTaken
<1>5. IsSeq(u) /\ Len(u) = Len(s) /\ \A i \in 1..Len(s) : u[i] = d[k + i]
  BY <1>3, <1>4 DEF PartHas
<1>6. \A i \in 1..Len(u) : u[i] = s[i]
  BY <1>2, <1>5
<1>7. u = s
  BY <1>1, <1>5, <1>6, SameEntries
<1> QED
  BY <1>4, <1>7 DEF PartIs

\* What ends a sequence.
TailOut(d, k, s, m) == IsSeq(d) /\ IsSeq(s) /\ At(d, k, s) /\ Len(d) = k + Len(s) /\ m = k + 1
TailIs(d, m, s)     == From(d, m) = s

\* What ends a sequence is what follows the rest.
LEMMA TailAt == ASSUME NEW d, NEW k, NEW s, NEW m, TailOut(d, k, s, m) PROVE TailIs(d, m, s)
<1>1. TakesOut(d, k, s, m, Len(d))
  BY DEF TailOut, TakesOut
<1>2. PartIs(d, m, Len(d), s)
  BY <1>1, AtPart
<1> QED
  BY <1>2 DEF PartIs, TailIs, From

\* The first byte of an advert's app data and the parts that follow it.
SixParts(d, h, L, M, F, G, N) ==
    /\ IsSeq(d) /\ Len(d) = 1 + Len(L) + Len(M) + Len(F) + Len(G) + Len(N)
    /\ d[1] = h
    /\ At(d, 1, L) /\ At(d, 1 + Len(L), M) /\ At(d, 1 + Len(L) + Len(M), F)
    /\ At(d, 1 + Len(L) + Len(M) + Len(F), G) /\ At(d, 1 + Len(L) + Len(M) + Len(F) + Len(G), N)

\* Where the parts of app data are.
LEMMA SixPlaced ==
    ASSUME NEW h, NEW L, NEW M, NEW F, NEW G, NEW N, IsSeq(L), IsSeq(M), IsSeq(F), IsSeq(G), IsSeq(N)
    PROVE  SixParts(<<h>> \o L \o M \o F \o G \o N, h, L, M, F, G, N)
<1>1. PICK d0 : d0 = <<h>> /\ IsSeq(d0) /\ Len(d0) = 1 /\ d0[1] = h
  <2>1. IsSeq(<<h>>) /\ Len(<<h>>) = 1 /\ <<h>>[1] = h
    BY SmallSeqs
  <2> QED
    BY <2>1, Zenon
<1>2. PICK d1 : d1 = d0 \o L
  OBVIOUS
<1>3. IsSeq(d1) /\ Len(d1) = 1 + Len(L) /\ d1[1] = h /\ At(d1, 1, L) /\ Len(L) \in Nat
  <2>1. Joins(d0, L, d1)
    BY <1>1, <1>2, JoinIsSeq
  <2>2. At(d1, Len(d0), L)
    BY <1>1, <1>2, AtJoin
  <2> QED
    BY <1>1, <2>1, <2>2 DEF Joins
<1>4. PICK d2 : d2 = d1 \o M
  OBVIOUS
<1>5. /\ IsSeq(d2) /\ Len(d2) = 1 + Len(L) + Len(M) /\ d2[1] = h /\ Len(M) \in Nat
      /\ At(d2, 1, L) /\ At(d2, 1 + Len(L), M)
  <2>1. Joins(d1, M, d2)
    BY <1>3, <1>4, JoinIsSeq
  <2>2. At(d2, Len(d1), M) /\ At(d2, 1, L)
    BY <1>3, <1>4, AtJoin
  <2> QED
    BY <1>3, <2>1, <2>2 DEF Joins
<1>6. PICK d3 : d3 = d2 \o F
  OBVIOUS
<1>7. /\ IsSeq(d3) /\ Len(d3) = 1 + Len(L) + Len(M) + Len(F) /\ d3[1] = h /\ Len(F) \in Nat
      /\ At(d3, 1, L) /\ At(d3, 1 + Len(L), M) /\ At(d3, 1 + Len(L) + Len(M), F)
  <2>1. Joins(d2, F, d3)
    BY <1>5, <1>6, JoinIsSeq
  <2>2. At(d3, Len(d2), F) /\ At(d3, 1, L) /\ At(d3, 1 + Len(L), M)
    BY <1>5, <1>6, AtJoin
  <2> QED
    BY <1>3, <1>5, <2>1, <2>2 DEF Joins
<1>8. PICK d4 : d4 = d3 \o G
  OBVIOUS
<1>9. /\ IsSeq(d4) /\ Len(d4) = 1 + Len(L) + Len(M) + Len(F) + Len(G) /\ d4[1] = h /\ Len(G) \in Nat
      /\ At(d4, 1, L) /\ At(d4, 1 + Len(L), M) /\ At(d4, 1 + Len(L) + Len(M), F)
      /\ At(d4, 1 + Len(L) + Len(M) + Len(F), G)
  <2>1. Joins(d3, G, d4)
    BY <1>7, <1>8, JoinIsSeq
  <2>2. At(d4, Len(d3), G) /\ At(d4, 1, L) /\ At(d4, 1 + Len(L), M) /\ At(d4, 1 + Len(L) + Len(M), F)
    BY <1>7, <1>8, AtJoin
  <2> QED
    BY <1>3, <1>5, <1>7, <2>1, <2>2 DEF Joins
<1>10. PICK d5 : d5 = d4 \o N
  OBVIOUS
<1>11. SixParts(d5, h, L, M, F, G, N)
  <2>1. Joins(d4, N, d5)
    BY <1>9, <1>10, JoinIsSeq
  <2>2. /\ At(d5, Len(d4), N) /\ At(d5, 1, L) /\ At(d5, 1 + Len(L), M) /\ At(d5, 1 + Len(L) + Len(M), F)
        /\ At(d5, 1 + Len(L) + Len(M) + Len(F), G)
    BY <1>9, <1>10, AtJoin
  <2>3. IsSeq(d5) /\ Len(d5) = Len(d4) + Len(N) /\ d5[1] = h
    BY <1>3, <1>5, <1>7, <1>9, <2>1 DEF Joins
  <2> QED
    BY <1>9, <2>2, <2>3 DEF SixParts
<1> QED
  BY <1>1, <1>2, <1>4, <1>6, <1>8, <1>10, <1>11

\* The flags and the type that are in a byte.
Flags(t, p, f, g, n)       == t \in 0..15 /\ p \in {0, 16} /\ f \in {0, 32} /\ g \in {0, 64} /\ n \in {0, 128}
HasBits(h, t, p, f, g, n) ==
    /\ h % 16 = t
    /\ (h \div 16) % 2 = 1 <=> p # 0
    /\ (h \div 32) % 2 = 1 <=> f # 0
    /\ (h \div 64) % 2 = 1 <=> g # 0
    /\ (h \div 128) % 2 = 1 <=> n # 0

\* The four flags and the type of an advert in one byte.
LEMMA FlagBits ==
    ASSUME NEW t, NEW p, NEW f, NEW g, NEW n, Flags(t, p, f, g, n)
    PROVE  HasBits((t % 16) + p + f + g + n, t, p, f, g, n)
<1> PICK h : h = (t % 16) + p + f + g + n
  OBVIOUS
<1> USE DEF Flags
<1>1. t % 16 = t
  OBVIOUS
<1>2. h % 16 = t
  BY <1>1
<1>3. (h \div 16) % 2 = 1 <=> p # 0
  BY <1>1
<1>4. (h \div 32) % 2 = 1 <=> f # 0
  BY <1>1
<1>5. (h \div 64) % 2 = 1 <=> g # 0
  BY <1>1
<1>6. (h \div 128) % 2 = 1 <=> n # 0
  BY <1>1
<1> QED
  BY <1>2, <1>3, <1>4, <1>5, <1>6, Zenon DEF HasBits

\* An optional field is there or not.
LEMMA OptionalFacts ==
    ASSUME NEW o, IsSeq(o), Len(o) <= 1, NEW n \in {2, 4}
    PROVE  /\ IsSeq(Optional(o, n))
           /\ o = <<>> => Len(Optional(o, n)) = 0
           /\ o # <<>> => Optional(o, n) = ToBytes(o[1], n) /\ Len(Optional(o, n)) = n /\ o = <<o[1]>>
<1>1. Len(o) \in Nat /\ (o = <<>> <=> Len(o) = 0)
  BY LengthOf
<1>2. IsSeq(ToBytes(o[1], n)) /\ Len(ToBytes(o[1], n)) = n
  <2>1. PICK f : f = ToBytes(o[1], n) /\ f = [i \in 1..n |-> f[i]]
    BY DEF ToBytes
  <2> QED
    BY <2>1, FunIsSeq
<1>3. CASE o = <<>>
  BY <1>3, SmallSeqs DEF Optional
<1>4. CASE o # <<>>
  <2>1. Optional(o, n) = ToBytes(o[1], n)
    BY <1>4 DEF Optional
  <2>2. Len(o) = 1
    <3>1. Len(o) # 0
      BY <1>1, <1>4, Zenon
    <3>2. \A l \in Nat : l # 0 /\ l <= 1 => l = 1
      OBVIOUS
    <3> QED
      BY <1>1, <3>1, <3>2, Zenon
  <2>3. PICK x : x = o[1]
    OBVIOUS
  <2>4. PICK q : q = <<x>> /\ IsSeq(q) /\ Len(q) = 1 /\ q[1] = x
    <3>1. IsSeq(<<x>>) /\ Len(<<x>>) = 1 /\ <<x>>[1] = x
      BY SmallSeqs
    <3> QED
      BY <3>1, Zenon
  <2>5. \A i \in 1..Len(o) : o[i] = q[i]
    BY <2>2, <2>3, <2>4
  <2>6. o = q
    BY <2>2, <2>4, <2>5, SameEntries
  <2> QED
    BY <1>2, <1>4, <2>1, <2>3, <2>4, <2>6
<1> QED
  BY <1>3, <1>4

\* What fits into two bytes.
Feature == {c \in Nat : c \div 256 \in 0..255}

\* A feature travels in two bytes.
LEMMA FeatureRoundTrip ==
    ASSUME NEW c \in Feature
    PROVE  Len(ToBytes(c, 2)) = 2 /\ FromBytes2(ToBytes(c, 2)) = c
<1>1. c \in Nat /\ c \div 256 \in 0..255
  BY DEF Feature
<1>2. PICK b : b = ToBytes(c, 2) /\ b = [k \in 1..2 |-> (c \div 256^(k - 1)) % 256]
  BY DEF ToBytes
<1>3. Len(b) = 2
  <2>1. b = [i \in 1..2 |-> b[i]] /\ 2 \in Nat
    BY <1>2
  <2> QED
    BY <2>1, FunIsSeq
<1>4. b[1] = (c \div 256^(1 - 1)) % 256 /\ b[2] = (c \div 256^(2 - 1)) % 256
  BY <1>2
<1>5. 256^0 = 1 /\ 256^1 = 256
  BY Powers
<1>6. 1 - 1 = 0 /\ 2 - 1 = 1 /\ c \div 1 = c
  BY <1>1
<1>7. b[1] = c % 256 /\ b[2] = (c \div 256) % 256
  BY <1>4, <1>5, <1>6
<1>8. \A y \in 0..255 : y % 256 = y
  BY SMT
<1>9. b[2] = c \div 256
  BY <1>1, <1>7, <1>8
<1>10. c = (c % 256) + 256 * (c \div 256)
  BY <1>1
<1> QED
  BY <1>2, <1>3, <1>7, <1>9, <1>10 DEF FromBytes2

\* What the fields of app data are.
LEMMA AppFacts ==
    ASSUME NEW a \in Apps
    PROVE  /\ a.type \in 0..15 /\ a.name \in Seq(0..255) /\ IsSeq(a.name)
           /\ IsSeq(a.lat) /\ IsSeq(a.lon) /\ IsSeq(a.feat1) /\ IsSeq(a.feat2)
           /\ Len(a.lat) <= 1 /\ Len(a.lon) <= 1 /\ Len(a.feat1) <= 1 /\ Len(a.feat2) <= 1
           /\ a.lat # <<>> => a.lat[1] \in Int /\ a.lat[1] \div 256^3 \in (-128)..127
           /\ a.lon # <<>> => a.lon[1] \in Int /\ a.lon[1] \div 256^3 \in (-128)..127
           /\ a.feat1 # <<>> => a.feat1[1] \in Feature
           /\ a.feat2 # <<>> => a.feat2[1] \in Feature
           /\ a = [type |-> a.type, name |-> a.name, lat |-> a.lat, lon |-> a.lon, feat1 |-> a.feat1, feat2 |-> a.feat2]
<1>1. /\ a \in [type : 0..15, name : Seq(0..255), lat : Seq(Int), lon : Seq(Int), feat1 : Seq(Nat), feat2 : Seq(Nat)]
      /\ \A o \in {a.lat, a.lon} : Len(o) <= 1 /\ \A i \in DOMAIN o : o[i] \div 256^3 \in (-128)..127
      /\ \A o \in {a.feat1, a.feat2} : Len(o) <= 1 /\ \A i \in DOMAIN o : o[i] \div 256 \in 0..255
  BY Zenon DEF Apps
<1>2. /\ a.type \in 0..15 /\ a.name \in Seq(0..255) /\ a.lat \in Seq(Int) /\ a.lon \in Seq(Int)
      /\ a.feat1 \in Seq(Nat) /\ a.feat2 \in Seq(Nat)
      /\ a = [type |-> a.type, name |-> a.name, lat |-> a.lat, lon |-> a.lon, feat1 |-> a.feat1, feat2 |-> a.feat2]
  BY <1>1
<1>3. Len(a.lat) <= 1 /\ Len(a.lon) <= 1 /\ Len(a.feat1) <= 1 /\ Len(a.feat2) <= 1
  BY <1>1
<1>4. IsSeq(a.lat) /\ IsSeq(a.lon) /\ IsSeq(a.feat1) /\ IsSeq(a.feat2) /\ IsSeq(a.name)
  BY <1>2, SeqIsSeq
<1>5. ASSUME NEW o \in {a.lat, a.lon}, o # <<>> PROVE o[1] \in Int /\ o[1] \div 256^3 \in (-128)..127
  <2>1. o \in Seq(Int) /\ IsSeq(o)
    BY <1>2, <1>4
  <2>2. 1 \in DOMAIN o
    BY <1>5, <2>1, LengthOf
  <2> QED
    <3>1. o[1] \in Int
      BY <2>1, <2>2
    <3>2. \A i \in DOMAIN o : o[i] \div 256^3 \in (-128)..127
      <4>1. CASE o = a.lat
        <5>1. \A i \in DOMAIN a.lat : a.lat[i] \div 256^3 \in (-128)..127
          BY <1>1
        <5> QED
          BY <4>1, <5>1, Zenon
      <4>2. CASE o = a.lon
        <5>1. \A i \in DOMAIN a.lon : a.lon[i] \div 256^3 \in (-128)..127
          BY <1>1
        <5> QED
          BY <4>2, <5>1, Zenon
      <4> QED
        BY <1>5, <4>1, <4>2
    <3> QED
      BY <2>2, <3>1, <3>2, Zenon
<1>6. ASSUME NEW o \in {a.feat1, a.feat2}, o # <<>> PROVE o[1] \in Feature
  <2>1. o \in Seq(Nat) /\ IsSeq(o)
    BY <1>2, <1>4
  <2>2. 1 \in DOMAIN o
    BY <1>6, <2>1, LengthOf
  <2>3. o[1] \in Nat
    BY <2>1, <2>2
  <2>4. \A i \in DOMAIN o : o[i] \div 256 \in 0..255
    <3>1. CASE o = a.feat1
      <4>1. \A i \in DOMAIN a.feat1 : a.feat1[i] \div 256 \in 0..255
        BY <1>1
      <4> QED
        BY <3>1, <4>1, Zenon
    <3>2. CASE o = a.feat2
      BY <1>1, <3>2, Zenon
    <3> QED
      BY <1>6, <3>1, <3>2
  <2>5. o[1] \div 256 \in 0..255
    BY <2>2, <2>4, Zenon
  <2> QED
    BY <2>3, <2>5 DEF Feature
<1> QED
  BY <1>2, <1>3, <1>4, <1>5, <1>6

\* What the encoded app data looks like.
EncodedAs(d, a) ==
    /\ \E h : SixParts(d, h, Optional(a.lat, 4), Optional(a.lon, 4), Optional(a.feat1, 2), Optional(a.feat2, 2), a.name)
    /\ d[1] % 16 = a.type
    /\ HasFlag(d, 16) <=> a.lat # <<>>
    /\ HasFlag(d, 32) <=> a.feat1 # <<>>
    /\ HasFlag(d, 64) <=> a.feat2 # <<>>
    /\ HasFlag(d, 128) <=> a.name # <<>>

\* The first byte tells which parts follow.
LEMMA AppEncoded ==
    ASSUME NEW a \in Apps
    PROVE  EncodedAs(EncodeApp(a), a)
<1>1. PICK p, f, g, n : p = Flag(a.lat, 16) /\ f = Flag(a.feat1, 32) /\ g = Flag(a.feat2, 64) /\ n = Flag(a.name, 128)
  OBVIOUS
<1>2. /\ p \in {0, 16} /\ f \in {0, 32} /\ g \in {0, 64} /\ n \in {0, 128}
      /\ p # 0 <=> a.lat # <<>>
      /\ f # 0 <=> a.feat1 # <<>>
      /\ g # 0 <=> a.feat2 # <<>>
      /\ n # 0 <=> a.name # <<>>
  BY <1>1 DEF Flag
<1>3. PICK t \in 0..15 : t = a.type
  BY AppFacts
<1>4. PICK h : h = (t % 16) + p + f + g + n
  OBVIOUS
<1>5. /\ h % 16 = t
      /\ (h \div 16) % 2 = 1 <=> p # 0
      /\ (h \div 32) % 2 = 1 <=> f # 0
      /\ (h \div 64) % 2 = 1 <=> g # 0
      /\ (h \div 128) % 2 = 1 <=> n # 0
  <2>1. Flags(t, p, f, g, n)
    BY <1>2 DEF Flags
  <2>2. HasBits(h, t, p, f, g, n)
    BY <1>4, <2>1, FlagBits
  <2> QED
    BY <2>2, Zenon DEF HasBits
<1>6. PICK L, M, F, G, N : /\ L = Optional(a.lat, 4) /\ M = Optional(a.lon, 4)
                           /\ F = Optional(a.feat1, 2) /\ G = Optional(a.feat2, 2) /\ N = a.name
  OBVIOUS
<1>7. IsSeq(L) /\ IsSeq(M) /\ IsSeq(F) /\ IsSeq(G) /\ IsSeq(N)
  <2>1. 2 \in {2, 4} /\ 4 \in {2, 4}
    OBVIOUS
  <2> QED
    BY <1>6, <2>1, AppFacts, OptionalFacts
<1>8. PICK d : d = <<h>> \o L \o M \o F \o G \o N
  OBVIOUS
<1>9. SixParts(d, h, L, M, F, G, N)
  BY <1>7, <1>8, SixPlaced
<1>10. d = EncodeApp(a)
  BY <1>1, <1>3, <1>4, <1>6, <1>8, Zenon DEF EncodeApp
<1>11. d[1] = h
  BY <1>9 DEF SixParts
<1>12. EncodedAs(d, a)
  <2>1. \E x : SixParts(d, x, Optional(a.lat, 4), Optional(a.lon, 4), Optional(a.feat1, 2), Optional(a.feat2, 2), a.name)
    BY <1>6, <1>9, Zenon
  <2>2. /\ d[1] % 16 = a.type
        /\ (d[1] \div 16) % 2 = 1 <=> a.lat # <<>>
        /\ (d[1] \div 32) % 2 = 1 <=> a.feat1 # <<>>
        /\ (d[1] \div 64) % 2 = 1 <=> a.feat2 # <<>>
        /\ (d[1] \div 128) % 2 = 1 <=> a.name # <<>>
    BY <1>2, <1>3, <1>5, <1>11, Zenon
  <2> QED
    BY <2>1, <2>2, Zenon DEF EncodedAs, HasFlag
<1> QED
  BY <1>10, <1>12

\* Two bytes in a sequence are the number they were made of.
LEMMA CodeAt ==
    ASSUME NEW d, IsSeq(d), NEW c \in Feature, NEW k, At(d, k, ToBytes(c, 2)), NEW m, m = k + 1
    PROVE  FromBytes2(From(d, m)) = c
<1>1. PICK b : b = ToBytes(c, 2) /\ Len(b) = 2 /\ FromBytes2(b) = c
  BY FeatureRoundTrip
<1>2. k \in Nat /\ k + 2 <= Len(d) /\ d[k + 1] = b[1] /\ d[k + 2] = b[2]
  BY <1>1 DEF At
<1>3. Len(d) \in Nat
  BY LengthOf
<1>4. m \in Nat \ {0} /\ m <= Len(d) + 1 /\ 1 \in 1..(Len(d) + 1 - m) /\ 2 \in 1..(Len(d) + 1 - m)
      /\ m - 1 + 1 = k + 1 /\ m - 1 + 2 = k + 2
  BY <1>2, <1>3
<1>5. PICK u : u = From(d, m) /\ \A i \in 1..(Len(d) + 1 - m) : u[i] = d[m - 1 + i]
  <2>1. PartOf(d, m, Len(d))
    BY <1>3, <1>4 DEF PartOf
  <2>2. PartHas(d, m, Len(d), SubSeq(d, m, Len(d)))
    BY <2>1, PartTaken
  <2> QED
    BY <2>2, Zenon DEF PartHas, From
<1>6. u[1] = b[1] /\ u[2] = b[2]
  BY <1>2, <1>4, <1>5
<1> QED
  BY <1>1, <1>5, <1>6 DEF FromBytes2

\* Four bytes in a sequence are the coordinate they were made of.
CoordinateIs(d, m, n, x)     == Signed(SubSeq(d, m, n)) = x
CoordinateOut(d, k, x, m, n) ==
    /\ IsSeq(d) /\ x \in Int /\ x \div 256^3 \in (-128)..127
    /\ At(d, k, ToBytes(x, 4)) /\ m = k + 1 /\ n = k + 4

\* A coordinate is read where it was written.
LEMMA CoordinateAt ==
    ASSUME NEW d, NEW k, NEW x, NEW m, NEW n, CoordinateOut(d, k, x, m, n)
    PROVE  CoordinateIs(d, m, n, x)
<1>1. x \in Int /\ x \div 256^3 \in (-128)..127
  BY Zenon DEF CoordinateOut
<1>2. PICK b : b = ToBytes(x, 4) /\ IsSeq(b) /\ Len(b) = 4
  BY <1>1, FourBytes
<1>3. TakesOut(d, k, b, m, n)
  BY <1>2, Zenon DEF CoordinateOut, TakesOut
<1>4. PartIs(d, m, n, b)
  BY <1>3, AtPart
<1>5. Signed(ToBytes(x, 4)) = x
  BY <1>1, SignedRoundTrip
<1> QED
  BY <1>2, <1>4, <1>5, Zenon DEF PartIs, CoordinateIs

\* How app data is read.
AppAs(d, a) ==
    \E r \in Seq(Letter) : (Clean(a.name) => r = a.name) /\ DecodeApp(d) = [a EXCEPT !.name = r]

\* App data is read as it was written, up to a name that is not clean.
LEMMA AppRead ==
    ASSUME NEW a \in Apps, AppEncodable(a), NEW d, d = EncodeApp(a)
    PROVE  IsSeq(d) /\ AppDecodable(d) /\ AppAs(d, a)
<1>1. /\ d[1] % 16 = a.type
      /\ HasFlag(d, 16) <=> a.lat # <<>>
      /\ HasFlag(d, 32) <=> a.feat1 # <<>>
      /\ HasFlag(d, 64) <=> a.feat2 # <<>>
      /\ HasFlag(d, 128) <=> a.name # <<>>
  BY AppEncoded DEF EncodedAs
<1>2. PICK L, M, F, G, N : /\ L = Optional(a.lat, 4) /\ M = Optional(a.lon, 4)
                           /\ F = Optional(a.feat1, 2) /\ G = Optional(a.feat2, 2) /\ N = a.name
  OBVIOUS
<1>3. PICK h : SixParts(d, h, L, M, F, G, N)
  BY <1>2, AppEncoded DEF EncodedAs
<1>4. a.lat = <<>> <=> a.lon = <<>>
  BY DEF AppEncodable
<1>5. 2 \in {2, 4} /\ 4 \in {2, 4}
  OBVIOUS
<1>6. /\ IsSeq(L) /\ (a.lat = <<>> => Len(L) = 0)
      /\ a.lat # <<>> => L = ToBytes(a.lat[1], 4) /\ Len(L) = 4 /\ a.lat = <<a.lat[1]>>
  BY <1>2, <1>5, AppFacts, OptionalFacts
<1>7. /\ IsSeq(M) /\ (a.lon = <<>> => Len(M) = 0)
      /\ a.lon # <<>> => M = ToBytes(a.lon[1], 4) /\ Len(M) = 4 /\ a.lon = <<a.lon[1]>>
  BY <1>2, <1>5, AppFacts, OptionalFacts
<1>8. /\ IsSeq(F) /\ (a.feat1 = <<>> => Len(F) = 0)
      /\ a.feat1 # <<>> => F = ToBytes(a.feat1[1], 2) /\ Len(F) = 2 /\ a.feat1 = <<a.feat1[1]>>
  BY <1>2, <1>5, AppFacts, OptionalFacts
<1>9. /\ IsSeq(G) /\ (a.feat2 = <<>> => Len(G) = 0)
      /\ a.feat2 # <<>> => G = ToBytes(a.feat2[1], 2) /\ Len(G) = 2 /\ a.feat2 = <<a.feat2[1]>>
  BY <1>2, <1>5, AppFacts, OptionalFacts
<1>10. IsSeq(N) /\ Len(N) \in Nat
  BY <1>2, AppFacts, LengthOf
<1>11. Position(d) = Len(L) + Len(M) /\ Feature1(d) = Len(F) /\ Feature2(d) = Len(G)
  <2>1. Position(d) = Len(L) + Len(M)
    <3>1. CASE a.lat = <<>>
      <4>1. Position(d) = 0 /\ Len(L) = 0 /\ Len(M) = 0
        BY <1>1, <1>4, <1>6, <1>7, <3>1, Zenon DEF Position
      <4> QED
        BY <4>1
    <3>2. CASE a.lat # <<>>
      <4>1. Position(d) = 8 /\ Len(L) = 4 /\ Len(M) = 4
        BY <1>1, <1>4, <1>6, <1>7, <3>2, Zenon DEF Position
      <4> QED
        BY <4>1
    <3> QED
      BY <3>1, <3>2
  <2>2. Feature1(d) = Len(F)
    BY <1>1, <1>8, Zenon DEF Feature1
  <2>3. Feature2(d) = Len(G)
    BY <1>1, <1>9, Zenon DEF Feature2
  <2> QED
    BY <2>1, <2>2, <2>3
<1>12. Len(L) \in Nat /\ Len(M) \in Nat /\ Len(F) \in Nat /\ Len(G) \in Nat
  BY <1>6, <1>7, <1>8, <1>9, LengthOf
<1>13. IsSeq(d) /\ Len(d) = 1 + Len(L) + Len(M) + Len(F) + Len(G) + Len(N)
  BY <1>3 DEF SixParts
<1>14. NameAt(d) = 2 + Len(L) + Len(M) + Len(F) + Len(G)
  BY <1>11, <1>12 DEF NameAt
<1>15. AppDecodable(d)
  <2>1. d # <<>>
    BY <1>10, <1>12, <1>13, LengthOf
  <2> QED
    BY <1>10, <1>12, <1>13, <1>14, <2>1 DEF AppDecodable
<1>16. DecodeApp(d).lat = a.lat
  <2>1. CASE a.lat = <<>>
    BY <1>1, <2>1 DEF DecodeApp
  <2>2. CASE a.lat # <<>>
    <3>1. PICK x \in Int : x = a.lat[1] /\ x \div 256^3 \in (-128)..127
      BY <2>2, AppFacts
    <3>2. At(d, 1, ToBytes(x, 4))
      BY <1>3, <1>6, <2>2, <3>1 DEF SixParts
    <3>3. Signed(SubSeq(d, 2, 5)) = x
      <4>1. 2 = 1 + 1 /\ 5 = 1 + 4
        OBVIOUS
      <4>2. CoordinateOut(d, 1, x, 2, 5)
        BY <1>13, <3>1, <3>2, <4>1, Zenon DEF CoordinateOut
      <4>3. CoordinateIs(d, 2, 5, x)
        BY <4>2, CoordinateAt
      <4> QED
        BY <4>3 DEF CoordinateIs
    <3>4. DecodeApp(d).lat = <<Signed(SubSeq(d, 2, 5))>>
      BY <1>1, <2>2 DEF DecodeApp
    <3> QED
      BY <1>6, <2>2, <3>1, <3>3, <3>4, Zenon
  <2> QED
    BY <2>1, <2>2
<1>17. DecodeApp(d).lon = a.lon
  <2>1. CASE a.lon = <<>>
    BY <1>1, <1>4, <2>1 DEF DecodeApp
  <2>2. CASE a.lon # <<>>
    <3>1. PICK x \in Int : x = a.lon[1] /\ x \div 256^3 \in (-128)..127
      BY <2>2, AppFacts
    <3>2. At(d, 1 + Len(L), ToBytes(x, 4))
      BY <1>3, <1>7, <2>2, <3>1 DEF SixParts
    <3>3. 1 + Len(L) = 5
      <4>1. Len(L) = 4
        BY <1>4, <1>6, <2>2, Zenon
      <4> QED
        BY <4>1
    <3>4. At(d, 5, ToBytes(x, 4))
      BY <3>2, <3>3, Zenon
    <3>5. Signed(SubSeq(d, 6, 9)) = x
      <4>1. 6 = 5 + 1 /\ 9 = 5 + 4
        OBVIOUS
      <4>2. CoordinateOut(d, 5, x, 6, 9)
        BY <1>13, <3>1, <3>4, <4>1, Zenon DEF CoordinateOut
      <4>3. CoordinateIs(d, 6, 9, x)
        BY <4>2, CoordinateAt
      <4> QED
        BY <4>3 DEF CoordinateIs
    <3>6. DecodeApp(d).lon = <<Signed(SubSeq(d, 6, 9))>>
      BY <1>1, <1>4, <2>2 DEF DecodeApp
    <3> QED
      BY <1>7, <2>2, <3>1, <3>5, <3>6, Zenon
  <2> QED
    BY <2>1, <2>2
<1>18. DecodeApp(d).feat1 = a.feat1
  <2>1. CASE a.feat1 = <<>>
    BY <1>1, <2>1 DEF DecodeApp
  <2>2. CASE a.feat1 # <<>>
    <3>1. PICK c \in Feature : c = a.feat1[1]
      BY <2>2, AppFacts
    <3>2. PICK k : k = 1 + Len(L) + Len(M)
      OBVIOUS
    <3>3. At(d, k, ToBytes(c, 2))
      BY <1>3, <1>8, <2>2, <3>1, <3>2 DEF SixParts
    <3>4. PICK m : m = 2 + Position(d)
      OBVIOUS
    <3>5. m = k + 1
      BY <1>11, <1>12, <3>2, <3>4
    <3>6. FromBytes2(From(d, m)) = c
      BY <1>13, <3>3, <3>5, CodeAt
    <3>7. DecodeApp(d).feat1 = <<FromBytes2(From(d, 2 + Position(d)))>>
      BY <1>1, <2>2 DEF DecodeApp
    <3> QED
      BY <1>8, <2>2, <3>1, <3>4, <3>6, <3>7, Zenon
  <2> QED
    BY <2>1, <2>2
<1>19. DecodeApp(d).feat2 = a.feat2
  <2>1. CASE a.feat2 = <<>>
    BY <1>1, <2>1 DEF DecodeApp
  <2>2. CASE a.feat2 # <<>>
    <3>1. PICK c \in Feature : c = a.feat2[1]
      BY <2>2, AppFacts
    <3>2. PICK k : k = 1 + Len(L) + Len(M) + Len(F)
      OBVIOUS
    <3>3. At(d, k, ToBytes(c, 2))
      BY <1>3, <1>9, <2>2, <3>1, <3>2 DEF SixParts
    <3>4. PICK m : m = 2 + Position(d) + Feature1(d)
      OBVIOUS
    <3>5. m = k + 1
      BY <1>11, <1>12, <3>2, <3>4
    <3>6. FromBytes2(From(d, m)) = c
      BY <1>13, <3>3, <3>5, CodeAt
    <3>7. DecodeApp(d).feat2 = <<FromBytes2(From(d, 2 + Position(d) + Feature1(d)))>>
      BY <1>1, <2>2 DEF DecodeApp
    <3> QED
      BY <1>9, <2>2, <3>1, <3>4, <3>6, <3>7, Zenon
  <2> QED
    BY <2>1, <2>2
<1>20. PICK r \in Seq(Letter) : r = DecodeApp(d).name /\ (Clean(a.name) => r = a.name)
  <2>1. CASE a.name = <<>>
    <3>1. DecodeApp(d).name = <<>>
      BY <1>1, <2>1 DEF DecodeApp
    <3>2. <<>> \in Seq(Letter)
      OBVIOUS
    <3> QED
      BY <2>1, <3>1, <3>2, Zenon
  <2>2. CASE a.name # <<>>
    <3>1. PICK k : k = 1 + Len(L) + Len(M) + Len(F) + Len(G)
      OBVIOUS
    <3>2. At(d, k, N) /\ Len(d) = k + Len(N)
      BY <1>3, <1>13, <3>1 DEF SixParts
    <3>3. PICK m : m = NameAt(d) /\ m = k + 1
      BY <1>12, <1>14, <3>1
    <3>4. From(d, m) = N
      <4>1. TailOut(d, k, N, m)
        BY <1>10, <1>13, <3>2, <3>3, Zenon DEF TailOut
      <4>2. TailIs(d, m, N)
        BY <4>1, TailAt
      <4> QED
        BY <4>2 DEF TailIs
    <3>5. Ends(N, N)
      BY <1>10 DEF Ends
    <3>6. Str(UpToNul(N)) \in Seq(Letter) /\ (Clean(N) => Str(UpToNul(N)) = N)
      BY <1>2, <3>5, AppFacts, DecodedText
    <3>7. DecodeApp(d).name = Str(UpToNul(From(d, NameAt(d))))
      BY <1>1, <2>2 DEF DecodeApp
    <3>8. DecodeApp(d).name = Str(UpToNul(N))
      BY <3>3, <3>4, <3>7, Zenon
    <3> QED
      BY <1>2, <3>6, <3>8, Zenon
  <2> QED
    BY <2>1, <2>2
<1>21. DecodeApp(d).type = a.type
  BY <1>1 DEF DecodeApp
<1>22. PICK e : /\ e = DecodeApp(d)
               /\ e = [type |-> e.type, lat |-> e.lat, lon |-> e.lon, feat1 |-> e.feat1, feat2 |-> e.feat2, name |-> e.name]
  <2>3. PICK x1, x2, x3 :
          /\ x1 = d[1] % 16
          /\ x2 = IF HasFlag(d, 16) THEN <<Signed(SubSeq(d, 2, 5))>> ELSE <<>>
          /\ x3 = IF HasFlag(d, 16) THEN <<Signed(SubSeq(d, 6, 9))>> ELSE <<>>
    BY Zenon
  <2>4. PICK x4, x5, x6 :
          /\ x4 = IF HasFlag(d, 32) THEN <<FromBytes2(From(d, 2 + Position(d)))>> ELSE <<>>
          /\ x5 = IF HasFlag(d, 64) THEN <<FromBytes2(From(d, 2 + Position(d) + Feature1(d)))>> ELSE <<>>
          /\ x6 = IF HasFlag(d, 128) THEN Str(UpToNul(From(d, NameAt(d)))) ELSE <<>>
    BY Zenon
  <2>1. PICK e : e = DecodeApp(d) /\ e = [type |-> x1, lat |-> x2, lon |-> x3, feat1 |-> x4, feat2 |-> x5, name |-> x6]
    BY <2>3, <2>4, Zenon DEF DecodeApp
  <2>2. e = [type |-> e.type, lat |-> e.lat, lon |-> e.lon, feat1 |-> e.feat1, feat2 |-> e.feat2, name |-> e.name]
    BY <2>1
  <2> QED
    BY <2>1, <2>2, Zenon
<1>23. e = [a EXCEPT !.name = r]
  <2>1. e.type = a.type /\ e.lat = a.lat /\ e.lon = a.lon /\ e.feat1 = a.feat1 /\ e.feat2 = a.feat2 /\ e.name = r
    BY <1>16, <1>17, <1>18, <1>19, <1>20, <1>21, <1>22, Zenon
  <2>2. a = [type |-> a.type, name |-> a.name, lat |-> a.lat, lon |-> a.lon, feat1 |-> a.feat1, feat2 |-> a.feat2]
    BY AppFacts, Zenon
  <2> QED
    BY <1>22, <2>1, <2>2
<1>24. AppAs(d, a)
  BY <1>20, <1>22, <1>23 DEF AppAs
<1> QED
  BY <1>13, <1>15, <1>24

\* An advert: key, time, signature, app data.
AdvertParts(u, pub, ts, sig, app) ==
    /\ IsSeq(u) /\ Len(u) >= 100
    /\ SubSeq(u, 1, 32) = pub /\ SubSeq(u, 33, 36) = ts /\ SubSeq(u, 37, 100) = sig
    /\ SubSeq(u, 1, 36) = pub \o ts /\ From(u, 101) = app

\* The parts of an advert can be taken out again.
LEMMA AdvertPlaced ==
    ASSUME NEW pub, NEW ts, NEW sig, NEW app,
           IsSeq(pub) /\ Len(pub) = 32 /\ IsSeq(ts) /\ Len(ts) = 4 /\ IsSeq(sig) /\ Len(sig) = 64 /\ IsSeq(app)
    PROVE  AdvertParts(pub \o ts \o sig \o app, pub, ts, sig, app)
<1>1. PICK u1 : u1 = pub \o ts
  OBVIOUS
<1>2. IsSeq(u1) /\ Len(u1) = 36 /\ At(u1, 0, pub) /\ At(u1, 32, ts) /\ At(u1, 0, u1)
  <2>1. Joins(pub, ts, u1) /\ At(u1, Len(pub), ts)
    BY <1>1, JoinIsSeq, AtJoin
  <2>2. Len(u1) = 36
    BY <2>1 DEF Joins
  <2>3. \A i \in 1..32 : u1[0 + i] = pub[i]
    BY <2>1 DEF Joins
  <2> QED
    BY <2>1, <2>2, <2>3 DEF Joins, At
<1>3. PICK u2 : u2 = u1 \o sig
  OBVIOUS
<1>4. IsSeq(u2) /\ Len(u2) = 100 /\ At(u2, 0, pub) /\ At(u2, 32, ts) /\ At(u2, 0, u1) /\ At(u2, 36, sig)
  <2>1. Joins(u1, sig, u2)
    BY <1>2, <1>3, JoinIsSeq
  <2>2. At(u2, Len(u1), sig) /\ At(u2, 0, pub) /\ At(u2, 32, ts) /\ At(u2, 0, u1)
    BY <1>2, <1>3, AtJoin
  <2> QED
    BY <1>2, <2>1, <2>2 DEF Joins
<1>5. PICK u : u = u2 \o app
  OBVIOUS
<1>6. /\ IsSeq(u) /\ Len(u) = 100 + Len(app) /\ Len(app) \in Nat
      /\ At(u, 0, pub) /\ At(u, 32, ts) /\ At(u, 0, u1) /\ At(u, 36, sig) /\ At(u, 100, app)
  <2>1. Joins(u2, app, u)
    BY <1>4, <1>5, JoinIsSeq
  <2>2. At(u, Len(u2), app) /\ At(u, 0, pub) /\ At(u, 32, ts) /\ At(u, 0, u1) /\ At(u, 36, sig)
    BY <1>4, <1>5, AtJoin
  <2> QED
    BY <1>4, <2>1, <2>2 DEF Joins
<1>7. SubSeq(u, 1, 32) = pub
  <2>1. TakesOut(u, 0, pub, 1, 32)
    BY <1>6 DEF TakesOut
  <2>2. PartIs(u, 1, 32, pub)
    BY <2>1, AtPart
  <2> QED
    BY <2>2 DEF PartIs
<1>8. SubSeq(u, 33, 36) = ts
  <2>1. TakesOut(u, 32, ts, 33, 36)
    BY <1>6 DEF TakesOut
  <2>2. PartIs(u, 33, 36, ts)
    BY <2>1, AtPart
  <2> QED
    BY <2>2 DEF PartIs
<1>9. SubSeq(u, 37, 100) = sig
  <2>1. TakesOut(u, 36, sig, 37, 100)
    BY <1>6 DEF TakesOut
  <2>2. PartIs(u, 37, 100, sig)
    BY <2>1, AtPart
  <2> QED
    BY <2>2 DEF PartIs
<1>10. SubSeq(u, 1, 36) = u1
  <2>1. TakesOut(u, 0, u1, 1, 36)
    BY <1>2, <1>6 DEF TakesOut
  <2>2. PartIs(u, 1, 36, u1)
    BY <2>1, AtPart
  <2> QED
    BY <2>2 DEF PartIs
<1>11. From(u, 101) = app
  <2>1. TailOut(u, 100, app, 101)
    BY <1>6 DEF TailOut
  <2>2. TailIs(u, 101, app)
    BY <2>1, TailAt
  <2> QED
    BY <2>2 DEF TailIs
<1>12. Len(u) >= 100
  BY <1>6
<1>13. AdvertParts(u, pub, ts, sig, app)
  BY <1>1, <1>6, <1>7, <1>8, <1>9, <1>10, <1>11, <1>12, Zenon DEF AdvertParts
<1> QED
  BY <1>1, <1>3, <1>5, <1>13, Zenon

\* A signature names who signed, and what.
LEMMA SignFacts ==
    ASSUME NEW n, NEW x
    PROVE  /\ IsSeq(Sign(n, x)) /\ Len(Sign(n, x)) = 64
           /\ \A d : Sign(d, x) = Sign(n, x) => d = n
<1>1. PICK f : f = Sign(n, x) /\ f = [i \in 1..64 |-> f[i]]
  BY DEF Sign
<1>2. ASSUME NEW d, Sign(d, x) = Sign(n, x) PROVE d = n
  <2>1. 1 \in 1..64
    OBVIOUS
  <2>2. Sign(d, x)[1] = <<d, x>> /\ Sign(n, x)[1] = <<n, x>>
    BY <2>1 DEF Sign
  <2>3. <<d, x>> = <<n, x>>
    BY <1>2, <2>2, Zenon
  <2> QED
    BY <2>3
<1> QED
  BY <1>1, <1>2, FunIsSeq

\* An advert of a node, signed by nobody else.
LEMMA AdvertUnderstood ==
    ASSUME NEW m \in Messages, m.kind = "advert", AppEncodable(m.app), NEW p, p.payload = Payload(m)
    PROVE  Understood(m, Content(m, p))
<1>1. m.from \in {Client, Neighbour, Author} /\ m.app \in Apps /\ Time(m.ts) /\ Text(m) = m.app.name
  BY MessageAssumption, MessageFacts DEF Text
<1>2. PICK n, pub, ts, app : n = m.from /\ pub = Pub(n) /\ ts = ToBytes(m.ts, 4) /\ app = EncodeApp(m.app)
  OBVIOUS
<1>3. IsSeq(app) /\ AppDecodable(app) /\ AppAs(app, m.app)
  BY <1>1, <1>2, AppRead
<1>4. IsSeq(pub) /\ Len(pub) = 32
  BY <1>2, PubIsSeq
<1>5. IsSeq(ts) /\ Len(ts) = 4
  <2>1. m.ts \in Int
    BY <1>1 DEF Time
  <2> QED
    BY <1>2, <2>1, FourBytes
<1>6. PICK x, sig : x = pub \o ts \o app /\ sig = Sign(n, x)
  OBVIOUS
<1>7. IsSeq(sig) /\ Len(sig) = 64 /\ \A d : Sign(d, x) = sig => d = n
  BY <1>6, SignFacts
<1>8. PICK u : u = p.payload /\ u = pub \o ts \o sig \o app
  BY <1>2, <1>6 DEF Payload, EncodeAdvert
<1>9. AdvertParts(u, pub, ts, sig, app)
  <2>1. PICK v : v = pub \o ts \o sig \o app /\ AdvertParts(v, pub, ts, sig, app)
    BY <1>3, <1>4, <1>5, <1>7, AdvertPlaced, Zenon
  <2> QED
    BY <1>8, <2>1, Zenon
<1>10. /\ Len(u) >= 100 /\ SubSeq(u, 1, 32) = pub /\ SubSeq(u, 33, 36) = ts
       /\ SubSeq(u, 37, 100) = sig /\ SubSeq(u, 1, 36) = pub \o ts /\ From(u, 101) = app
  BY <1>9 DEF AdvertParts
<1>11. 100 + 1 = 101
  OBVIOUS
<1>12. AdvertDecodable(u)
  BY <1>3, <1>10, <1>11 DEF AdvertDecodable, ADVERT_HEADER_SIZE
<1>13. SignatureValid(u, n)
  BY <1>2, <1>6, <1>10, <1>11 DEF SignatureValid, ADVERT_HEADER_SIZE
<1>14. ASSUME NEW d, SignatureValid(u, d) PROVE d = n
  <2>1. sig = Sign(d, x)
    BY <1>6, <1>10, <1>11, <1>14 DEF SignatureValid, ADVERT_HEADER_SIZE
  <2> QED
    BY <1>7, <2>1
<1>15. PICK r \in Seq(Letter) : (Clean(m.app.name) => r = m.app.name) /\ DecodeApp(app) = [m.app EXCEPT !.name = r]
  BY <1>3 DEF AppAs
<1>16. DecodeAdvert(u) = [pub |-> pub, ts |-> m.ts, app |-> DecodeApp(app)]
  <2>1. FromBytes4(ts) = m.ts
    BY <1>1, <1>2, TimeRead
  <2> QED
    BY <1>10, <1>11, <2>1 DEF DecodeAdvert, ADVERT_HEADER_SIZE
<1> DEFINE D == {d \in {Client, Neighbour, Author} : AdvertDecodable(u) /\ SignatureValid(u, d)}
<1>17. D = {n}
  BY <1>1, <1>2, <1>12, <1>13, <1>14
<1>18. Believed(u) = {[from |-> c, content |-> DecodeAdvert(u)] : c \in D}
  BY DEF Believed
<1> HIDE DEF D
<1>19. Believed(u) = {[from |-> n, content |-> DecodeAdvert(u)]}
  BY <1>17, <1>18, Zenon
<1>20. Content(m, p) = Believed(u)
  BY <1>8 DEF Content
<1>21. MeaningAs(m, r) = DecodeAdvert(u) /\ Sender(m) = n
  <2>1. Sender(m) = n
    BY <1>2 DEF Sender
  <2>2. MeaningAs(m, r) = [pub |-> Pub(m.from), ts |-> m.ts, app |-> [m.app EXCEPT !.name = r]]
    BY DEF MeaningAs
  <2> QED
    BY <1>2, <1>15, <1>16, <2>1, <2>2, Zenon
<1>22. Content(m, p) = {[from |-> Sender(m), content |-> MeaningAs(m, r)]}
  BY <1>19, <1>20, <1>21, Zenon
<1> QED
  BY <1>1, <1>15, <1>22 DEF Understood

\* Whatever is sent is understood, whoever sends it.
LEMMA AllUnderstood ==
    ASSUME NEW m \in Messages, m.kind = "advert" => AppEncodable(m.app), NEW p, p.payload = Payload(m)
    PROVE  Understood(m, Content(m, p))
<1>1. m.kind \in {"txt", "echo", "push", "login", "req", "grp", "advert"}
  BY MessageFacts
<1> QED
  BY <1>1, TxtUnderstood, EchoUnderstood, PushUnderstood, LoginUnderstood, ReqUnderstood, GrpUnderstood,
     AdvertUnderstood

-----------------------------------------------------------------------------
(* What is heard, over all steps *)

\* What arrives whole is the packet that was sent.
LEMMA WholeArrives ==
    ASSUME NEW m \in Messages, NEW p, Carries(p, m),
           NEW d, d = SubSeq(EncodePacket(p), 1, Len(EncodePacket(p)) - 0)
    PROVE  Decodable(d) /\ DecodePacket(d) = p /\ ValidPath(p.path, p.size) /\ p.payload = Payload(m)
<1>1. PICK S : S = Alphabet(m)
  OBVIOUS
<1>2. /\ Byte \subseteq S /\ p \in PacketOver(S) /\ Encodable(p) /\ Len(p.path) <= MAX_PATH_SIZE
      /\ p.payload = Payload(m)
  BY <1>1, AlphabetFacts DEF Carries
<1>3. PICK e : e = EncodePacket(p) /\ e \in Seq(S)
  BY <1>2, EncodedParts
<1>4. IsSeq(e) /\ Len(e) \in Nat
  BY <1>3, SeqIsSeq, LengthOf
<1>5. d = e
  <2>1. PICK l \in Nat : l = Len(e) /\ l - 0 = l /\ l + 1 - 1 = l /\ 1 <= l + 1
    BY <1>4
  <2>2. d = SubSeq(e, 1, l)
    BY <1>3, <2>1
  <2>3. IsSeq(d) /\ Len(d) = l /\ \A i \in 1..l : d[i] = e[1 - 1 + i]
    <3>1. PartOf(e, 1, l)
      BY <1>4, <2>1 DEF PartOf
    <3>2. PartHas(e, 1, l, d)
      BY <2>2, <3>1, PartTaken, Zenon
    <3> QED
      BY <2>1, <3>2 DEF PartHas
  <2>4. \A i \in 1..Len(d) : d[i] = e[i]
    BY <2>3
  <2> QED
    BY <1>4, <2>1, <2>3, <2>4, SameEntries
<1>6. Decodable(e) /\ DecodePacket(e) = p
  BY <1>2, <1>3, RoundTrip
<1>7. p.path \in Seq(S) /\ p.size \in 1..4
  BY <1>2 DEF PacketOver
<1>8. IsSeq(p.path)
  BY <1>7, SeqIsSeq
<1>9. ValidPath(p.path, p.size)
  BY <1>2, <1>7, <1>8 DEF ValidPath, MAX_PATH_SIZE, Encodable, HashCount, PathLenEncodable
<1> QED
  BY <1>2, <1>5, <1>6, <1>9

\* What has been heard: an advert was sent only if it could be encoded, what
\* arrived whole is understood, and only that is acted on.
HeardSound ==
    /\ stage # "new" /\ msg.kind = "advert" => AppEncodable(msg.app)
    /\ stage \notin {"new", "air", "line"} /\ cut = 0 => Understood(msg, heard)
    /\ stage \in {"heard", "answered", "done"} =>
        /\ cut = 0
        /\ \E p : inbound = {p} /\ ValidPath(p.path, p.size)

\* What is known of the client has a time.
KnownSound == known = <<>> \/ (known = [ts |-> known.ts, name |-> known.name] /\ known.ts \in Int)

\* The hash that is waited for.
DigestSound == msg.kind \in Acked => IsSeq(digest) /\ Len(digest) = 4 /\ digest # Unrelated

\* The answer is the one to what was heard, and the sender reads that.
AnswerSound ==
    /\ stage \in {"answered", "done"} =>
        /\ Answers(The(inbound), The(heard))
        /\ answer = EncodePacket(AnswerPacket(The(inbound), The(heard)))
    /\ stage = "done" => back = Back(DecodePacket(answer))

\* The invariant of a whole exchange, there and back.
MeantInv == IInv /\ HeardSound /\ KnownSound /\ DigestSound /\ AnswerSound

\* It holds before anything is sent.
LEMMA InitMeant == Init => MeantInv
<1> SUFFICES ASSUME Init PROVE MeantInv
  OBVIOUS
<1>1. IInv
  BY InitInv
<1>2. stage = "new"
  BY DEF Init
<1>3. KnownSound
  <2>1. known = <<>> \/ known \in Known
    BY DEF Init
  <2>2. ASSUME known # <<>> PROVE known = [ts |-> known.ts, name |-> known.name] /\ known.ts \in Int
    <3>1. known \in [ts : Nat, name : Seq(0..255)]
      BY <2>1, <2>2, KnownAssumption
    <3> QED
      BY <3>1
  <2> QED
    BY <2>2 DEF KnownSound
<1>4. DigestSound
  <2> SUFFICES ASSUME msg.kind \in Acked PROVE IsSeq(digest) /\ Len(digest) = 4 /\ digest # Unrelated
    BY DEF DigestSound
  <2>1. digest \in Digests
    BY DEF Init
  <2>2. digest \in Seq(0..255) /\ Len(digest) = 4 /\ digest # Unrelated
    BY <2>1, AirAssumption
  <2> QED
    BY <2>2, SeqIsSeq
<1>5. HeardSound
  BY <1>2 DEF HeardSound
<1>6. AnswerSound
  BY <1>2 DEF AnswerSound
<1> QED
  BY <1>1, <1>3, <1>4, <1>5, <1>6 DEF MeantInv

\* What an advert that is heard adds to what is known of the client.
LearntFrom(m, k, l) ==
    /\ m.from = Client /\ l = [ts |-> m.ts, name |-> l.name]
    /\ k # <<>> => m.ts >= k.ts
    /\ m.app.name # <<>> /\ Clean(m.app.name) => l.name = m.app.name
    /\ k # <<>> /\ m.app.name = <<>> => l.name = k.name

\* What the client's own advert changes.
LEMMA LearnFacts ==
    ASSUME NEW m \in Messages, m.kind = "advert", KnownSound, NEW S, Understood(m, S), NEW x \in S, x.from = Client
    PROVE  Learn(The(S)) = known \/ LearntFrom(m, known, Learn(The(S)))
<1>1. PICK r : (Clean(m.app.name) => r = m.app.name) /\ S = {[from |-> Sender(m), content |-> MeaningAs(m, r)]}
  BY DEF Understood, Text
<1>2. PICK h : /\ h = [from |-> m.from, content |-> [pub |-> Pub(m.from), ts |-> m.ts, app |-> [m.app EXCEPT !.name = r]]]
               /\ S = {h}
  BY <1>1 DEF Sender, MeaningAs
<1>3. m.app \in Apps /\ m.ts \in Int
  BY MessageAssumption, MessageFacts
<1>4. [m.app EXCEPT !.name = r].name = r
  <2>1. m.app = [type |-> m.app.type, name |-> m.app.name, lat |-> m.app.lat, lon |-> m.app.lon,
                 feat1 |-> m.app.feat1, feat2 |-> m.app.feat2]
    BY <1>3, AppFacts, Zenon
  <2> QED
    BY <2>1
<1>5. h.from = m.from /\ h.content.ts = m.ts /\ h.content.app.name = r
  BY <1>2, <1>4
<1>6. The(S) = h /\ x = h
  BY <1>2 DEF The
<1>7. m.from = Client
  BY <1>5, <1>6
<1>8. PICK l : l = Learn(h)
  OBVIOUS
<1>9. CASE known # <<>> /\ m.ts < known.ts
  <2>1. l = known
    BY <1>5, <1>8, <1>9 DEF Learn
  <2> QED
    BY <1>6, <1>8, <2>1
<1>10. CASE known # <<>> /\ ~(m.ts < known.ts) /\ r = <<>>
  <2>1. l = [ts |-> m.ts, name |-> known.name]
    BY <1>5, <1>8, <1>10 DEF Learn
  <2>2. known.ts \in Int
    BY <1>10 DEF KnownSound
  <2>3. l.name = known.name /\ l = [ts |-> m.ts, name |-> l.name]
    BY <2>1
  <2>4. m.ts >= known.ts
    BY <1>3, <1>10, <2>2
  <2>5. LearntFrom(m, known, l)
    BY <1>1, <1>7, <1>10, <2>3, <2>4 DEF LearntFrom
  <2> QED
    BY <1>6, <1>8, <2>5
<1>11. CASE known = <<>> \/ (~(m.ts < known.ts) /\ r # <<>>)
  <2>1. l = [ts |-> m.ts, name |-> r]
    BY <1>5, <1>8, <1>11 DEF Learn
  <2>2. l.name = r /\ l = [ts |-> m.ts, name |-> l.name]
    BY <2>1
  <2>3. known # <<>> => m.ts >= known.ts
    BY <1>3, <1>11 DEF KnownSound
  <2>4. m.app.name = <<>> => r = <<>>
    BY <1>1 DEF Clean
  <2>5. LearntFrom(m, known, l)
    BY <1>1, <1>7, <1>11, <2>2, <2>3, <2>4 DEF LearntFrom
  <2> QED
    BY <1>6, <1>8, <2>5
<1> QED
  BY <1>9, <1>10, <1>11

\* What a node makes of a packet, and what it learns, when it arrives.
LEMMA ReceiveFacts ==
    ASSUME IInv, HeardSound, KnownSound, NEW n \in Cuts, Receive(n)
    PROVE  HeardSound' /\ (known' = known \/ (msg.kind = "advert" /\ LearntFrom(msg, known, known')))
<1>1. PICK data : data = SubSeq(wire, 1, Len(wire) - n)
  OBVIOUS
<1>2. PICK in : in = DecodePacket(data)
  OBVIOUS
<1>3. /\ stage = "line" /\ msg' = msg /\ digest' = digest /\ wire' = wire /\ cut' = n
      /\ stage' = IF heard' = {} THEN "ignored" ELSE "heard"
      /\ inbound' = IF Decodable(data) THEN {in} ELSE {}
      /\ heard' = IF Decodable(data) THEN Content(msg, in) ELSE {}
      /\ known' = IF msg.kind = "advert" /\ \E h \in heard' : h.from = Client THEN Learn(The(heard')) ELSE known
  BY <1>1, <1>2 DEF Receive
<1>4. msg \in Messages /\ n \in Nat
  BY AirAssumption DEF IInv, Typed
<1>5. PICK p : Carries(p, msg) /\ wire = EncodePacket(p)
  BY <1>3 DEF IInv, WireSound
<1>6. cut' > 0 => heard' = {}
  BY ReceiveInv DEF IInv, InboundSound
<1>7. ASSUME n = 0
      PROVE  Decodable(data) /\ Understood(msg, heard') /\ inbound' = {p} /\ ValidPath(p.path, p.size)
  <2>1. data = SubSeq(EncodePacket(p), 1, Len(EncodePacket(p)) - 0)
    BY <1>1, <1>5, <1>7
  <2>2. Decodable(data) /\ in = p /\ ValidPath(p.path, p.size) /\ p.payload = Payload(msg)
    BY <1>2, <1>4, <1>5, <2>1, WholeArrives
  <2>3. msg.kind = "advert" => AppEncodable(msg.app)
    BY <1>3 DEF HeardSound
  <2>4. Understood(msg, Content(msg, in))
    BY <1>4, <2>2, <2>3, AllUnderstood
  <2>5. heard' = Content(msg, in) /\ inbound' = {p}
    BY <1>3, <2>2
  <2> QED
    BY <2>2, <2>4, <2>5
<1>8. HeardSound'
  <2>1. msg.kind = "advert" => AppEncodable(msg.app)
    BY <1>3 DEF HeardSound
  <2>2. cut' = 0 => Understood(msg', heard')
    BY <1>3, <1>7
  <2>3. stage' \in {"heard", "answered", "done"} => n = 0
    BY <1>3, <1>4, <1>6
  <2>4. stage' \in {"heard", "answered", "done"} => cut' = 0 /\ \E q : inbound' = {q} /\ ValidPath(q.path, q.size)
    BY <1>3, <1>7, <2>3
  <2> QED
    BY <1>3, <2>1, <2>2, <2>4 DEF HeardSound
<1>9. ASSUME known' # known PROVE msg.kind = "advert" /\ LearntFrom(msg, known, known')
  <2>1. msg.kind = "advert" /\ known' = Learn(The(heard')) /\ \E h \in heard' : h.from = Client
    BY <1>3, <1>9
  <2>2. PICK h \in heard' : h.from = Client
    BY <2>1
  <2>3. n = 0
    BY <1>3, <1>4, <1>6, <2>2
  <2>4. PICK S : S = heard' /\ Understood(msg, S)
    BY <1>7, <2>3
  <2>5. h \in S
    BY <2>2, <2>4
  <2>6. Learn(The(S)) = known \/ LearntFrom(msg, known, Learn(The(S)))
    BY <1>4, <2>1, <2>2, <2>4, <2>5, LearnFacts
  <2> QED
    BY <1>9, <2>1, <2>4, <2>6
<1> QED
  BY <1>8, <1>9

\* What arrives keeps the invariant.
LEMMA ReceiveMeant == ASSUME MeantInv, NEW n \in Cuts, Receive(n) PROVE MeantInv'
<1>1. IInv /\ HeardSound /\ KnownSound /\ DigestSound
  BY DEF MeantInv
<1>2. IInv'
  BY <1>1, ReceiveInv
<1>3. HeardSound' /\ (known' = known \/ (msg.kind = "advert" /\ LearntFrom(msg, known, known')))
  BY <1>1, ReceiveFacts
<1>4. KnownSound'
  <2>1. CASE known' = known
    BY <1>1, <2>1 DEF KnownSound
  <2>2. CASE LearntFrom(msg, known, known')
    <3>1. known' = [ts |-> msg.ts, name |-> known'.name]
      BY <2>2 DEF LearntFrom
    <3>2. msg.ts \in Int
      BY <1>1, MessageFacts DEF IInv, Typed
    <3>3. known'.ts = msg.ts
      BY <3>1
    <3> QED
      BY <3>1, <3>2, <3>3 DEF KnownSound
  <2> QED
    BY <1>3, <2>1, <2>2
<1>5. msg' = msg /\ digest' = digest /\ stage' \in {"ignored", "heard"}
  BY DEF Receive
<1>6. DigestSound'
  BY <1>1, <1>5 DEF DigestSound
<1>7. AnswerSound'
  BY <1>5 DEF AnswerSound
<1> QED
  BY <1>2, <1>3, <1>4, <1>6, <1>7 DEF MeantInv

\* The invariant of a whole exchange is inductive.
LEMMA NextMeant == MeantInv /\ [Next]_vars => MeantInv'
<1> SUFFICES ASSUME MeantInv, [Next]_vars PROVE MeantInv'
  OBVIOUS
<1>1. IInv'
  BY NextInv DEF MeantInv
<1>2. CASE \E size \in Sizes : Send(size)
  <2>1. PICK size \in Sizes : Send(size)
    BY <1>2
  <2>2. /\ stage' = "air" /\ msg' = msg /\ digest' = digest /\ known' = known
        /\ msg.kind = "advert" => AppEncodable(msg.app)
    BY <2>1 DEF Send
  <2> QED
    BY <1>1, <2>2 DEF MeantInv, HeardSound, KnownSound, DigestSound, AnswerSound
<1>3. CASE \E n \in Hops : Relay(n)
  <2>1. stage = "air" /\ stage' = "line" /\ msg' = msg /\ digest' = digest /\ known' = known
    BY <1>3 DEF Relay
  <2> QED
    BY <1>1, <2>1 DEF MeantInv, HeardSound, KnownSound, DigestSound, AnswerSound
<1>4. CASE \E n \in Cuts : Receive(n)
  BY <1>4, ReceiveMeant
<1>5. CASE Answer
  <2>1. /\ stage = "heard" /\ stage' = "answered" /\ msg' = msg /\ digest' = digest /\ cut' = cut
        /\ inbound' = inbound /\ heard' = heard /\ known' = known
        /\ Answers(The(inbound), The(heard))
        /\ answer' = EncodePacket(AnswerPacket(The(inbound), The(heard)))
    BY <1>5 DEF Answer
  <2>2. HeardSound'
    BY <2>1 DEF MeantInv, HeardSound
  <2>3. Answers(The(inbound), The(heard))'
    BY <2>1 DEF Answers
  <2>4. AnswerPacket(The(inbound), The(heard))' = AnswerPacket(The(inbound), The(heard))
    BY <2>1 DEF AnswerPacket, ResponsePacket, Hash
  <2>5. AnswerSound'
    BY <2>1, <2>3, <2>4 DEF AnswerSound
  <2> QED
    BY <1>1, <2>1, <2>2, <2>5 DEF MeantInv, KnownSound, DigestSound
<1>6. CASE Return
  <2>1. /\ stage = "answered" /\ stage' = "done" /\ msg' = msg /\ digest' = digest /\ cut' = cut
        /\ inbound' = inbound /\ heard' = heard /\ known' = known /\ answer' = answer
        /\ back' = Back(DecodePacket(answer))
    BY <1>6 DEF Return
  <2>2. HeardSound'
    BY <2>1 DEF MeantInv, HeardSound
  <2>3. Answers(The(inbound), The(heard))'
    BY <2>1 DEF Answers, MeantInv, AnswerSound
  <2>4. AnswerPacket(The(inbound), The(heard))' = AnswerPacket(The(inbound), The(heard))
    BY <2>1 DEF AnswerPacket, ResponsePacket, Hash
  <2>5. AnswerSound'
    BY <2>1, <2>3, <2>4 DEF AnswerSound, MeantInv
  <2> QED
    BY <1>1, <2>1, <2>2, <2>5 DEF MeantInv, KnownSound, DigestSound
<1>7. CASE UNCHANGED vars
  <2>1. /\ stage' = stage /\ msg' = msg /\ digest' = digest /\ cut' = cut /\ back' = back
        /\ inbound' = inbound /\ heard' = heard /\ known' = known /\ answer' = answer
    BY <1>7 DEF vars
  <2>2. Answers(The(inbound), The(heard))' = Answers(The(inbound), The(heard))
    BY <2>1 DEF Answers
  <2>3. AnswerPacket(The(inbound), The(heard))' = AnswerPacket(The(inbound), The(heard))
    BY <2>1 DEF AnswerPacket, ResponsePacket, Hash
  <2>4. AnswerSound'
    BY <2>1, <2>2, <2>3 DEF AnswerSound, MeantInv
  <2> QED
    BY <1>1, <2>1, <2>4 DEF MeantInv, HeardSound, KnownSound, DigestSound
<1> QED
  BY <1>2, <1>3, <1>4, <1>5, <1>6, <1>7 DEF Next

\* A message that arrives whole is understood as it was meant, by the right
\* key among nodes with one address, whatever clean text it has: the decoders of
\* messaging.py, room.py and advert.py undo what was built, padding included.
THEOREM UnderstoodIsMeant == Spec => []UnderstoodAsMeant
<1>1. MeantInv => UnderstoodAsMeant
  <2> SUFFICES ASSUME MeantInv, stage \notin {"new", "air", "line"}, cut = 0, Clean(Text(msg))
               PROVE  heard = {[from |-> Sender(msg), content |-> Meaning(msg)]}
    BY DEF UnderstoodAsMeant
  <2>1. msg \in Messages
    BY DEF MeantInv, IInv, Typed
  <2>2. heard = {[from |-> Sender(msg), content |-> MeaningAs(msg, Text(msg))]}
    BY DEF MeantInv, HeardSound, Understood
  <2>3. MeaningAs(msg, Text(msg)) = Meaning(msg)
    <3>1. CASE msg.kind = "advert"
      <4>1. msg.app \in Apps
        BY <2>1, <3>1, MessageAssumption
      <4>2. msg.app = [type |-> msg.app.type, name |-> msg.app.name, lat |-> msg.app.lat, lon |-> msg.app.lon,
                       feat1 |-> msg.app.feat1, feat2 |-> msg.app.feat2]
        BY <4>1, AppFacts, Zenon
      <4>3. [msg.app EXCEPT !.name = msg.app.name] = msg.app
        BY <4>2
      <4> QED
        BY <3>1, <4>3 DEF MeaningAs, Meaning, Text
    <3>2. CASE msg.kind # "advert"
      <4>1. Text(msg) = msg.text /\ msg.kind \in {"txt", "echo", "push", "login", "req", "grp"}
        BY <2>1, <3>2, MessageFacts
      <4> QED
        BY <4>1 DEF MeaningAs, Meaning
    <3> QED
      BY <3>1, <3>2
  <2> QED
    BY <2>2, <2>3
<1> QED
  BY <1>1, InitMeant, NextMeant, PTL DEF Spec

\* The name of a client is the one it signed last: no advert of another node,
\* no older one, none that was shortened and none without a name changes it
\* (handle_advert).
THEOREM NewestNameIsKept == Spec => NewestNameKept
<1>1. ASSUME MeantInv, [Next]_vars, known' # known
      PROVE  /\ known # <<>> => known'.ts >= known.ts
             /\ msg.from = Client /\ msg.ts = known'.ts
             /\ msg.app.name # <<>> /\ Clean(msg.app.name) => known'.name = msg.app.name
             /\ known # <<>> /\ msg.app.name = <<>> => known'.name = known.name
  <2>1. PICK n \in Cuts : Receive(n)
    BY <1>1 DEF Next, Send, Relay, Answer, Return, vars
  <2>2. LearntFrom(msg, known, known')
    BY <1>1, <2>1, ReceiveFacts DEF MeantInv
  <2>3. known'.ts = msg.ts
    BY <2>2 DEF LearntFrom
  <2> QED
    BY <2>2, <2>3 DEF LearntFrom
<1>2. MeantInv /\ [Next]_vars =>
        [known' # known =>
            /\ known # <<>> => known'.ts >= known.ts
            /\ msg.from = Client /\ msg.ts = known'.ts
            /\ msg.app.name # <<>> /\ Clean(msg.app.name) => known'.name = msg.app.name
            /\ known # <<>> /\ msg.app.name = <<>> => known'.name = known.name]_vars
  BY <1>1
<1> QED
  BY <1>2, InitMeant, NextMeant, PTL DEF Spec, NewestNameKept

-----------------------------------------------------------------------------
(* The way back *)

\* A PATH is read as it was built; an ACK in it keeps its zeros.
PathAs(t, path, size, type, extra) ==
    /\ PathReadable(t)
    /\ PathMsg(t).path = path /\ PathMsg(t).size = size /\ PathMsg(t).extraType = type
    /\ type = ACK /\ Len(extra) = 4 => PathMsg(t).extra = extra

\* try_decrypt_path_msg undoes PathPlaintext.
LEMMA PathRead ==
    ASSUME NEW path, NEW size, ValidPath(path, size), NEW type \in 0..15, NEW extra, IsSeq(extra),
           NEW t, Ends(t, PathPlaintext(path, size, type, extra))
    PROVE  PathAs(t, path, size, type, extra)
<1>1. PICK count, b, y : count = Len(path) \div size /\ b = EncodePathLen(count, size) /\ y = type % 256
  OBVIOUS
<1>2. IsSeq(path) /\ Len(path) \in Nat /\ size \in 1..4 /\ count \in 0..63 /\ count * size = Len(path)
  <2>1. IsSeq(path) /\ size \in 1..4 /\ Len(path) % size = 0 /\ count \in 0..63
    BY <1>1 DEF ValidPath
  <2>2. Len(path) \in Nat
    BY <2>1, LengthOf
  <2>3. count * size = Len(path)
    BY <1>1, <2>1, <2>2, WholeHashes
  <2> QED
    BY <2>1, <2>2, <2>3
<1>3. PICK B, Y : B = <<b>> /\ Y = <<y>> /\ IsSeq(B) /\ IsSeq(Y) /\ Len(B) = 1 /\ Len(Y) = 1 /\ B[1] = b /\ Y[1] = y
  <2>1. /\ IsSeq(<<b>>) /\ Len(<<b>>) = 1 /\ <<b>>[1] = b
        /\ IsSeq(<<y>>) /\ Len(<<y>>) = 1 /\ <<y>>[1] = y
    BY SmallSeqs
  <2> QED
    BY <2>1, Zenon
<1>4. PICK v, w : v = B \o path /\ w = v \o Y
  OBVIOUS
<1>5. IsSeq(v) /\ Len(v) = 1 + Len(path) /\ v[1] = b /\ At(v, 1, path)
  <2>1. Joins(B, path, v) /\ At(v, Len(B), path)
    BY <1>2, <1>3, <1>4, JoinIsSeq, AtJoin
  <2> QED
    BY <1>3, <2>1 DEF Joins
<1>6. IsSeq(w) /\ Len(w) = 2 + Len(path) /\ w[1] = b /\ At(w, 1, path) /\ w[2 + Len(path)] = y
  <2>1. Joins(v, Y, w) /\ At(w, 1, path)
    BY <1>3, <1>4, <1>5, JoinIsSeq, AtJoin
  <2>2. Len(w) = 2 + Len(path) /\ w[1] = v[1]
    BY <1>2, <1>3, <1>5, <2>1 DEF Joins
  <2>3. w[Len(v) + 1] = Y[1]
    BY <1>3, <2>1 DEF Joins
  <2>4. Len(v) + 1 = 2 + Len(path)
    BY <1>2, <1>5
  <2> QED
    BY <1>3, <1>5, <2>1, <2>2, <2>3, <2>4 DEF Joins
<1>7. PathPlaintext(path, size, type, extra) = w \o extra
  BY <1>1, <1>3, <1>4, Zenon DEF PathPlaintext
<1>8. PICK n \in Nat, m \in Nat : n = Len(w) /\ m = n + 1
  BY <1>2, <1>6
<1>9. (\A i \in 1..n : t[i] = w[i]) /\ Ends(From(t, m), extra) /\ n <= Len(t)
  BY <1>6, <1>7, <1>8, TailEnds
<1>10. IsSeq(t) /\ Len(t) \in Nat
  BY LengthOf DEF Ends
<1>11. t[1] = b /\ t[2 + Len(path)] = y /\ At(t, 1, path)
  <2>1. 1 \in 1..n /\ 2 + Len(path) \in 1..n
    BY <1>2, <1>6, <1>8
  <2>2. ASSUME NEW i \in 1..Len(path) PROVE t[1 + i] = path[i]
    <3>1. 1 + i \in 1..n
      BY <1>2, <1>6, <1>8
    <3> QED
      BY <1>6, <1>9, <3>1 DEF At
  <2>3. 1 + Len(path) <= Len(t)
    BY <1>2, <1>6, <1>8, <1>9, <1>10
  <2> QED
    BY <1>2, <1>6, <1>9, <2>1, <2>2, <2>3 DEF At
<1>12. DecodePathLen(t[1]) = [count |-> count, size |-> size]
  BY <1>1, <1>2, <1>11, PathLenRoundTrip DEF PathLenEncodable
<1>13. PICK e \in Nat : e = PathEnd(t) /\ e = 1 + Len(path)
  BY <1>2, <1>12 DEF PathEnd
<1>14. PathReadable(t)
  <2>1. Len(t) >= e + 1
    BY <1>2, <1>6, <1>8, <1>9, <1>10, <1>13
  <2> QED
    BY <1>13, <2>1 DEF PathReadable
<1>15. SubSeq(t, 2, e) = path
  <2>1. 2 = 1 + 1
    OBVIOUS
  <2>2. TakesOut(t, 1, path, 2, e)
    BY <1>2, <1>10, <1>11, <1>13, <2>1, Zenon DEF TakesOut
  <2>3. PartIs(t, 2, e, path)
    BY <2>2, AtPart
  <2> QED
    BY <2>3 DEF PartIs
<1>16. t[e + 1] % 16 = type
  <2>1. e + 1 = 2 + Len(path)
    BY <1>2, <1>13
  <2>2. y % 16 = type
    BY <1>1
  <2> QED
    BY <1>11, <2>1, <2>2
<1>17. PICK x : x = From(t, e + 2) /\ Ends(x, extra)
  <2>1. e + 2 = m
    BY <1>2, <1>6, <1>8, <1>13
  <2> QED
    BY <1>9, <2>1
<1>18. PathMsg(t).path = path /\ PathMsg(t).size = size /\ PathMsg(t).extraType = type
  BY <1>12, <1>13, <1>15, <1>16 DEF PathMsg
<1>19. ASSUME type = ACK, Len(extra) = 4 PROVE PathMsg(t).extra = extra
  <2>1. IsSeq(x) /\ Len(x) >= 4 /\ \A i \in 1..4 : x[i] = extra[i]
    BY <1>17, <1>19 DEF Ends
  <2>2. Len(x) \in Nat
    BY <2>1, LengthOf
  <2>3. At(x, 0, extra)
    BY <1>19, <2>1, <2>2 DEF At
  <2>4. SubSeq(x, 1, 4) = extra
    <3>1. 1 = 0 + 1 /\ 4 = 0 + Len(extra)
      BY <1>19
    <3>2. TakesOut(x, 0, extra, 1, 4)
      BY <2>1, <2>3, <3>1, Zenon DEF TakesOut
    <3>3. PartIs(x, 1, 4, extra)
      BY <3>2, AtPart
    <3> QED
      BY <3>3 DEF PartIs
  <2>5. PathMsg(t).extra = SubSeq(x, 1, 4)
    BY <1>13, <1>16, <1>17, <1>19, <2>1 DEF PathMsg
  <2> QED
    BY <2>4, <2>5
<1> QED
  BY <1>14, <1>18, <1>19 DEF PathAs

\* A PATH from one of the two to the other tells the sender the path.
LEMMA PathBack ==
    ASSUME NEW path, NEW size, ValidPath(path, size), NEW type \in 0..15, NEW extra, IsSeq(extra),
           NEW dest, NEW src, SharedSecret(dest, src) = SharedSecret(Client, Room)
    PROVE  \E b \in Back(BuildPathPacket(dest, src, path, size, type, extra)) :
              /\ b.path = path /\ b.size = size
              /\ type = ACK /\ Len(extra) = 4 =>
                    /\ b.ack = extra
                    /\ Back(BuildPathPacket(dest, src, path, size, type, extra)) = {b}
<1>1. PICK inner : inner = PathPlaintext(path, size, type, extra)
  OBVIOUS
<1>2. IsSeq(inner) /\ inner # <<>>
  <2>1. PICK B, Y : B = <<EncodePathLen(Len(path) \div size, size)>> /\ Y = <<type % 256>> /\ IsSeq(B) /\ IsSeq(Y) /\ Len(B) = 1
    <3>1. \A x : IsSeq(<<x>>)
      BY SmallSeqs
    <3>2. \A x : Len(<<x>>) = 1
      OBVIOUS
    <3> QED
      BY <3>1, <3>2, Zenon
  <2>2. IsSeq(path)
    BY DEF ValidPath
  <2>3. inner = B \o path \o Y \o extra
    BY <1>1, <2>1 DEF PathPlaintext
  <2>4. PICK v : v = path \o Y /\ IsSeq(v)
    BY <2>1, <2>2, Joined2
  <2>5. PICK z : z = v \o extra /\ IsSeq(z)
    BY <2>4, Joined2
  <2>6. inner = B \o z
    <3>1. (B \o path) \o Y = B \o v
      BY <2>1, <2>2, <2>4, JoinParts
    <3>2. (B \o v) \o extra = B \o z
      BY <2>1, <2>4, <2>5, JoinParts
    <3> QED
      BY <2>3, <3>1, <3>2
  <2> QED
    BY <2>1, <2>5, <2>6, Joined2, NotNothing
<1>3. PICK load : load = Datagram(dest, src, inner)
  OBVIOUS
<1>4. PICK t : t = Padded(inner) /\ Ends(t, inner)
  BY <1>2, PaddedFacts
<1>5. Inner(load, 2) = t /\ Readable(load, 2, SharedSecret(Client, Room), 2)
  <2>1. 2 \in 0..16
    OBVIOUS
  <2> QED
    BY <1>2, <1>3, <1>4, <2>1, DatagramOpens
<1>6. PathAs(t, path, size, type, extra)
  BY <1>1, <1>4, PathRead
<1>7. PICK p : p = BuildPathPacket(dest, src, path, size, type, extra) /\ p.type = PATH /\ p.payload = load
  <2>1. PICK p : p = [route |-> FLOOD, type |-> PATH, ver |-> 0, codes |-> <<>>, path |-> <<>>, payload |-> load, size |-> 1]
    OBVIOUS
  <2>2. p.type = PATH /\ p.payload = load
    BY <2>1
  <2>3. p = BuildPathPacket(dest, src, path, size, type, extra)
    BY <1>1, <1>3, <2>1, Zenon DEF BuildPathPacket, BuildPacket
  <2> QED
    BY <2>2, <2>3, Zenon
<1>8. Back(p) = {[path |-> PathMsg(t).path, size |-> PathMsg(t).size, type |-> PathMsg(t).extraType,
                  ack |-> PathMsg(t).extra]}
  BY <1>5, <1>6, <1>7 DEF Back, PathAs, PATH, ACK, RESPONSE
<1>9. PICK b : b = [path |-> PathMsg(t).path, size |-> PathMsg(t).size, type |-> PathMsg(t).extraType,
                    ack |-> PathMsg(t).extra]
  OBVIOUS
<1>10. Back(p) = {b} /\ b.path = path /\ b.size = size /\ (type = ACK /\ Len(extra) = 4 => b.ack = extra)
  BY <1>6, <1>8, <1>9 DEF PathAs
<1> QED
  BY <1>7, <1>10

\* Back with an answer: what it was answered with, and what the sender reads.
AnsweredWith(p, h, r) ==
    /\ inbound = {p} /\ ValidPath(p.path, p.size)
    /\ h = [from |-> Sender(msg), content |-> MeaningAs(msg, r)]
    /\ msg.kind # "req" => r \in Seq(Letter)
    /\ Clean(Text(msg)) => r = Text(msg)
    /\ Answers(p, h)
    /\ DecodePacket(answer) = AnswerPacket(p, h) /\ back = Back(AnswerPacket(p, h))

\* An exchange that is done has an answer to what was heard.
LEMMA DoneFacts ==
    ASSUME MeantInv, stage = "done"
    PROVE  msg \in Messages /\ \E p, h, r : AnsweredWith(p, h, r)
<1>1. Typed /\ HeardSound /\ AnswerSound
  BY DEF MeantInv, IInv
<1>2. PICK p : inbound = {p} /\ ValidPath(p.path, p.size)
  BY <1>1 DEF HeardSound
<1>3. PICK r : /\ msg.kind # "req" => r \in Seq(Letter)
               /\ Clean(Text(msg)) => r = Text(msg)
               /\ heard = {[from |-> Sender(msg), content |-> MeaningAs(msg, r)]}
  BY <1>1 DEF HeardSound, Understood
<1>4. PICK h : h = [from |-> Sender(msg), content |-> MeaningAs(msg, r)] /\ heard = {h}
  BY <1>3
<1>5. The(inbound) = p /\ The(heard) = h
  BY <1>2, <1>4 DEF The
<1>6. Answers(p, h) /\ answer = EncodePacket(AnswerPacket(p, h)) /\ back = Back(DecodePacket(answer))
  BY <1>1, <1>5 DEF AnswerSound
<1>7. Fits(AnswerPacket(p, h))
  BY <1>1, <1>2, <1>6, AnswersFit
<1>8. DecodePacket(answer) = AnswerPacket(p, h)
  BY <1>6, <1>7 DEF Fits
<1>9. AnsweredWith(p, h, r)
  BY <1>2, <1>3, <1>4, <1>6, <1>8 DEF AnsweredWith
<1> QED
  BY <1>1, <1>9 DEF Typed

\* What is between the same two sequences is the same.
LEMMA BetweenSame ==
    ASSUME NEW a, NEW r, NEW t, NEW c, IsSeq(a), IsSeq(r), IsSeq(t), IsSeq(c), (a \o r) \o c = (a \o t) \o c
    PROVE  r = t
<1>1. PICK u : u = (a \o r) \o c /\ u = (a \o t) \o c
  OBVIOUS
<1>2. PICK v : v = a \o r /\ Joins(a, r, v) /\ IsSeq(v)
  BY JoinIsSeq, Joined2
<1>3. PICK w : w = a \o t /\ Joins(a, t, w) /\ IsSeq(w)
  BY JoinIsSeq, Joined2
<1>4. Joins(v, c, u) /\ Joins(w, c, u)
  BY <1>1, <1>2, <1>3, JoinIsSeq
<1>5. Len(v) = Len(w) /\ Len(v) \in Nat
  BY <1>4 DEF Joins
<1>6. Len(r) = Len(t) /\ Len(r) \in Nat /\ Len(a) \in Nat
  BY <1>2, <1>3, <1>5 DEF Joins
<1>7. ASSUME NEW i \in 1..Len(r) PROVE r[i] = t[i]
  <2>1. PICK j : j = Len(a) + i /\ j \in 1..Len(v) /\ j \in 1..Len(w)
    BY <1>2, <1>3, <1>6 DEF Joins
  <2>2. u[j] = v[j] /\ u[j] = w[j]
    BY <1>4, <2>1 DEF Joins
  <2>3. v[j] = r[i] /\ w[j] = t[i]
    BY <1>2, <1>3, <1>6, <2>1 DEF Joins
  <2> QED
    BY <2>2, <2>3
<1> QED
  BY <1>6, <1>7, SameEntries

\* The sender reads from an ACK the hash that is in it, and nothing else.
AckRead(a, hash) == \A x : (\E b \in Back(a) : b.ack = x) <=> x = hash

\* Also when the ACK travels in a PATH.
LEMMA AckBack ==
    ASSUME NEW p, ValidPath(p.path, p.size), NEW hash, IsSeq(hash), Len(hash) = 4,
           NEW dest, NEW src, SharedSecret(dest, src) = SharedSecret(Client, Room),
           NEW a, a = AckPacket(p, dest, src, hash)
    PROVE  AckRead(a, hash) /\ (a.type = PATH => \E b \in Back(a) : b.path = p.path /\ b.size = p.size)
<1>1. CASE IsFlood(p)
  <2>1. PICK path, size, type : path = p.path /\ size = p.size /\ type = ACK
    OBVIOUS
  <2>2. type \in 0..15
    BY <2>1 DEF ACK
  <2>3. a = BuildPathPacket(dest, src, path, size, type, hash)
    BY <1>1, <2>1 DEF AckPacket
  <2>4. PICK b \in Back(a) : /\ b.path = path /\ b.size = size
                             /\ type = ACK /\ Len(hash) = 4 => b.ack = hash /\ Back(a) = {b}
    BY <2>1, <2>2, <2>3, PathBack
  <2>5. b.ack = hash /\ Back(a) = {b}
    BY <2>1, <2>4
  <2> QED
    BY <2>1, <2>4, <2>5 DEF AckRead
<1>2. CASE ~IsFlood(p)
  <2>1. a = BuildPacket(ACK, FLOOD, <<>>, 1, hash)
    BY <1>2 DEF AckPacket, BuildAckPacket
  <2>2. a.type = ACK /\ a.payload = hash
    BY <2>1 DEF BuildPacket
  <2>3. SubSeq(hash, 1, 4) = hash
    <3>1. At(hash, 0, hash)
      BY DEF At
    <3>2. TakesOut(hash, 0, hash, 1, 4)
      BY <3>1 DEF TakesOut
    <3>3. PartIs(hash, 1, 4, hash)
      BY <3>2, AtPart
    <3> QED
      BY <3>3 DEF PartIs
  <2>4. PICK b : b = [ack |-> hash] /\ b.ack = hash
    <3>1. [ack |-> hash].ack = hash
      OBVIOUS
    <3> QED
      BY <3>1, Zenon
  <2>5. Back(a) = {b}
    <3>1. ACK # PATH /\ ACK # RESPONSE
      BY DEF ACK, PATH, RESPONSE
    <3>2. Back(a) = {[ack |-> SubSeq(a.payload, 1, 4)]}
      BY <2>2, <3>1 DEF Back
    <3> QED
      BY <2>2, <2>3, <2>4, <3>2, Zenon
  <2>6. a.type # PATH
    BY <2>2 DEF ACK, PATH
  <2> QED
    BY <2>4, <2>5, <2>6 DEF AckRead
<1> QED
  BY <1>1, <1>2

\* An attempt's two low bits are what goes into the flags.
LEMMA FlagsOfAttempt == ASSUME NEW n \in Nat, NEW type PROVE FlagsByte(n % 4, type) = FlagsByte(n, type)
<1>1. (n % 4) % 4 = n % 4
  OBVIOUS
<1> QED
  BY <1>1 DEF FlagsByte

\* A text that comes back from decoding is the one that was sent exactly when
\* that one is clean.
LEMMA SurvivesWhenClean ==
    ASSUME NEW text, NEW r \in Seq(Letter), Clean(text) => r = text
    PROVE  r = text <=> Clean(text)
BY LettersClean

\* The hash of an ACK, of four bytes, is the one waited for when the text survived.
HashFor(hash) == IsSeq(hash) /\ Len(hash) = 4 /\ (hash = digest <=> Clean(msg.text))

\* Of the preimages, only the one that was expected has the digest.
LEMMA HashOf ==
    ASSUME DigestSound, msg.kind \in Acked, NEW pre, pre = Expected(msg) <=> Clean(msg.text)
    PROVE  HashFor(Hash(pre))
<1>1. IsSeq(digest) /\ Len(digest) = 4 /\ digest # Unrelated
  BY DEF DigestSound
<1>2. IsSeq(Unrelated) /\ Len(Unrelated) = 4
  <2>1. Len(<<9, 9, 9, 9>>) = 4
    OBVIOUS
  <2> QED
    BY <2>1, SmallSeqs DEF Unrelated
<1>3. CASE pre = Expected(msg)
  BY <1>1, <1>3 DEF Hash, HashFor
<1>4. CASE pre # Expected(msg)
  BY <1>1, <1>2, <1>4 DEF Hash, HashFor
<1> QED
  BY <1>3, <1>4

\* Two preimages are the same for the same text only.
SameText(ts, n, type, who, r, text) ==
    AckHashFor(ts, n % 4, r, who, type) = AckHashFor(ts, n, text, who, type) <=> r = text
SamePush(ts, n, author, who, r, text) ==
    RoomPushAckHash(ts, n % 4, author, r, who) = RoomPushAckHash(ts, n, author, text, who) <=> r = text

\* What an ACK's hash is taken of tells one text from another.
LEMMA PreimageSame ==
    ASSUME NEW ts, NEW n \in Nat, NEW r, NEW text, IsSeq(r), IsSeq(text)
    PROVE  /\ \A type, who : SameText(ts, n, type, who, r, text)
           /\ \A author, who : SamePush(ts, n, author, who, r, text)
<1> SUFFICES ASSUME NEW type, NEW who, NEW author
             PROVE  SameText(ts, n, type, who, r, text) /\ SamePush(ts, n, author, who, r, text)
  OBVIOUS
<1>1. PICK pub : pub = Pub(who) /\ IsSeq(pub)
  BY PubIsSeq
<1>2. PICK T : T = ToBytes(ts, 4) /\ IsSeq(T)
  BY SmallSeqs
<1>3. PICK F : F = <<FlagsByte(n, type)>> /\ F = <<FlagsByte(n % 4, type)>> /\ IsSeq(F)
  BY FlagsOfAttempt, SmallSeqs
<1>4. PICK G : G = <<FlagsByte(n, 2)>> /\ G = <<FlagsByte(n % 4, 2)>> /\ IsSeq(G)
  BY FlagsOfAttempt, SmallSeqs
<1>5. PICK K : K = SubSeq(Pub(author), 1, 4) /\ IsSeq(K)
  BY AuthorKey
<1>6. PICK a : a = T \o F /\ IsSeq(a)
  BY <1>2, <1>3, Joined2
<1>7. PICK b : b = T \o G /\ IsSeq(b)
  BY <1>2, <1>4, Joined2
<1>8. PICK c : c = b \o K /\ IsSeq(c)
  BY <1>5, <1>7, Joined2
<1>9. AckHashFor(ts, n % 4, r, who, type) = (a \o r) \o pub /\ AckHashFor(ts, n, text, who, type) = (a \o text) \o pub
  BY <1>1, <1>2, <1>3, <1>6, Zenon DEF AckHashFor, TextThroughEnd
<1>10. /\ RoomPushAckHash(ts, n % 4, author, r, who) = (c \o r) \o pub
       /\ RoomPushAckHash(ts, n, author, text, who) = (c \o text) \o pub
  BY <1>1, <1>2, <1>4, <1>5, <1>7, <1>8, Zenon DEF RoomPushAckHash, PushThroughText
<1>11. (a \o r) \o pub = (a \o text) \o pub => r = text
  BY <1>1, <1>6, BetweenSame
<1>12. (c \o r) \o pub = (c \o text) \o pub => r = text
  BY <1>1, <1>8, BetweenSame
<1> QED
  BY <1>9, <1>10, <1>11, <1>12, Zenon DEF SameText, SamePush

\* A packet that acknowledges between the two.
Acknowledges(a, p) ==
    \E dest, src, hash : /\ a = AckPacket(p, dest, src, hash) /\ HashFor(hash)
                         /\ SharedSecret(dest, src) = SharedSecret(Client, Room)

\* A text, an echo and a push are answered by an ACK for what was read.
LEMMA AckAnswer ==
    ASSUME MeantInv, msg.kind \in Acked, NEW p, NEW h, NEW r, AnsweredWith(p, h, r)
    PROVE  Acknowledges(AnswerPacket(p, h), p)
<1>1. msg \in Messages /\ DigestSound
  BY DEF MeantInv, IInv, Typed
<1>2. msg.kind \in {"txt", "echo", "push"}
  BY DEF Acked
<1>3. msg.text \in Seq(0..255) /\ IsSeq(msg.text) /\ Text(msg) = msg.text /\ msg.attempt \in Nat
  BY <1>1, <1>2, MessageFacts
<1>4. r \in Seq(Letter) /\ (Clean(msg.text) => r = msg.text)
  BY <1>2, <1>3 DEF AnsweredWith
<1>5. IsSeq(r) /\ (r = msg.text <=> Clean(msg.text))
  BY <1>4, SeqIsSeq, SurvivesWhenClean
<1>6. h = [from |-> Sender(msg), content |-> MeaningAs(msg, r)]
  BY DEF AnsweredWith
<1>7. SharedSecret(Room, Client) = SharedSecret(Client, Room)
  BY Nodes
<1>8. CASE msg.kind = "txt"
  <2>1. h = [from |-> Client, content |-> [ts |-> msg.ts, attempt |-> msg.attempt % 4, type |-> msg.type, text |-> r]]
    BY <1>6, <1>8 DEF Sender, MeaningAs
  <2>2. PICK pre : pre = AckHashFor(msg.ts, msg.attempt % 4, r, Client, msg.type)
    OBVIOUS
  <2>3. AnswerPacket(p, h) = AckPacket(p, Client, Room, Hash(pre))
    BY <1>8, <2>1, <2>2 DEF AnswerPacket
  <2>4. Expected(msg) = AckHashFor(msg.ts, msg.attempt, msg.text, Client, msg.type)
    BY <1>8 DEF Expected
  <2>5. pre = Expected(msg) <=> Clean(msg.text)
    <3>1. SameText(msg.ts, msg.attempt, msg.type, Client, r, msg.text)
      BY <1>3, <1>5, PreimageSame
    <3> QED
      BY <1>5, <2>2, <2>4, <3>1, Zenon DEF SameText, SamePush
  <2>6. HashFor(Hash(pre))
    BY <1>1, <2>5, HashOf
  <2> QED
    BY <2>3, <2>6 DEF Acknowledges
<1>9. CASE msg.kind = "echo"
  <2>0. msg.type = 0
    BY <1>1, <1>9, MessageFacts
  <2>1. h = [from |-> Room, content |-> [ts |-> msg.ts, attempt |-> msg.attempt % 4, type |-> msg.type, text |-> r]]
    BY <1>6, <1>9 DEF Sender, MeaningAs
  <2>2. PICK pre : pre = AckHashFor(msg.ts, msg.attempt % 4, r, Room, msg.type)
    OBVIOUS
  <2>3. AnswerPacket(p, h) = AckPacket(p, Room, Client, Hash(pre))
    BY <1>9, <2>1, <2>2 DEF AnswerPacket
  <2>4. Expected(msg) = AckHashFor(msg.ts, msg.attempt, msg.text, Room, msg.type)
    BY <1>9, <2>0 DEF Expected
  <2>5. pre = Expected(msg) <=> Clean(msg.text)
    <3>1. SameText(msg.ts, msg.attempt, msg.type, Room, r, msg.text)
      BY <1>3, <1>5, PreimageSame
    <3> QED
      BY <1>5, <2>2, <2>4, <3>1, Zenon DEF SameText, SamePush
  <2>6. HashFor(Hash(pre))
    BY <1>1, <2>5, HashOf
  <2> QED
    BY <1>7, <2>3, <2>6 DEF Acknowledges
<1>10. CASE msg.kind = "push"
  <2>1. h = [from |-> Room, content |-> [ts |-> msg.ts, attempt |-> msg.attempt % 4,
                                         author |-> SubSeq(Pub(Author), 1, 4), text |-> r]]
    BY <1>6, <1>10 DEF Sender, MeaningAs
  <2>2. PICK pre : pre = RoomPushAckHash(msg.ts, msg.attempt % 4, Author, r, Client)
    OBVIOUS
  <2>3. AnswerPacket(p, h) = AckPacket(p, Room, Client, Hash(pre))
    BY <1>10, <2>1, <2>2 DEF AnswerPacket
  <2>4. Expected(msg) = RoomPushAckHash(msg.ts, msg.attempt, Author, msg.text, Client)
    BY <1>10 DEF Expected
  <2>5. pre = Expected(msg) <=> Clean(msg.text)
    <3>1. SamePush(msg.ts, msg.attempt, Author, Client, r, msg.text)
      BY <1>3, <1>5, PreimageSame
    <3> QED
      BY <1>5, <2>2, <2>4, <3>1, Zenon DEF SameText, SamePush
  <2>6. HashFor(Hash(pre))
    BY <1>1, <2>5, HashOf
  <2> QED
    BY <1>7, <2>3, <2>6 DEF Acknowledges
<1> QED
  BY <1>2, <1>8, <1>9, <1>10

\* What the sender reads from an acknowledgement.
LEMMA AcknowledgeBack ==
    ASSUME NEW a, NEW p, ValidPath(p.path, p.size), Acknowledges(a, p)
    PROVE  /\ (\E b \in Back(a) : b.ack = digest) <=> Clean(msg.text)
           /\ a.type = PATH => \E b \in Back(a) : b.path = p.path /\ b.size = p.size
<1>1. PICK dest, src, hash : /\ a = AckPacket(p, dest, src, hash) /\ HashFor(hash)
                             /\ SharedSecret(dest, src) = SharedSecret(Client, Room)
  BY DEF Acknowledges
<1>2. IsSeq(hash) /\ Len(hash) = 4 /\ (hash = digest <=> Clean(msg.text))
  BY <1>1 DEF HashFor
<1>3. AckRead(a, hash) /\ (a.type = PATH => \E b \in Back(a) : b.path = p.path /\ b.size = p.size)
  BY <1>1, <1>2, AckBack
<1>4. (\E b \in Back(a) : b.ack = digest) <=> digest = hash
  BY <1>3 DEF AckRead
<1> QED
  BY <1>2, <1>3, <1>4

\* The sender of a text, an echo or a push knows the ACK for its own exactly
\* when its text survives decoding: also when the hash ends in zeros and
\* travels in a padded PATH, and for every text, time and attempt.
THEOREM AckIsKnown == Spec => []AckKnown
<1>1. MeantInv => AckKnown
  <2> SUFFICES ASSUME MeantInv, stage = "done", msg.kind \in Acked
               PROVE  (\E b \in back : b.ack = digest) <=> Clean(msg.text)
    BY DEF AckKnown
  <2>1. PICK p, h, r : AnsweredWith(p, h, r)
    BY DoneFacts
  <2>2. ValidPath(p.path, p.size) /\ back = Back(AnswerPacket(p, h))
    BY <2>1 DEF AnsweredWith
  <2>3. Acknowledges(AnswerPacket(p, h), p)
    BY <2>1, AckAnswer
  <2>4. (\E b \in Back(AnswerPacket(p, h)) : b.ack = digest) <=> Clean(msg.text)
    BY <2>2, <2>3, AcknowledgeBack
  <2> QED
    BY <2>2, <2>4
<1> QED
  BY <1>1, InitMeant, NextMeant, PTL DEF Spec

\* Where the byte at x, in the i-th of n hashes, comes from when they are reversed.
IndexIs(n, size, i, j, x) ==
    /\ x \in 1..(n * size)
    /\ n * size - size * ((x - 1) \div size + 1) + ((x - 1) % size) + 1 = (n + 1 - i - 1) * size + j

\* Where a byte of the i-th hash from the front is in the reversed path.
LEMMA HashIndex ==
    ASSUME NEW size \in 1..4, NEW n \in Nat, NEW i \in 1..n, NEW j \in 1..size
    PROVE  IndexIs(n, size, i, j, (i - 1) * size + j)
<1> PICK x : x = (i - 1) * size + j
  OBVIOUS
<1> USE DEF IndexIs
<1>1. CASE size = 1
  BY <1>1
<1>2. CASE size = 2
  BY <1>2
<1>3. CASE size = 3
  BY <1>3
<1>4. CASE size = 4
  BY <1>4
<1> QED
  BY <1>1, <1>2, <1>3, <1>4

\* Where the i-th hash begins and ends.
LEMMA HashBounds ==
    ASSUME NEW size \in 1..4, NEW n \in Nat, NEW i \in 1..n
    PROVE  /\ (i - 1) * size + 1 \in Nat \ {0} /\ i * size \in Nat
           /\ (i - 1) * size + 1 <= i * size + 1 /\ i * size <= n * size
           /\ i * size + 1 - ((i - 1) * size + 1) = size
           /\ ((i - 1) * size + 1) - 1 = (i - 1) * size
<1>1. CASE size = 1
  BY <1>1
<1>2. CASE size = 2
  BY <1>2
<1>3. CASE size = 3
  BY <1>3
<1>4. CASE size = 4
  BY <1>4
<1> QED
  BY <1>1, <1>2, <1>3, <1>4

\* The i-th of n hashes of a path.
HashPart(path, size, i)   == SubSeq(path, (i - 1) * size + 1, i * size)
HashHas(path, size, i, s) == IsSeq(s) /\ Len(s) = size /\ \A j \in 1..size : s[j] = path[(i - 1) * size + j]

\* The bytes of a hash.
LEMMA HashBytes ==
    ASSUME NEW path, NEW size \in 1..4, NEW n \in Nat, IsSeq(path), Len(path) = n * size, NEW i \in 1..n
    PROVE  HashHas(path, size, i, HashPart(path, size, i))
<1>1. PICK lo, hi : lo = (i - 1) * size + 1 /\ hi = i * size
  OBVIOUS
<1>2. /\ lo \in Nat \ {0} /\ hi \in Nat /\ lo <= hi + 1 /\ hi <= Len(path) /\ hi + 1 - lo = size
      /\ lo - 1 = (i - 1) * size
  BY <1>1, HashBounds
<1>3. PICK s : s = SubSeq(path, lo, hi) /\ PartHas(path, lo, hi, s)
  BY <1>2, PartTaken DEF PartOf
<1>4. /\ IsSeq(s) /\ Len(s) = size /\ \A j \in 1..size : s[j] = path[(i - 1) * size + j]
  BY <1>2, <1>3 DEF PartHas
<1> QED
  BY <1>1, <1>3, <1>4, Zenon DEF HashPart, HashHas

\* reverse_path turns the order of the hashes, not that of their bytes.
LEMMA ReversedHashes ==
    ASSUME NEW path, NEW size, ValidPath(path, size), NEW n, n = Len(path) \div size,
           NEW q, q = ReversePath(path, size)
    PROVE  /\ Len(q) = Len(path)
           /\ \A i \in 1..n : HashPart(q, size, i) = HashPart(path, size, n + 1 - i)
<1>1. IsSeq(path) /\ size \in 1..4 /\ Len(path) \in Nat /\ n \in Nat /\ Len(path) = n * size
  <2>1. IsSeq(path) /\ size \in 1..4 /\ Len(path) % size = 0 /\ n \in 0..63
    BY DEF ValidPath
  <2>2. Len(path) \in Nat
    BY <2>1, LengthOf
  <2>3. n * size = Len(path)
    BY <2>1, <2>2, WholeHashes
  <2> QED
    BY <2>1, <2>2, <2>3
<1>2. PICK l \in Nat : l = Len(path) /\ l = n * size /\ DOMAIN path = 1..l
  BY <1>1, LengthOf
<1>3. /\ q = [k \in 1..l |-> q[k]]
      /\ \A x \in 1..l : q[x] = path[l - size * ((x - 1) \div size + 1) + ((x - 1) % size) + 1]
  BY <1>2 DEF ReversePath
<1>4. IsSeq(q) /\ Len(q) = l
  BY <1>3, FunIsSeq
<1>5. ASSUME NEW i \in 1..n PROVE HashPart(q, size, i) = HashPart(path, size, n + 1 - i)
  <2>1. PICK k \in 1..n : k = n + 1 - i
    BY <1>1
  <2>2. PICK s : /\ s = HashPart(q, size, i) /\ IsSeq(s) /\ Len(s) = size
                 /\ \A j \in 1..size : s[j] = q[(i - 1) * size + j]
    <3>1. Len(q) = n * size
      BY <1>2, <1>4
    <3>2. HashHas(q, size, i, HashPart(q, size, i))
      BY <1>1, <1>4, <3>1, HashBytes
    <3> QED
      BY <3>2, Zenon DEF HashHas
  <2>3. PICK t : /\ t = HashPart(path, size, k) /\ IsSeq(t) /\ Len(t) = size
                 /\ \A j \in 1..size : t[j] = path[(k - 1) * size + j]
    <3>1. HashHas(path, size, k, HashPart(path, size, k))
      BY <1>1, HashBytes
    <3> QED
      BY <3>1, Zenon DEF HashHas
  <2>4. ASSUME NEW j \in 1..size PROVE s[j] = t[j]
    <3>1. PICK x : x = (i - 1) * size + j
      OBVIOUS
    <3>2. /\ x \in 1..l
          /\ l - size * ((x - 1) \div size + 1) + ((x - 1) % size) + 1 = (n + 1 - i - 1) * size + j
      <4>1. IndexIs(n, size, i, j, x)
        BY <1>1, <3>1, HashIndex, Zenon
      <4> QED
        BY <1>2, <4>1, Zenon DEF IndexIs
    <3>3. q[x] = path[(n + 1 - i - 1) * size + j]
      BY <1>3, <3>2, Zenon
    <3>4. n + 1 - i - 1 = k - 1
      BY <1>1, <2>1
    <3> QED
      BY <2>2, <2>3, <3>1, <3>3, <3>4, Zenon
  <2>5. s = t
    BY <2>2, <2>3, <2>4, SameEntries
  <2> QED
    BY <2>1, <2>2, <2>3, <2>5
<1> QED
  BY <1>2, <1>4, <1>5

\* A login response is read as it was built.
ResponseAs(t, ts, admin) ==
    LoginResponse(t) = [ts |-> ts, status |-> 0, admin |-> admin, permissions |-> IF admin THEN 3 ELSE 2]

\* try_decrypt_login_response undoes LoginResponseInner.
LEMMA ResponseRead ==
    ASSUME NEW ts, Time(ts), NEW admin \in BOOLEAN, NEW t,
           Ends(t, LoginResponseInner(ts, admin, IF admin THEN 3 ELSE 2, <<1, 2, 3, 0>>))
    PROVE  ResponseAs(t, ts, admin)
<1>1. PICK y, z : y = (IF admin THEN 1 ELSE 0) /\ z = (IF admin THEN 3 ELSE 2) % 256
  OBVIOUS
<1>2. (y # 0 <=> admin) /\ z = IF admin THEN 3 ELSE 2
  BY <1>1
<1>3. PICK T : T = ToBytes(ts, 4) /\ IsSeq(T) /\ Len(T) = 4
  BY FourBytes DEF Time
<1>4. PICK Q : Q = <<0, 0, y, z>> /\ IsSeq(Q) /\ Len(Q) = 4 /\ Q[1] = 0 /\ Q[3] = y /\ Q[4] = z
  <2>1. LET x == <<0, 0, y, z>> IN IsSeq(x) /\ Len(x) = 4 /\ x[1] = 0 /\ x[3] = y /\ x[4] = z
    BY SmallSeqs
  <2> QED
    BY <2>1, Zenon
<1>5. PICK B, U : B = <<1, 2, 3, 0>> /\ U = <<1>> /\ IsSeq(B) /\ IsSeq(U)
  BY SmallSeqs
<1>6. PICK a : a = T \o Q
  OBVIOUS
<1>7. IsSeq(a) /\ Len(a) = 8 /\ (\A i \in 1..4 : a[i] = T[i]) /\ a[5] = 0 /\ a[7] = y /\ a[8] = z
  <2>1. Joins(T, Q, a)
    BY <1>3, <1>4, <1>6, JoinIsSeq
  <2>2. IsSeq(a) /\ Len(a) = 8 /\ (\A i \in 1..4 : a[i] = T[i]) /\ \A i \in 1..4 : a[4 + i] = Q[i]
    <3>1. Len(T) = 4 /\ Len(Q) = 4
      BY <1>3, <1>4
    <3>2. IsSeq(a) /\ Len(a) = 4 + 4 /\ (\A i \in 1..4 : a[i] = T[i]) /\ \A i \in 1..4 : a[4 + i] = Q[i]
      BY <2>1, <3>1, Zenon DEF Joins
    <3> QED
      BY <3>2
  <2>3. a[4 + 1] = Q[1] /\ a[4 + 3] = Q[3] /\ a[4 + 4] = Q[4]
    BY <2>2
  <2> QED
    BY <1>4, <2>2, <2>3
<1>8. PICK c : c = B \o U /\ IsSeq(c)
  BY <1>5, Joined2
<1>9. LoginResponseInner(ts, admin, IF admin THEN 3 ELSE 2, <<1, 2, 3, 0>>) = a \o c
  <2>1. LoginResponseInner(ts, admin, IF admin THEN 3 ELSE 2, <<1, 2, 3, 0>>) = ((T \o Q) \o B) \o U
    BY <1>1, <1>3, <1>4, <1>5, Zenon DEF LoginResponseInner
  <2>2. (a \o B) \o U = a \o c
    BY <1>5, <1>7, <1>8, JoinParts
  <2> QED
    BY <1>6, <2>1, <2>2
<1>10. \A i \in 1..8 : t[i] = a[i]
  <2>1. PICK n \in Nat, m \in Nat : n = Len(a) /\ m = n + 1
    BY <1>7
  <2>2. Ends(t, a \o c)
    BY <1>9
  <2>3. IsSeq(a) /\ IsSeq(c)
    BY <1>7, <1>8
  <2>4. \A i \in 1..n : t[i] = a[i]
    BY <2>1, <2>2, <2>3, TailEnds
  <2> QED
    BY <1>7, <2>1, <2>4
<1>11. t[5] = 0 /\ t[7] = y /\ t[8] = z /\ \A i \in 1..4 : t[i] = T[i]
  BY <1>7, <1>10
<1>12. FromBytes4(t) = ts
  BY <1>3, <1>11, TimeRead
<1>13. (t[7] # 0) = admin
  BY <1>2, <1>11
<1> QED
  BY <1>2, <1>11, <1>12, <1>13 DEF ResponseAs, LoginResponse

\* The answer to a login, along the way back.
AlongThePath(p, a) ==
    /\ HashCount(p) > 0 => a.route = DIRECT /\ HashCount(a) = HashCount(p) /\ a.size = p.size
    /\ \A i \in 1..HashCount(p) : HashAt(a, i) = HashAt(p, HashCount(p) + 1 - i)

\* handle_login answers along the path of the login, from its end.
LEMMA ResponseRoute ==
    ASSUME NEW p, ValidPath(p.path, p.size), NEW h
    PROVE  AlongThePath(p, ResponsePacket(p, h))
<1>1. PICK path, size, n : path = p.path /\ size = p.size /\ n = HashCount(p)
  OBVIOUS
<1>2. n = Len(path) \div size /\ n \in 0..63 /\ ValidPath(path, size)
  BY <1>1 DEF HashCount, ValidPath
<1>3. PICK a : a = ResponsePacket(p, h)
  OBVIOUS
<1>4. CASE n = 0
  <2>1. \A i \in 1..n : FALSE
    BY <1>4
  <2> QED
    BY <1>1, <1>4, <2>1 DEF AlongThePath
<1>5. CASE n # 0
  <2>1. PICK q : q = ReversePath(path, size)
    OBVIOUS
  <2>2. ReturnRoute(p) = [route |-> DIRECT, path |-> q, size |-> size]
    BY <1>1, <1>5, <2>1 DEF ReturnRoute
  <2>3. a.route = DIRECT /\ a.path = q /\ a.size = size
    BY <1>3, <2>2 DEF ResponsePacket, BuildPacket
  <2>4. Len(q) = Len(path) /\ \A i \in 1..n : HashPart(q, size, i) = HashPart(path, size, n + 1 - i)
    BY <1>2, <2>1, ReversedHashes
  <2>5. HashCount(a) = n
    BY <1>2, <2>3, <2>4 DEF HashCount
  <2>6. \A i : HashAt(a, i) = HashPart(q, size, i) /\ HashAt(p, i) = HashPart(path, size, i)
    BY <1>1, <2>3 DEF HashAt, HashPart
  <2>7. \A i \in 1..n : HashAt(a, i) = HashAt(p, n + 1 - i)
    BY <2>4, <2>6
  <2> QED
    BY <1>1, <1>3, <2>3, <2>5, <2>7 DEF AlongThePath
<1> QED
  BY <1>4, <1>5

\* What the client reads from the answer to its login.
LEMMA ResponseBack ==
    ASSUME NEW p, NEW h, h.from = Client, Time(msg.ts), NEW admin \in BOOLEAN,
           admin <=> h.content.password = ADMIN
    PROVE  /\ ResponsePacket(p, h).type = RESPONSE
           /\ \E b \in Back(ResponsePacket(p, h)) :
                b.ts = msg.ts /\ b.admin = admin /\ b.permissions = IF admin THEN 3 ELSE 2
<1>1. Role(h.content.password) = "admin" <=> admin
  <2>1. ADMIN # GUEST
    BY DEF ADMIN, GUEST
  <2> QED
    BY <2>1 DEF Role
<1>2. PICK inner : inner = LoginResponseInner(msg.ts, admin, IF admin THEN 3 ELSE 2, <<1, 2, 3, 0>>)
  OBVIOUS
<1>3. PICK load : load = Datagram(Client, Room, inner)
  OBVIOUS
<1>4. PICK a : a = ResponsePacket(p, h) /\ a.type = RESPONSE /\ a.payload = load
  <2>1. PICK w : w = ReturnRoute(p)
    OBVIOUS
  <2>2. (Role(h.content.password) = "admin") = admin
    BY <1>1
  <2>3. PICK a : a = [route |-> w.route, type |-> RESPONSE, ver |-> 0, codes |-> <<>>, path |-> w.path, payload |-> load,
                      size |-> w.size]
    OBVIOUS
  <2>4. a.type = RESPONSE /\ a.payload = load
    BY <2>3
  <2>5. a = ResponsePacket(p, h)
    BY <1>2, <1>3, <2>1, <2>2, <2>3 DEF ResponsePacket, BuildPacket
  <2> QED
    BY <2>4, <2>5, Zenon
<1>5. IsSeq(inner) /\ inner # <<>>
  <2>1. PICK T : T = ToBytes(msg.ts, 4) /\ IsSeq(T) /\ Len(T) = 4
    BY FourBytes DEF Time
  <2>2. PICK Q : /\ Q = <<0, 0, IF admin THEN 1 ELSE 0, (IF admin THEN 3 ELSE 2) % 256>>
                 /\ IsSeq(Q)
    <3>1. \A x, y, z, w : IsSeq(<<x, y, z, w>>)
      BY SmallSeqs
    <3> QED
      BY <3>1, Zenon
  <2>3. PICK B, U : B = <<1, 2, 3, 0>> /\ U = <<1>> /\ IsSeq(B) /\ IsSeq(U)
    BY SmallSeqs
  <2>4. inner = ((T \o Q) \o B) \o U
    BY <1>2, <2>1, <2>2, <2>3, Zenon DEF LoginResponseInner
  <2>5. PICK c : c = B \o U /\ IsSeq(c)
    BY <2>3, Joined2
  <2>6. PICK a1 : a1 = T \o Q /\ IsSeq(a1)
    BY <2>1, <2>2, Joined2
  <2>7. PICK d : d = Q \o c /\ IsSeq(d)
    BY <2>2, <2>5, Joined2
  <2>8. (a1 \o B) \o U = a1 \o c
    BY <2>3, <2>5, <2>6, JoinParts
  <2>9. (T \o Q) \o c = T \o d
    BY <2>1, <2>2, <2>5, <2>7, JoinParts
  <2>10. inner = T \o d
    BY <2>4, <2>6, <2>8, <2>9
  <2> QED
    BY <2>1, <2>7, <2>10, Joined2, NotNothing
<1>6. PICK t : t = Padded(inner) /\ Ends(t, inner)
  BY <1>5, PaddedFacts
<1>7. Inner(load, 2) = t /\ Readable(load, 2, SharedSecret(Client, Room), 8)
  <2>1. 8 \in 0..16
    OBVIOUS
  <2> QED
    BY <1>3, <1>5, <1>6, <2>1, DatagramOpens
<1>8. ResponseAs(t, msg.ts, admin)
  BY <1>2, <1>6, ResponseRead
<1>9. Back(a) = {LoginResponse(t)}
  BY <1>4, <1>7 DEF Back, RESPONSE, ACK, PATH
<1>10. /\ LoginResponse(t).ts = msg.ts /\ LoginResponse(t).admin = admin
       /\ LoginResponse(t).permissions = IF admin THEN 3 ELSE 2
  BY <1>8 DEF ResponseAs
<1> QED
  BY <1>4, <1>9, <1>10

\* The way back: a PATH tells the sender the path that its flood took, as it
\* took it; a login is answered along that path from its end, hash by hash and
\* whatever the size of the hashes, and with the role its password gives.
THEOREM WayBackHolds == Spec => []WayBack
<1>1. MeantInv => WayBack
  <2> SUFFICES ASSUME MeantInv, stage = "done" PROVE WayBack
    BY DEF WayBack
  <2>1. msg \in Messages
    BY DoneFacts
  <2>2. PICK p, h, r : AnsweredWith(p, h, r)
    BY DoneFacts
  <2>3. PICK a : a = AnswerPacket(p, h)
    OBVIOUS
  <2>4. /\ The(inbound) = p /\ DecodePacket(answer) = a /\ back = Back(a) /\ ValidPath(p.path, p.size) /\ Answers(p, h)
        /\ h = [from |-> Sender(msg), content |-> MeaningAs(msg, r)]
    BY <2>2, <2>3 DEF AnsweredWith, The
  <2>5. SUFFICES /\ a.type = PATH => \E b \in Back(a) : b.path = p.path /\ b.size = p.size
                 /\ msg.kind = "login" =>
                    /\ AlongThePath(p, a)
                    /\ \E b \in Back(a) : /\ b.ts = msg.ts /\ b.permissions = IF b.admin THEN 3 ELSE 2
                                          /\ Clean(msg.text) => (b.admin <=> msg.text = ADMIN)
    BY <2>4 DEF WayBack, AlongThePath
  <2>6. msg.kind \in {"txt", "echo", "push", "login", "req", "grp", "advert"}
    BY <2>1, MessageFacts
  <2>7. CASE msg.kind \in Acked
    <3>1. Acknowledges(a, p)
      BY <2>2, <2>3, <2>7, AckAnswer
    <3>2. a.type = PATH => \E b \in Back(a) : b.path = p.path /\ b.size = p.size
      BY <2>4, <3>1, AcknowledgeBack
    <3>3. msg.kind # "login"
      BY <2>7 DEF Acked
    <3> QED
      BY <3>2, <3>3
  <2>8. CASE msg.kind = "req"
    <3>1. PICK extra : extra = ToBytes(msg.ts, 4) \o <<0>> /\ IsSeq(extra)
      BY SmallSeqs, Joined2
    <3>2. h = [from |-> Client, content |-> [ts |-> msg.ts, data |-> r]]
      BY <2>4, <2>8 DEF Sender, MeaningAs
    <3>3. a = BuildPathPacket(Client, Room, p.path, p.size, RESPONSE, extra)
      BY <2>3, <2>8, <3>1, <3>2 DEF AnswerPacket
    <3>4. PICK path, size, type : path = p.path /\ size = p.size /\ type = RESPONSE
      OBVIOUS
    <3>5. type \in 0..15 /\ ValidPath(path, size) /\ a = BuildPathPacket(Client, Room, path, size, type, extra)
      BY <2>4, <3>3, <3>4 DEF RESPONSE
    <3>6. \E b \in Back(a) : b.path = path /\ b.size = size
      BY <3>1, <3>5, PathBack
    <3> QED
      BY <2>8, <3>4, <3>6
  <2>9. CASE msg.kind = "login"
    <3>1. h.from = Client /\ h.content.password = r
      BY <2>4, <2>9 DEF Sender, MeaningAs
    <3>2. a = ResponsePacket(p, h)
      BY <2>3, <2>9 DEF AnswerPacket
    <3>3. AlongThePath(p, a)
      BY <2>4, <3>2, ResponseRoute
    <3>4. PICK admin \in BOOLEAN : admin <=> r = ADMIN
      OBVIOUS
    <3>5. Time(msg.ts) /\ Text(msg) = msg.text
      BY <2>1, <2>9, MessageFacts
    <3>6. admin <=> h.content.password = ADMIN
      BY <3>1, <3>4
    <3>7. a.type = RESPONSE
      BY <3>1, <3>2, <3>5, <3>6, ResponseBack
    <3>8. PICK b \in Back(a) : b.ts = msg.ts /\ b.admin = admin /\ b.permissions = IF admin THEN 3 ELSE 2
      BY <3>1, <3>2, <3>5, <3>6, ResponseBack
    <3>9. Clean(msg.text) => r = msg.text
      BY <2>2, <3>5 DEF AnsweredWith
    <3>10. Clean(msg.text) => (b.admin <=> msg.text = ADMIN)
      BY <3>4, <3>8, <3>9
    <3>11. b.permissions = IF b.admin THEN 3 ELSE 2
      BY <3>8
    <3>12. a.type # PATH
      BY <3>7 DEF RESPONSE, PATH
    <3> QED
      BY <3>3, <3>8, <3>10, <3>11, <3>12
  <2>10. CASE msg.kind \in {"grp", "advert"}
    <3>1. ~Answers(p, h)
      BY <2>10 DEF Answers, Acked
    <3> QED
      BY <2>4, <3>1
  <2> QED
    BY <2>6, <2>7, <2>8, <2>9, <2>10 DEF Acked
<1> QED
  BY <1>1, InitMeant, NextMeant, PTL DEF Spec
=============================================================================
