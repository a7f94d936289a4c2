---------------------------- MODULE GatewayProof ----------------------------
(***************************************************************************)
(* Proofs about both halves of a connection: Gateway, the duty cycle of    *)
(* what is transmitted, for every window, budget and message; and          *)
(* GatewayRx with Kiss, what reaches the bus of what the modem sent, for   *)
(* every set of frames, every loss and any number of connections.          *)
(*                                                                         *)
(* Sums of airtimes, joined sequences and the bytes a decoder takes one by *)
(* one are dealt with by induction, here in the form that every set of     *)
(* naturals has a least element.                                           *)
(***************************************************************************)
EXTENDS Gateway, GatewayRx, PacketProof

-----------------------------------------------------------------------------
(* Sums *)

\* Entries whose airtime can be summed up.
Timed(s) == Len(s) \in Nat /\ \A i \in 1..Len(s) : s[i].air \in Nat

\* The sums of the first n entries.
SumsTo(s, n, f) == f = [k \in 0..n |-> IF k = 0 THEN 0 ELSE f[k - 1] + s[k].air]

\* There are such sums.
LEMMA SumsExist == ASSUME NEW s, Timed(s) PROVE \E f : SumsTo(s, Len(s), f)
<1> DEFINE l == Len(s)
           H == {n \in 0..l : \E f : SumsTo(s, n, f)}
<1>1. l \in Nat
  BY DEF Timed
<1>2. 0 \in H
  <2> DEFINE f == [k \in 0..0 |-> 0]
  <2>1. SumsTo(s, 0, f)
    BY DEF SumsTo
  <2> QED
    BY <1>1, <2>1
<1>3. ASSUME NEW n \in 0..l, n > 0, n - 1 \in H PROVE n \in H
  <2>1. PICK f : SumsTo(s, n - 1, f)
    BY <1>3
  <2> DEFINE g == [k \in 0..n |-> IF k = n THEN f[n - 1] + s[n].air ELSE f[k]]
  <2>2. f = [k \in 0..(n - 1) |-> IF k = 0 THEN 0 ELSE f[k - 1] + s[k].air]
    BY <2>1 DEF SumsTo
  <2>3. ASSUME NEW k \in 0..n PROVE g[k] = IF k = 0 THEN 0 ELSE g[k - 1] + s[k].air
    <3>1. CASE k = n
      <4>1. k # 0 /\ n - 1 \in 0..n /\ n - 1 # n
        BY <1>1, <1>3, <3>1
      <4> QED
        BY <3>1, <4>1
    <3>2. CASE k # n /\ k = 0
      <4>1. 0 \in 0..(n - 1)
        BY <1>1, <1>3
      <4> QED
        BY <2>2, <3>2, <4>1
    <3>3. CASE k # n /\ k # 0
      <4>1. k \in 0..(n - 1) /\ k - 1 \in 0..n /\ k - 1 # n
        BY <1>1, <1>3, <3>3
      <4>2. g[k] = f[k] /\ g[k - 1] = f[k - 1]
        BY <3>3, <4>1
      <4>3. f[k] = f[k - 1] + s[k].air
        BY <2>2, <3>3, <4>1
      <4> QED
        BY <3>3, <4>2, <4>3
    <3> QED
      BY <3>1, <3>2, <3>3
  <2>4. g = [k \in 0..n |-> g[k]]
    OBVIOUS
  <2> HIDE DEF g
  <2>5. SumsTo(s, n, g)
    BY <2>3, <2>4 DEF SumsTo
  <2> QED
    BY <2>5
<1> HIDE DEF H
<1>4. 0..l \subseteq H
  BY <1>1, <1>2, <1>3, Induction
<1>5. l \in H
  BY <1>1, <1>4
<1> QED
  BY <1>5 DEF H

\* Running is what its definition says.
LEMMA RunningSums == ASSUME NEW s, Timed(s) PROVE SumsTo(s, Len(s), Running(s))
<1> DEFINE Is(f) == f = [n \in 0..Len(s) |-> IF n = 0 THEN 0 ELSE f[n - 1] + s[n].air]
<1>1. Running(s) = CHOOSE f : Is(f)
  BY DEF Running
<1>2. \E f : Is(f)
  BY SumsExist DEF SumsTo
<1>3. Is(Running(s))
  BY <1>1, <1>2
<1> QED
  BY <1>3 DEF SumsTo

\* ... step by step.
LEMMA RunningStep ==
    ASSUME NEW s, Timed(s)
    PROVE  /\ Running(s)[0] = 0
           /\ \A n \in 1..Len(s) : Running(s)[n] = Running(s)[n - 1] + s[n].air
<1> DEFINE r == Running(s)
<1>1. Len(s) \in Nat
  BY DEF Timed
<1>2. r = [k \in 0..Len(s) |-> IF k = 0 THEN 0 ELSE r[k - 1] + s[k].air]
  BY RunningSums DEF SumsTo
<1> HIDE DEF r
<1>3. r[0] = 0
  BY <1>1, <1>2
<1>4. ASSUME NEW n \in 1..Len(s) PROVE r[n] = r[n - 1] + s[n].air
  <2>1. n \in 0..Len(s) /\ n # 0
    BY <1>1
  <2> QED
    BY <1>2, <2>1
<1> QED
  BY <1>3, <1>4 DEF r

\* Sums are natural numbers and grow.
LEMMA RunningNat ==
    ASSUME NEW s, Timed(s)
    PROVE  \A n \in 0..Len(s) : Running(s)[n] \in Nat /\ Running(s)[n] <= Airtime(s)
<1> DEFINE r == Running(s)
           l == Len(s)
           H == {n \in 0..l : r[n] \in Nat}
           G == {n \in 0..l : r[l - n] <= r[l]}
<1>1. l \in Nat /\ \A n \in 1..l : s[n].air \in Nat
  BY DEF Timed
<1>2. r[0] = 0 /\ \A n \in 1..l : r[n] = r[n - 1] + s[n].air
  BY RunningStep
<1> HIDE DEF r, l
<1>3. 0 \in H
  BY <1>1, <1>2
<1>4. ASSUME NEW n \in 0..l, n > 0, n - 1 \in H PROVE n \in H
  <2>1. n \in 1..l
    BY <1>1, <1>4
  <2>2. r[n - 1] \in Nat /\ s[n].air \in Nat /\ r[n] = r[n - 1] + s[n].air
    BY <1>1, <1>2, <1>4, <2>1
  <2> QED
    BY <2>2
<1>5. \A n \in 0..l : r[n] \in Nat
  <2> HIDE DEF H
  <2>1. 0..l \subseteq H
    BY <1>1, <1>3, <1>4, Induction
  <2> QED
    BY <2>1 DEF H
<1>6. 0 \in G
  <2>1. l - 0 = l /\ l \in 0..l
    BY <1>1
  <2> QED
    BY <1>1, <1>5, <2>1
<1>7. ASSUME NEW n \in 0..l, n > 0, n - 1 \in G PROVE n \in G
  <2> DEFINE k == l - n
  <2>1. k \in 0..l /\ k + 1 \in 1..l /\ l - (n - 1) = k + 1 /\ (k + 1) - 1 = k
    BY <1>1, <1>7
  <2>2. r[l - (n - 1)] <= r[l]
    BY <1>7
  <2> HIDE DEF k
  <2>3. r[k + 1] <= r[l]
    BY <2>1, <2>2
  <2>4. r[k + 1] = r[k] + s[k + 1].air
    BY <1>2, <2>1
  <2>5. r[k] \in Nat /\ s[k + 1].air \in Nat /\ r[l] \in Nat
    BY <1>1, <1>5, <2>1
  <2>6. r[k] <= r[l]
    BY <2>3, <2>4, <2>5
  <2> QED
    BY <2>6 DEF k
<1>8. \A n \in 0..l : r[n] <= r[l]
  <2> HIDE DEF G
  <2>1. 0..l \subseteq G
    BY <1>1, <1>6, <1>7, Induction
  <2> SUFFICES ASSUME NEW n \in 0..l PROVE r[n] <= r[l]
    OBVIOUS
  <2>2. l - n \in 0..l /\ l - (l - n) = n
    BY <1>1
  <2>3. r[l - (l - n)] <= r[l]
    BY <2>1, <2>2 DEF G
  <2> QED
    BY <2>2, <2>3
<1> QED
  BY <1>5, <1>8 DEF r, l, Airtime

\* The m entries of s after the first a, and those of t after the first b,
\* have the same airtimes.
Alike(s, a, t, b, m) == \A i \in 1..m : s[a + i].air = t[b + i].air

\* Where two lists have the same airtimes, their sums grow alike.
LEMMA SameGrowth ==
    ASSUME NEW s, Timed(s), NEW t, Timed(t), NEW a \in Nat, NEW b \in Nat, NEW m \in Nat,
           a + m <= Len(s), b + m <= Len(t), Alike(s, a, t, b, m)
    PROVE  Running(s)[a + m] - Running(s)[a] = Running(t)[b + m] - Running(t)[b]
<1> DEFINE r == Running(s)
           q == Running(t)
           H == {n \in 0..m : r[a + n] - r[a] = q[b + n] - q[b]}
<1>1. Len(s) \in Nat /\ Len(t) \in Nat
  BY DEF Timed
<1>2. /\ \A n \in 1..Len(s) : r[n] = r[n - 1] + s[n].air
      /\ \A n \in 1..Len(t) : q[n] = q[n - 1] + t[n].air
  BY RunningStep
<1>3. (\A n \in 0..Len(s) : r[n] \in Nat) /\ \A n \in 0..Len(t) : q[n] \in Nat
  BY RunningNat
<1>4. (\A n \in 1..Len(s) : s[n].air \in Nat) /\ \A n \in 1..Len(t) : t[n].air \in Nat
  BY DEF Timed
<1> HIDE DEF r, q
<1>5. 0 \in H
  <2>1. a + 0 = a /\ b + 0 = b /\ a \in 0..Len(s) /\ b \in 0..Len(t)
    BY <1>1
  <2>2. r[a] \in Nat /\ q[b] \in Nat
    BY <1>3, <2>1
  <2> QED
    BY <2>1, <2>2
<1>6. ASSUME NEW n \in 0..m, n > 0, n - 1 \in H PROVE n \in H
  <2> DEFINE i == a + n
             j == b + n
  <2>1. /\ i \in 1..Len(s) /\ j \in 1..Len(t) /\ n \in 1..m
        /\ a + (n - 1) = i - 1 /\ b + (n - 1) = j - 1
        /\ i - 1 \in 0..Len(s) /\ j - 1 \in 0..Len(t) /\ a \in 0..Len(s) /\ b \in 0..Len(t)
    BY <1>1, <1>6
  <2>2. s[i].air = t[j].air
    <3>1. n \in 1..m
      BY <2>1
    <3> QED
      BY <3>1, Zenon DEF Alike
  <2>3. r[a + (n - 1)] - r[a] = q[b + (n - 1)] - q[b]
    BY <1>6
  <2> HIDE DEF i, j
  <2>4. r[i - 1] - r[a] = q[j - 1] - q[b]
    BY <2>1, <2>3
  <2>5. r[i] = r[i - 1] + s[i].air /\ q[j] = q[j - 1] + t[j].air
    BY <1>2, <2>1
  <2>6. /\ r[i - 1] \in Nat /\ r[a] \in Nat /\ q[j - 1] \in Nat /\ q[b] \in Nat
        /\ s[i].air \in Nat /\ t[j].air \in Nat
    BY <1>3, <1>4, <2>1
  <2> DEFINE e == s[i].air
             f == t[j].air
  <2>7. e = f /\ e \in Nat /\ f \in Nat /\ r[i] = r[i - 1] + e /\ q[j] = q[j - 1] + f
    BY <2>2, <2>5, <2>6
  <2> DEFINE r1 == r[i - 1]
             q1 == q[j - 1]
             ra == r[a]
             qb == q[b]
  <2>8. r1 \in Nat /\ ra \in Nat /\ q1 \in Nat /\ qb \in Nat /\ r1 - ra = q1 - qb
    BY <2>4, <2>6
  <2>9. r[i] = r1 + e /\ q[j] = q1 + f
    BY <2>7
  <2> HIDE DEF e, f, r1, q1, ra, qb
  <2>10. (r1 + e) - ra = (q1 + f) - qb
    BY <2>7, <2>8
  <2>11. r[i] - r[a] = q[j] - q[b]
    BY <2>9, <2>10 DEF ra, qb
  <2> QED
    BY <2>11 DEF i, j
<1> HIDE DEF H
<1>7. 0..m \subseteq H
  BY <1>5, <1>6, Induction
<1>8. m \in H
  BY <1>7
<1> QED
  BY <1>8 DEF H, r, q

\* A part of a list takes the time between its ends.
LEMMA PartOfList ==
    ASSUME NEW s, Timed(s), NEW t, Timed(t), NEW a \in Nat, NEW m \in Nat,
           a + m <= Len(s), m <= Len(t), Alike(s, a, t, 0, m)
    PROVE  Running(s)[a + m] = Running(s)[a] + Running(t)[m]
<1> DEFINE z == 0
<1>1. z \in Nat /\ z = 0 /\ z + m = m /\ z + m <= Len(t) /\ Alike(s, a, t, z, m)
  OBVIOUS
<1> HIDE DEF z
<1>2. Running(s)[a + m] - Running(s)[a] = Running(t)[z + m] - Running(t)[z]
  BY <1>1, SameGrowth
<1>3. Running(t)[z] = 0
  BY <1>1, RunningStep
<1>4. Running(s)[a + m] \in Nat /\ Running(s)[a] \in Nat /\ Running(t)[m] \in Nat
  <2>1. Len(s) \in Nat /\ Len(t) \in Nat
    BY DEF Timed
  <2>2. a + m \in 0..Len(s) /\ a \in 0..Len(s) /\ m \in 0..Len(t)
    BY <2>1
  <2> QED
    BY <2>2, RunningNat
<1> QED
  BY <1>1, <1>2, <1>3, <1>4

\* Lists that begin alike take as long.
LEMMA SameStart ==
    ASSUME NEW s, Timed(s), NEW t, Timed(t), NEW m \in Nat, m <= Len(s), m <= Len(t), Alike(s, 0, t, 0, m)
    PROVE  Running(s)[m] = Running(t)[m]
<1> DEFINE z == 0
<1>1. z \in Nat /\ z = 0 /\ z + m = m /\ z + m <= Len(s) /\ Alike(s, z, t, 0, m)
  OBVIOUS
<1> HIDE DEF z
<1>2. Running(s)[z + m] = Running(s)[z] + Running(t)[m]
  BY <1>1, PartOfList
<1>3. Running(s)[z] = 0
  BY <1>1, RunningStep
<1>4. Running(t)[m] \in Nat
  <2>1. Len(t) \in Nat
    BY DEF Timed
  <2>2. m \in 0..Len(t)
    BY <2>1
  <2> QED
    BY <2>2, RunningNat
<1> QED
  BY <1>1, <1>2, <1>3, <1>4

-----------------------------------------------------------------------------
(* The lists of transmissions *)

\* What a list of transmissions is.
Entries == [age : 0..Window, air : Airtimes]

\* Such a list can be summed up.
LEMMA EntriesTimed ==
    ASSUME NEW s \in Seq(Entries)
    PROVE  Timed(s) /\ Len(s) \in Nat /\ DOMAIN s = 1..Len(s) /\ \A i \in 1..Len(s) : s[i] \in Entries
<1>1. Len(s) \in Nat /\ DOMAIN s = 1..Len(s)
  BY LenProperties
<1>2. \A i \in 1..Len(s) : s[i] \in Entries
  BY <1>1, ElementOfSeq
<1>3. \A i \in 1..Len(s) : s[i].air \in Nat
  BY <1>2, GatewayAssumption DEF Entries
<1> QED
  BY <1>1, <1>2, <1>3 DEF Timed

\* Nothing takes no time.
LEMMA NoAirtime == Airtime(<<>>) = 0
<1>1. Len(<<>>) = 0
  OBVIOUS
<1>2. Timed(<<>>)
  BY <1>1 DEF Timed
<1> QED
  BY <1>1, <1>2, RunningStep DEF Airtime

\* One more entry takes its own time more.
LEMMA AirtimeOfAppend ==
    ASSUME NEW s \in Seq(Entries), NEW e \in Entries
    PROVE  Append(s, e) \in Seq(Entries) /\ Airtime(Append(s, e)) = Airtime(s) + e.air
<1> DEFINE t == Append(s, e)
           l == Len(s)
<1>1. l \in Nat
  BY LenProperties
<1>2. /\ t \in Seq(Entries) /\ Len(t) = l + 1
      /\ (\A i \in 1..l : t[i] = s[i]) /\ t[l + 1] = e
  BY AppendProperties
<1> HIDE DEF t
<1>3. Timed(s) /\ Timed(t)
  BY <1>2, EntriesTimed
<1>4. Running(s)[l] = Running(t)[l]
  <2>1. Alike(s, 0, t, 0, l)
    BY <1>2 DEF Alike
  <2>2. l <= Len(s) /\ l <= Len(t)
    BY <1>1, <1>2
  <2> HIDE DEF l
  <2> QED
    BY <1>1, <1>3, <2>1, <2>2, SameStart
<1>5. Running(t)[l + 1] = Running(t)[(l + 1) - 1] + t[l + 1].air
  <2>1. l + 1 \in 1..Len(t)
    BY <1>1, <1>2
  <2> QED
    BY <1>3, <2>1, RunningStep
<1>6. (l + 1) - 1 = l
  BY <1>1
<1>7. Running(t)[l + 1] = Running(s)[l] + e.air
  BY <1>2, <1>4, <1>5, <1>6
<1> QED
  BY <1>2, <1>7 DEF Airtime, t

\* The part of s after its first n entries.
Rest(s, n, t) ==
    /\ t \in Seq(Entries) /\ Len(t) \in Nat /\ Len(t) = Len(s) - n
    /\ \A i \in 1..Len(t) : t[i] = s[n + i]

\* So many entries at the front are as old as the window, and no more.
LEMMA ExpiredFacts ==
    ASSUME NEW s \in Seq(Entries)
    PROVE  /\ Expired(s) \in 0..Len(s)
           /\ \A i \in 1..Expired(s) : s[i].age >= Window
           /\ Expired(s) < Len(s) => s[Expired(s) + 1].age < Window
<1> DEFINE l == Len(s)
           Is(n) == /\ \A i \in 1..n : s[i].age >= Window
                    /\ n < l => s[n + 1].age < Window
           T == {k \in 0..l : k < l => s[k + 1].age < Window}
<1>1. l \in Nat /\ \A i \in 1..l : s[i] \in Entries
  BY EntriesTimed
<1>2. \A i \in 1..l : s[i].age \in Nat /\ Window \in Nat
  BY <1>1, GatewayAssumption DEF Entries
<1>3. l \in T
  BY <1>1
<1>4. T \subseteq Nat /\ T # {}
  BY <1>1, <1>3
<1>5. PICK n \in T : \A m \in T : n <= m
  BY <1>4, Least
<1>6. n \in 0..l /\ (n < l => s[n + 1].age < Window)
  BY <1>5
<1>7. ASSUME NEW i \in 1..n PROVE s[i].age >= Window
  <2> DEFINE k == i - 1
  <2>1. k \in 0..l /\ k < l /\ ~(n <= k) /\ k + 1 = i /\ i \in 1..l
    BY <1>1, <1>6
  <2> HIDE DEF k
  <2>2. k \notin T
    BY <1>5, <2>1
  <2>3. ~(s[i].age < Window)
    BY <2>1, <2>2
  <2> DEFINE g == s[i].age
  <2>4. g \in Nat /\ Window \in Nat /\ ~(g < Window)
    BY <1>2, <2>1, <2>3
  <2> HIDE DEF g
  <2>5. g >= Window
    BY <2>4
  <2> QED
    BY <2>5 DEF g
<1>8. \E m \in 0..l : Is(m)
  BY <1>6, <1>7
<1>9. Expired(s) = CHOOSE m \in 0..l : Is(m)
  BY DEF Expired
<1>10. Expired(s) \in 0..l /\ Is(Expired(s))
  <2> HIDE DEF l, Is
  <2> QED
    BY <1>8, <1>9
<1> QED
  BY <1>10

\* The young ones are the rest.
LEMMA YoungIsRest == ASSUME NEW s \in Seq(Entries) PROVE Rest(s, Expired(s), Young(s))
<1> DEFINE n == Expired(s)
           l == Len(s)
           m == n + 1
<1>1. n \in 0..l /\ l \in Nat
  BY ExpiredFacts, EntriesTimed
<1>2. Young(s) = SubSeq(s, m, l)
  BY DEF Young
<1> HIDE DEF n
<1>3. \A i \in m..l : s[i] \in Entries
  BY <1>1, EntriesTimed
<1>4. m \in Int /\ l \in Int /\ l - m + 1 = l - n /\ l - n \in Nat
  BY <1>1
<1>5. Len(SubSeq(s, m, l)) = l - n
  <2>1. Len(SubSeq(s, m, l)) = IF m <= l THEN l - m + 1 ELSE 0
    BY <1>3, <1>4, SubSeqProperties
  <2>2. (IF m <= l THEN l - m + 1 ELSE 0) = l - n
    BY <1>1
  <2> HIDE DEF m, l
  <2> QED
    BY <2>1, <2>2
<1>6. SubSeq(s, m, l) \in Seq(Entries) /\ \A i \in 1..(l - m + 1) : SubSeq(s, m, l)[i] = s[m + i - 1]
  BY <1>1, <1>3, <1>4, SubSeqProperties
<1>7. \A i \in 1..(l - n) : SubSeq(s, m, l)[i] = s[n + i]
  <2> SUFFICES ASSUME NEW i \in 1..(l - n) PROVE SubSeq(s, m, l)[i] = s[n + i]
    OBVIOUS
  <2>1. i \in 1..(l - m + 1) /\ m + i - 1 = n + i
    BY <1>1
  <2> HIDE DEF m
  <2>2. SubSeq(s, m, l)[i] = s[m + i - 1]
    BY <1>6, <2>1
  <2> QED
    BY <2>1, <2>2
<1> QED
  BY <1>2, <1>4, <1>5, <1>6, <1>7 DEF Rest, n

\* A rest takes what the entries before it do not.
LEMMA AirtimeOfRest ==
    ASSUME NEW s \in Seq(Entries), NEW n \in 0..Len(s), NEW t, Rest(s, n, t)
    PROVE  Airtime(s) = Running(s)[n] + Airtime(t)
<1> DEFINE m == Len(t)
<1>1. Timed(s) /\ Timed(t) /\ Len(s) \in Nat
  BY EntriesTimed DEF Rest
<1>2. m \in Nat /\ n + m = Len(s) /\ n + m <= Len(s) /\ m <= Len(t) /\ n \in Nat
  BY <1>1 DEF Rest
<1>3. Alike(s, n, t, 0, m)
  <2> SUFFICES ASSUME NEW i \in 1..m PROVE s[n + i].air = t[0 + i].air
    BY DEF Alike
  <2>1. 0 + i = i
    BY <1>2
  <2>2. t[i] = s[n + i]
    BY DEF Rest
  <2> QED
    BY <2>1, <2>2
<1> HIDE DEF m
<1>4. Running(s)[n + m] = Running(s)[n] + Running(t)[m]
  BY <1>1, <1>2, <1>3, PartOfList
<1> QED
  BY <1>2, <1>4 DEF Airtime, m

\* A tick makes every entry older, up to the window, and changes nothing else.
LEMMA OlderFacts ==
    ASSUME NEW s \in Seq(Entries)
    PROVE  /\ Older(s) \in Seq(Entries) /\ Len(Older(s)) = Len(s)
           /\ \A i \in 1..Len(s) : /\ Older(s)[i].air = s[i].air
                                   /\ Older(s)[i].age = IF s[i].age < Window THEN s[i].age + 1 ELSE s[i].age
<1> DEFINE l == Len(s)
           t == Older(s)
<1>1. l \in Nat /\ DOMAIN s = 1..l /\ \A i \in 1..l : s[i] \in Entries
  BY EntriesTimed
<1>2. t = [i \in 1..l |-> [s[i] EXCEPT !.age = IF @ < Window THEN @ + 1 ELSE @]]
  BY <1>1 DEF Older
<1> HIDE DEF l, t
<1>3. ASSUME NEW i \in 1..l
      PROVE  /\ t[i] \in Entries
             /\ t[i].air = s[i].air
             /\ t[i].age = IF s[i].age < Window THEN s[i].age + 1 ELSE s[i].age
  <2> DEFINE e == s[i]
             g == e.age
             h == IF g < Window THEN g + 1 ELSE g
  <2>1. e \in Entries /\ t[i] = [e EXCEPT !.age = h]
    BY <1>1, <1>2
  <2>2. g \in 0..Window /\ Window \in Nat
    BY <2>1, GatewayAssumption DEF Entries
  <2> HIDE DEF g
  <2>3. h \in 0..Window
    BY <2>2
  <2> HIDE DEF h, e
  <2>4. t[i] \in Entries /\ t[i].air = e.air /\ t[i].age = h
    BY <2>1, <2>3 DEF Entries
  <2> QED
    BY <2>4 DEF e, h, g
<1>4. t \in [1..l -> Entries]
  BY <1>2, <1>3
<1>5. t \in Seq(Entries) /\ Len(t) = l
  BY <1>1, <1>4, IsASeq, LenProperties
<1> QED
  BY <1>3, <1>5 DEF t, l

-----------------------------------------------------------------------------
(* Transmissions on the air and in the count *)

\* The first c transmissions on the air are the last c that are counted, and
\* each began before it was counted.
Matches(o, u, c) ==
    /\ c \in Nat /\ c <= Len(o) /\ c <= Len(u)
    /\ \A i \in 1..c : /\ o[i].air = u[(Len(u) - c) + i].air
                       /\ o[i].age >= u[(Len(u) - c) + i].age

\* The airtime of what is on the air is then counted.
LEMMA MatchedIsCounted ==
    ASSUME NEW o \in Seq(Entries), NEW u \in Seq(Entries), NEW c, Matches(o, u, c)
    PROVE  Running(o)[c] \in Nat /\ Airtime(u) \in Nat /\ Running(o)[c] <= Airtime(u)
<1> DEFINE l == Len(u)
           a == l - c
<1>1. Timed(o) /\ Timed(u) /\ l \in Nat /\ Len(o) \in Nat
  BY EntriesTimed
<1>2. c \in Nat /\ c <= l /\ c <= Len(o)
  BY DEF Matches
<1>3. a \in Nat /\ a + c = l /\ a + c <= Len(u) /\ a \in 0..Len(u) /\ l \in 0..Len(u) /\ c \in 0..Len(o)
  BY <1>1, <1>2
<1>4. Alike(u, a, o, 0, c)
  <2> SUFFICES ASSUME NEW i \in 1..c PROVE u[a + i].air = o[0 + i].air
    BY DEF Alike
  <2>1. 0 + i = i
    BY <1>2
  <2>2. o[i].air = u[a + i].air
    BY DEF Matches
  <2> QED
    BY <2>1, <2>2
<1> HIDE DEF a, l
<1>5. Running(u)[a + c] = Running(u)[a] + Running(o)[c]
  BY <1>1, <1>2, <1>3, <1>4, PartOfList
<1>6. Running(u)[a] \in Nat /\ Running(u)[l] \in Nat /\ Running(o)[c] \in Nat
  BY <1>1, <1>3, RunningNat
<1>7. Airtime(u) = Running(u)[l]
  BY DEF Airtime, l
<1> QED
  BY <1>3, <1>5, <1>6, <1>7

\* Time passes for both.
LEMMA MatchesOlder ==
    ASSUME NEW o \in Seq(Entries), NEW u \in Seq(Entries), NEW c, Matches(o, u, c)
    PROVE  Matches(Older(o), Older(u), c)
<1> DEFINE l == Len(u)
           p == Older(o)
           v == Older(u)
<1>1. l \in Nat /\ Len(o) \in Nat /\ c \in Nat /\ c <= Len(o) /\ c <= l
  BY EntriesTimed DEF Matches
<1>2. /\ Len(p) = Len(o) /\ Len(v) = l
      /\ \A i \in 1..Len(o) : /\ p[i].air = o[i].air
                              /\ p[i].age = IF o[i].age < Window THEN o[i].age + 1 ELSE o[i].age
      /\ \A i \in 1..l : /\ v[i].air = u[i].air
                         /\ v[i].age = IF u[i].age < Window THEN u[i].age + 1 ELSE u[i].age
  BY OlderFacts
<1>3. (\A i \in 1..Len(o) : o[i].age \in 0..Window) /\ \A i \in 1..l : u[i].age \in 0..Window
  BY EntriesTimed DEF Entries
<1> HIDE DEF p, v
<1>4. ASSUME NEW i \in 1..c
      PROVE  p[i].air = v[(l - c) + i].air /\ p[i].age >= v[(l - c) + i].age
  <2> DEFINE j == (l - c) + i
             g == o[i].age
             h == u[j].age
  <2>1. i \in 1..Len(o) /\ j \in 1..l
    BY <1>1
  <2>2. o[i].air = u[j].air /\ g >= h
    BY DEF Matches
  <2>3. g \in 0..Window /\ h \in 0..Window /\ Window \in Nat
    BY <1>3, <2>1, GatewayAssumption
  <2> HIDE DEF j
  <2>4. p[i].air = v[j].air
    BY <1>2, <2>1, <2>2
  <2>5. p[i].age = (IF g < Window THEN g + 1 ELSE g) /\ v[j].age = (IF h < Window THEN h + 1 ELSE h)
    BY <1>2, <2>1
  <2> HIDE DEF g, h
  <2>6. (IF g < Window THEN g + 1 ELSE g) >= (IF h < Window THEN h + 1 ELSE h)
    BY <2>2, <2>3
  <2>7. p[i].age >= v[j].age
    BY <2>5, <2>6
  <2> QED
    BY <2>4, <2>7 DEF j
<1> QED
  BY <1>1, <1>2, <1>4 DEF Matches, p, v

\* What leaves the window leaves the air first.
LEMMA MatchesLeft ==
    ASSUME NEW o \in Seq(Entries), NEW u \in Seq(Entries), NEW c, Matches(o, u, c),
           NEW n \in 0..c, NEW p, Rest(o, n, p)
    PROVE  Matches(p, u, c - n)
<1> DEFINE l == Len(u)
           d == c - n
<1>1. l \in Nat /\ Len(o) \in Nat /\ c \in Nat /\ c <= Len(o) /\ c <= l
  BY EntriesTimed DEF Matches
<1>2. Len(p) = Len(o) - n /\ Len(p) \in Nat
  BY DEF Rest
<1>3. d \in Nat /\ d <= Len(p) /\ d <= l
  BY <1>1, <1>2
<1>4. ASSUME NEW i \in 1..d PROVE p[i].air = u[(l - d) + i].air /\ p[i].age >= u[(l - d) + i].age
  <2>1. i \in 1..Len(p) /\ n + i \in 1..c /\ (l - c) + (n + i) = (l - d) + i
    BY <1>1, <1>2, <1>3
  <2>2. p[i] = o[n + i]
    BY <2>1 DEF Rest
  <2>3. o[n + i].air = u[(l - c) + (n + i)].air /\ o[n + i].age >= u[(l - c) + (n + i)].age
    BY <2>1 DEF Matches
  <2> HIDE DEF d, l
  <2> QED
    BY <2>1, <2>2, <2>3
<1> QED
  BY <1>3, <1>4 DEF Matches

\* What leaves the count is not on the air any more.
LEMMA MatchesKept ==
    ASSUME NEW o \in Seq(Entries), NEW u \in Seq(Entries), NEW c, Matches(o, u, c),
           \A i \in 1..Len(o) : o[i].age < Window
    PROVE  Matches(o, Young(u), c)
<1> DEFINE l == Len(u)
           n == Expired(u)
           v == Young(u)
           k == Len(v)
<1>1. l \in Nat /\ Len(o) \in Nat /\ c \in Nat /\ c <= Len(o) /\ c <= l
  BY EntriesTimed DEF Matches
<1>2. n \in 0..l /\ \A i \in 1..n : u[i].age >= Window
  BY ExpiredFacts
<1>3. k = l - n /\ k \in Nat /\ \A i \in 1..k : v[i] = u[n + i]
  BY YoungIsRest DEF Rest
<1> HIDE DEF n, v, k
<1>4. c <= k
  <2> SUFFICES ASSUME ~(c <= k) PROVE FALSE
    BY <1>1, <1>3
  <2> DEFINE i == n - (l - c)
             g == o[i].age
             h == u[n].age
  <2>1. i \in 1..c /\ i \in 1..Len(o) /\ (l - c) + i = n /\ n \in 1..n /\ n \in 1..l
    BY <1>1, <1>2, <1>3
  <2>2. o[i].age >= u[(l - c) + i].age
    BY <2>1 DEF Matches
  <2> HIDE DEF i
  <2>3. g >= h /\ g < Window /\ h >= Window
    BY <1>2, <2>1, <2>2
  <2>4. g \in Nat /\ h \in Nat /\ Window \in Nat
    <3>1. o[i] \in Entries /\ u[n] \in Entries
      BY <2>1, EntriesTimed
    <3>2. Window \in Nat
      BY GatewayAssumption
    <3> QED
      BY <3>1, <3>2 DEF Entries
  <2> HIDE DEF g, h
  <2> QED
    BY <2>3, <2>4
<1>5. ASSUME NEW i \in 1..c PROVE o[i].air = v[(k - c) + i].air /\ o[i].age >= v[(k - c) + i].age
  <2>1. (k - c) + i \in 1..k /\ n + ((k - c) + i) = (l - c) + i
    BY <1>1, <1>2, <1>3, <1>4
  <2>2. v[(k - c) + i] = u[n + ((k - c) + i)]
    BY <1>3, <2>1
  <2>3. o[i].air = u[(l - c) + i].air /\ o[i].age >= u[(l - c) + i].age
    BY DEF Matches
  <2> HIDE DEF l
  <2> QED
    BY <2>1, <2>2, <2>3
<1> QED
  BY <1>1, <1>4, <1>5 DEF Matches, k, v

-----------------------------------------------------------------------------
(* Oldest first *)

\* A list with its oldest entries first, and two lists of which the first is
\* the older.
Sorted(s) == \A i, j \in 1..Len(s) : i <= j => s[i].age >= s[j].age

Precedes(s, t) == \A i \in 1..Len(s), j \in 1..Len(t) : s[i].age >= t[j].age

\* Entries that have not left the window.
Fresh(s) == \A i \in 1..Len(s) : s[i].age < Window

\* Of two ages, the greater stays the greater.
LEMMA OlderMonotone ==
    ASSUME NEW s \in Seq(Entries), NEW t \in Seq(Entries), NEW i \in 1..Len(s), NEW j \in 1..Len(t),
           s[i].age >= t[j].age
    PROVE  Older(s)[i].age >= Older(t)[j].age
<1> DEFINE g == s[i].age
           h == t[j].age
<1>1. s[i] \in Entries /\ t[j] \in Entries
  BY EntriesTimed
<1>2. g \in Nat /\ h \in Nat /\ g >= h /\ g <= Window /\ h <= Window /\ Window \in Nat
  BY <1>1, GatewayAssumption DEF Entries
<1>3. Older(s)[i].age = (IF g < Window THEN g + 1 ELSE g) /\ Older(t)[j].age = (IF h < Window THEN h + 1 ELSE h)
  BY OlderFacts
<1> HIDE DEF g, h
<1>4. (IF g < Window THEN g + 1 ELSE g) >= (IF h < Window THEN h + 1 ELSE h)
  BY <1>2
<1> QED
  BY <1>3, <1>4

\* Time keeps the order.
LEMMA OlderOrdered ==
    ASSUME NEW s \in Seq(Entries), NEW t \in Seq(Entries)
    PROVE  /\ Sorted(s) => Sorted(Older(s))
           /\ Precedes(s, t) => Precedes(Older(s), Older(t))
<1>1. Len(Older(s)) = Len(s) /\ Len(Older(t)) = Len(t)
  BY OlderFacts
<1>2. ASSUME Sorted(s) PROVE Sorted(Older(s))
  BY <1>1, <1>2, OlderMonotone DEF Sorted
<1>3. ASSUME Precedes(s, t) PROVE Precedes(Older(s), Older(t))
  BY <1>1, <1>3, OlderMonotone DEF Precedes
<1> QED
  BY <1>2, <1>3

\* What is left of a sorted list is sorted, and has not left the window.
LEMMA YoungOrdered ==
    ASSUME NEW s \in Seq(Entries), Sorted(s)
    PROVE  Young(s) \in Seq(Entries) /\ Sorted(Young(s)) /\ Fresh(Young(s))
<1> DEFINE n == Expired(s)
           t == Young(s)
<1>1. /\ n \in 0..Len(s) /\ Len(s) \in Nat
      /\ n < Len(s) => s[n + 1].age < Window
  BY ExpiredFacts, EntriesTimed
<1>2. t \in Seq(Entries) /\ Len(t) \in Nat /\ Len(t) = Len(s) - n /\ \A i \in 1..Len(t) : t[i] = s[n + i]
  BY YoungIsRest DEF Rest
<1> HIDE DEF n, t
<1>3. Sorted(t)
  <2> SUFFICES ASSUME NEW i \in 1..Len(t), NEW j \in 1..Len(t), i <= j PROVE t[i].age >= t[j].age
    BY DEF Sorted
  <2>1. n + i \in 1..Len(s) /\ n + j \in 1..Len(s) /\ n + i <= n + j
    BY <1>1, <1>2
  <2> QED
    BY <1>2, <2>1 DEF Sorted
<1>4. Fresh(t)
  <2> SUFFICES ASSUME NEW i \in 1..Len(t) PROVE t[i].age < Window
    BY DEF Fresh
  <2> DEFINE k == n + 1
             m == n + i
             g == s[m].age
             h == s[k].age
  <2>1. n < Len(s) /\ k \in 1..Len(s) /\ m \in 1..Len(s) /\ k <= m
    BY <1>1, <1>2
  <2>2. h >= g /\ h < Window
    BY <1>1, <2>1 DEF Sorted
  <2>3. s[m] \in Entries /\ s[k] \in Entries
    BY <2>1, EntriesTimed
  <2>4. g \in Nat /\ h \in Nat /\ Window \in Nat
    BY <2>3, GatewayAssumption DEF Entries
  <2> HIDE DEF g, h
  <2>5. g < Window
    BY <2>2, <2>4
  <2> QED
    BY <1>2, <2>5 DEF g
<1> QED
  BY <1>2, <1>3, <1>4 DEF t

\* What is left of the older list is older than what is left of the younger.
LEMMA YoungPrecede ==
    ASSUME NEW s \in Seq(Entries), NEW t \in Seq(Entries), Precedes(s, t)
    PROVE  Precedes(Young(s), Young(t))
<1> DEFINE n == Expired(s)
           m == Expired(t)
           u == Young(s)
           v == Young(t)
<1>1. n \in 0..Len(s) /\ Len(s) \in Nat /\ m \in 0..Len(t) /\ Len(t) \in Nat
  BY ExpiredFacts, EntriesTimed
<1>2. /\ Len(u) \in Nat /\ Len(u) = Len(s) - n /\ \A i \in 1..Len(u) : u[i] = s[n + i]
      /\ Len(v) \in Nat /\ Len(v) = Len(t) - m /\ \A i \in 1..Len(v) : v[i] = t[m + i]
  BY YoungIsRest DEF Rest
<1> HIDE DEF n, m, u, v
<1> SUFFICES ASSUME NEW i \in 1..Len(u), NEW j \in 1..Len(v) PROVE u[i].age >= v[j].age
  BY DEF Precedes, u, v
<1>3. n + i \in 1..Len(s) /\ m + j \in 1..Len(t)
  BY <1>1, <1>2
<1>4. s[n + i].age >= t[m + j].age
  BY <1>3 DEF Precedes
<1> QED
  BY <1>2, <1>4

\* The older list and the younger one after it are sorted.
LEMMA ConcatOrdered ==
    ASSUME NEW s \in Seq(Entries), NEW t \in Seq(Entries), Sorted(s), Sorted(t), Precedes(s, t), Fresh(s), Fresh(t)
    PROVE  s \o t \in Seq(Entries) /\ Sorted(s \o t) /\ Fresh(s \o t)
<1> DEFINE u == s \o t
           l == Len(s)
<1>1. l \in Nat /\ Len(t) \in Nat
  BY LenProperties
<1>2. /\ u \in Seq(Entries) /\ Len(u) = l + Len(t)
      /\ \A i \in 1..Len(u) : u[i] = IF i <= l THEN s[i] ELSE t[i - l]
  BY ConcatProperties
<1> HIDE DEF u, l
<1>3. ASSUME NEW i \in 1..Len(u)
      PROVE  \/ i <= l /\ i \in 1..l /\ u[i] = s[i]
             \/ ~(i <= l) /\ i - l \in 1..Len(t) /\ u[i] = t[i - l]
  BY <1>1, <1>2
<1>4. Fresh(u)
  <2> SUFFICES ASSUME NEW i \in 1..Len(u) PROVE u[i].age < Window
    BY DEF Fresh
  <2> QED
    BY <1>3 DEF Fresh, l
<1>5. Sorted(u)
  <2> SUFFICES ASSUME NEW i \in 1..Len(u), NEW j \in 1..Len(u), i <= j PROVE u[i].age >= u[j].age
    BY DEF Sorted
  <2>1. CASE j <= l
    <3>1. i <= l
      BY <1>1, <1>2, <2>1
    <3>2. u[i] = s[i] /\ u[j] = s[j] /\ i \in 1..l /\ j \in 1..l
      BY <1>3, <2>1, <3>1
    <3> QED
      BY <3>2 DEF Sorted, l
  <2>2. CASE i <= l /\ ~(j <= l)
    <3>1. u[i] = s[i] /\ i \in 1..l /\ u[j] = t[j - l] /\ j - l \in 1..Len(t)
      BY <1>3, <2>2
    <3>2. s[i].age >= t[j - l].age
      BY <3>1 DEF Precedes, l
    <3> QED
      BY <3>1, <3>2
  <2>3. CASE ~(i <= l) /\ ~(j <= l)
    <3>1. u[i] = t[i - l] /\ i - l \in 1..Len(t) /\ u[j] = t[j - l] /\ j - l \in 1..Len(t)
      BY <1>3, <2>3
    <3>2. i - l <= j - l
      BY <1>1, <1>2
    <3>3. t[i - l].age >= t[j - l].age
      BY <3>1, <3>2 DEF Sorted
    <3> QED
      BY <3>1, <3>3
  <2> QED
    BY <2>1, <2>2, <2>3
<1> QED
  BY <1>2, <1>4, <1>5 DEF u

\* So is a list with a new entry at its end.
LEMMA AppendOrdered ==
    ASSUME NEW s \in Seq(Entries), Sorted(s), Fresh(s), NEW e \in Entries, e.age = 0
    PROVE  /\ Sorted(Append(s, e)) /\ Fresh(Append(s, e))
           /\ \A r \in Seq(Entries) : Precedes(r, s) => Precedes(r, Append(s, e))
<1> DEFINE u == Append(s, e)
           l == Len(s)
<1>1. l \in Nat
  BY LenProperties
<1>2. u \in Seq(Entries) /\ Len(u) = l + 1 /\ (\A i \in 1..l : u[i] = s[i]) /\ u[l + 1] = e
  BY AppendProperties
<1> HIDE DEF u, l
<1>3. \A i \in 1..Len(u) : (i \in 1..l /\ u[i] = s[i]) \/ (i = l + 1 /\ u[i].age = 0)
  BY <1>1, <1>2
<1>4. \A r \in Seq(Entries) : \A i \in 1..Len(r) : r[i].age >= 0
  <2> SUFFICES ASSUME NEW r \in Seq(Entries), NEW i \in 1..Len(r) PROVE r[i].age >= 0
    OBVIOUS
  <2> DEFINE g == r[i].age
  <2>1. r[i] \in Entries
    BY EntriesTimed
  <2>2. g \in 0..Window
    BY <2>1 DEF Entries
  <2> HIDE DEF g
  <2>3. g >= 0
    BY <2>2
  <2> QED
    BY <2>3 DEF g
<1>5. Fresh(u)
  <2> SUFFICES ASSUME NEW i \in 1..Len(u) PROVE u[i].age < Window
    BY DEF Fresh
  <2>1. 0 < Window
    BY GatewayAssumption
  <2> QED
    BY <1>3, <2>1 DEF Fresh, l
<1>6. Sorted(u)
  <2> SUFFICES ASSUME NEW i \in 1..Len(u), NEW j \in 1..Len(u), i <= j PROVE u[i].age >= u[j].age
    BY DEF Sorted
  <2>1. CASE j = l + 1
    BY <1>2, <1>3, <1>4, <2>1
  <2>2. CASE j \in 1..l
    <3>1. i \in 1..l
      BY <1>1, <1>2, <2>2
    <3> QED
      BY <1>2, <2>2, <3>1 DEF Sorted, l
  <2> QED
    BY <1>3, <2>1, <2>2
<1>7. ASSUME NEW r \in Seq(Entries), Precedes(r, s) PROVE Precedes(r, u)
  <2> SUFFICES ASSUME NEW i \in 1..Len(r), NEW j \in 1..Len(u) PROVE r[i].age >= u[j].age
    BY DEF Precedes
  <2>1. CASE j \in 1..l /\ u[j] = s[j]
    BY <1>7, <2>1 DEF Precedes, l
  <2>2. CASE u[j].age = 0
    BY <1>4, <2>2
  <2> QED
    BY <1>3, <2>1, <2>2
<1> QED
  BY <1>5, <1>6, <1>7 DEF u

-----------------------------------------------------------------------------
(* The inductive invariant *)

\* The variables of run() and the task have their types.
Typed ==
    /\ pc \in {"serial", "connect", "announce", "serving"}
    /\ backoff \in 1..MaxBackoff
    /\ wait \in 0..MaxBackoff
    /\ status \in {"none", "up", "down"}
    /\ reading \in BOOLEAN
    /\ tx \in [pc : {"off", "recv", "flush", "sleep", "drain"}, air : Airtimes \cup {0}, wait : 0..Window]

\* mqtt_to_serial runs only while run() serves a connection; a message that
\* waits or is being written has an airtime.
TaskSound ==
    /\ pc # "serving" => tx.pc = "off"
    /\ tx.pc \in {"flush", "sleep", "drain"} => tx.air \in Airtimes

\* The transmissions are kept oldest first.
Ordered ==
    /\ usage \in Seq(Entries) /\ onAir \in Seq(Entries) /\ earlier \in Seq(Entries)
    /\ Sorted(onAir) /\ Fresh(onAir)
    /\ Sorted(earlier) /\ Fresh(earlier)
    /\ Precedes(earlier, onAir)

\* What is on the air is counted, except for a message that is being drained;
\* when that one has left the window, so have all before it.
Counted ==
    IF tx.pc = "drain"
    THEN \/ onAir = <<>>
         \/ Matches(onAir, usage, Len(onAir) - 1) /\ onAir[Len(onAir)].air = tx.air
    ELSE Matches(onAir, usage, Len(onAir))

\* The sum that is kept is the sum of the list, and within the budget together
\* with what is being drained.
Budgeted ==
    /\ used = Airtime(usage) /\ used \in Nat
    /\ used + (IF tx.pc = "drain" THEN tx.air ELSE 0) <= Budget

IInv == Typed /\ TaskSound /\ Ordered /\ Counted /\ Budgeted

\* Airtimes are what an entry may have.
LEMMA NewEntry == ASSUME NEW a \in Airtimes PROVE [age |-> 0, air |-> a] \in Entries
BY GatewayAssumption DEF Entries

\* Nothing on the air is always counted.
LEMMA NothingMatches == ASSUME NEW u \in Seq(Entries) PROVE Matches(<<>>, u, 0)
<1>1. Len(<<>>) = 0 /\ Len(u) \in Nat
  BY LenProperties
<1> QED
  BY <1>1 DEF Matches

\* No transmissions are in every order.
LEMMA NothingOrdered ==
    /\ <<>> \in Seq(Entries) /\ Sorted(<<>>) /\ Fresh(<<>>)
    /\ \A s : Precedes(s, <<>>)
<1>1. Len(<<>>) = 0 /\ <<>> \in Seq(Entries)
  OBVIOUS
<1> QED
  BY <1>1 DEF Sorted, Fresh, Precedes

\* Nothing has been transmitted at the start.
LEMMA InitInv == Init => IInv
<1> SUFFICES ASSUME Init PROVE IInv
  OBVIOUS
<1>0. 1 \in 1..MaxBackoff /\ 0 \in 0..MaxBackoff /\ 0 \in 0..Window
  BY GatewayAssumption
<1>1. Typed /\ TaskSound
  BY <1>0 DEF Init, Typed, TaskSound, TxOff
<1>2. usage = <<>> /\ onAir = <<>> /\ earlier = <<>> /\ used = 0 /\ tx.pc = "off"
  BY DEF Init, TxOff
<1>3. Ordered
  BY <1>2, NothingOrdered DEF Ordered
<1>4. Counted
  <2>1. Len(<<>>) = 0 /\ <<>> \in Seq(Entries)
    OBVIOUS
  <2>2. Matches(<<>>, <<>>, 0)
    BY <2>1, NothingMatches
  <2> QED
    BY <1>2, <2>1, <2>2 DEF Counted
<1>5. Budgeted
  <2>1. used + 0 <= Budget /\ used \in Nat
    BY <1>2, GatewayAssumption
  <2> QED
    BY <1>2, <2>1, NoAirtime DEF Budgeted
<1> QED
  BY <1>1, <1>3, <1>4, <1>5 DEF IInv

\* Steps that transmit and count nothing.
LEMMA IdleInv ==
    ASSUME IInv, UNCHANGED meter, tx.pc # "drain", tx'.pc # "drain"
    PROVE  Ordered' /\ Counted' /\ Budgeted'
<1>1. usage' = usage /\ used' = used /\ onAir' = onAir /\ earlier' = earlier
  BY DEF meter, past
<1>2. Ordered'
  BY <1>1 DEF IInv, Ordered
<1>3. Counted'
  BY <1>1 DEF IInv, Counted
<1>4. Budgeted'
  BY <1>1 DEF IInv, Budgeted
<1> QED
  BY <1>2, <1>3, <1>4

\* ... whatever the task is at.
LEMMA SameTaskInv ==
    ASSUME IInv, UNCHANGED <<tx, meter>>
    PROVE  Ordered' /\ Counted' /\ Budgeted'
<1>1. usage' = usage /\ used' = used /\ onAir' = onAir /\ earlier' = earlier /\ tx' = tx
  BY DEF meter, past
<1> QED
  BY <1>1 DEF IInv, Ordered, Counted, Budgeted

\* The end of the bridge starts a new count.
LEMMA StopInv ==
    ASSUME IInv, StopBridge
    PROVE  tx'.pc = "off" /\ reading' \in BOOLEAN /\ Ordered' /\ Counted' /\ Budgeted'
<1>1. tx' = TxOff /\ usage' = <<>> /\ used' = 0 /\ onAir' = <<>> /\ earlier' = earlier \o onAir /\ reading' = FALSE
  BY DEF StopBridge
<1>2. tx'.pc = "off"
  BY <1>1 DEF TxOff
<1>3. earlier \o onAir \in Seq(Entries) /\ Sorted(earlier \o onAir) /\ Fresh(earlier \o onAir)
  BY ConcatOrdered DEF IInv, Ordered
<1>4. Ordered'
  BY <1>1, <1>3, NothingOrdered DEF Ordered
<1>5. Counted'
  <2>1. Len(<<>>) = 0 /\ <<>> \in Seq(Entries)
    OBVIOUS
  <2>2. Matches(<<>>, <<>>, 0)
    BY <2>1, NothingMatches
  <2> QED
    BY <1>1, <1>2, <2>1, <2>2 DEF Counted
<1>6. Budgeted'
  <2>1. 0 + 0 <= Budget /\ 0 \in Nat
    BY GatewayAssumption
  <2> QED
    BY <1>1, <1>2, <2>1, NoAirtime DEF Budgeted
<1> QED
  BY <1>1, <1>2, <1>4, <1>5, <1>6

\* flush() takes from the sum what it takes from the list.
LEMMA EvictionExact ==
    ASSUME IInv
    PROVE  Kept \in Seq(Entries) /\ UsedNow = Airtime(Kept) /\ UsedNow \in Nat /\ UsedNow <= used
<1> DEFINE n == Expired(usage)
           l == Len(usage)
           v == SubSeq(usage, 1, n)
           x == Airtime(Evicted)
           k == Airtime(Kept)
<1>1. usage \in Seq(Entries) /\ used = Airtime(usage) /\ used \in Nat
  BY DEF IInv, Ordered, Budgeted
<1>2. n \in 0..l /\ l \in Nat
  BY <1>1, ExpiredFacts, EntriesTimed
<1>3. Rest(usage, n, Kept)
  BY <1>1, YoungIsRest DEF Kept
<1>4. Kept \in Seq(Entries)
  BY <1>3 DEF Rest
<1>5. Airtime(usage) = Running(usage)[n] + Airtime(Kept)
  BY <1>1, <1>2, <1>3, AirtimeOfRest
<1> HIDE DEF n
<1>6. v \in Seq(Entries) /\ Len(v) = n /\ \A i \in 1..n : v[i] = usage[i]
  <2>1. \A i \in 1..n : usage[i] \in Entries
    BY <1>1, <1>2, EntriesTimed
  <2>2. 1 \in Int /\ n \in Int /\ n - 1 + 1 = n /\ (IF 1 <= n THEN n - 1 + 1 ELSE 0) = n
    BY <1>2
  <2>3. /\ SubSeq(usage, 1, n) \in Seq(Entries)
        /\ Len(SubSeq(usage, 1, n)) = IF 1 <= n THEN n - 1 + 1 ELSE 0
        /\ \A i \in 1..(n - 1 + 1) : SubSeq(usage, 1, n)[i] = usage[1 + i - 1]
    BY <2>1, <2>2, SubSeqProperties
  <2>4. \A i \in 1..n : 1 + i - 1 = i
    BY <1>2
  <2>5. \A i \in 1..n : v[i] = usage[i]
    BY <2>2, <2>3, <2>4
  <2>6. Len(v) = n
    <3> HIDE DEF v
    <3>1. Len(v) = IF 1 <= n THEN n - 1 + 1 ELSE 0
      BY <2>3 DEF v
    <3> QED
      BY <2>2, <3>1
  <2> QED
    BY <2>3, <2>5, <2>6
<1>7. Evicted = v
  BY DEF Evicted, n
<1> HIDE DEF v
<1>8. Alike(usage, 0, v, 0, n)
  BY <1>2, <1>6 DEF Alike
<1>9. Running(usage)[n] = Running(v)[n]
  <2>1. Timed(usage) /\ Timed(v) /\ n \in Nat /\ n <= Len(usage) /\ n <= Len(v)
    BY <1>1, <1>2, <1>6, EntriesTimed
  <2> QED
    BY <1>8, <2>1, SameStart
<1>10. x = Running(usage)[n]
  BY <1>6, <1>7, <1>9 DEF Airtime
<1>11. used = x + k /\ x \in Nat /\ k \in Nat
  <2>1. Timed(usage) /\ Timed(Kept) /\ Len(Kept) \in Nat
    BY <1>1, <1>4, EntriesTimed
  <2>2. n \in 0..Len(usage) /\ Len(Kept) \in 0..Len(Kept)
    BY <1>2, <2>1
  <2>3. Running(usage)[n] \in Nat /\ Running(Kept)[Len(Kept)] \in Nat
    BY <2>1, <2>2, RunningNat
  <2> QED
    BY <1>1, <1>5, <1>10, <2>3 DEF Airtime
<1>12. UsedNow = IF used > x THEN used - x ELSE 0
  BY DEF UsedNow
<1> HIDE DEF x, k
<1>13. UsedNow = k /\ UsedNow \in Nat /\ UsedNow <= used
  BY <1>11, <1>12
<1> QED
  BY <1>4, <1>13 DEF k

\* The back-off doubles within its cap.
LEMMA DoubledFacts ==
    /\ 1 \in 1..MaxBackoff /\ 0 \in 0..MaxBackoff /\ 1 \in 0..MaxBackoff
    /\ \A b \in 1..MaxBackoff : Doubled(b) \in 1..MaxBackoff /\ b \in 0..MaxBackoff
<1>1. MaxBackoff \in Nat \ {0}
  BY GatewayAssumption
<1> QED
  BY <1>1 DEF Doubled

\* The task stays as it is while run() is not serving, or does not stop.
LEMMA RunTyped ==
    ASSUME IInv, tx' = tx, pc' \in {"serial", "connect", "announce", "serving"}, backoff' \in 1..MaxBackoff,
           wait' \in 0..MaxBackoff, status' = status, reading' \in BOOLEAN,
           pc' = pc \/ tx.pc = "off"
    PROVE  Typed' /\ TaskSound'
BY DEF IInv, Typed, TaskSound

\* Steps of run() that leave the bridge alone.
LEMMA RunInv ==
    ASSUME IInv, SerialFails \/ SerialOpens \/ Connects \/ ConfigureFails \/ SerialEOF
    PROVE  IInv'
<1>1. UNCHANGED <<tx, meter>>
  BY DEF SerialFails, SerialOpens, Connects, ConfigureFails, SerialEOF
<1>2. Ordered' /\ Counted' /\ Budgeted'
  BY <1>1, SameTaskInv
<1>3. backoff \in 1..MaxBackoff /\ wait \in 0..MaxBackoff /\ reading \in BOOLEAN
  BY DEF IInv, Typed
<1>4. pc # "serving" => tx.pc = "off"
  BY DEF IInv, TaskSound
<1>5. Typed' /\ TaskSound'
  <2>1. CASE SerialFails
    <3>1. pc' = pc /\ pc = "serial" /\ status' = status /\ reading' = reading /\ tx' = tx
          /\ wait' = backoff /\ backoff' = Doubled(backoff)
      BY <2>1 DEF SerialFails
    <3> QED
      BY <1>3, <3>1, DoubledFacts, RunTyped
  <2>2. CASE SerialOpens \/ Connects
    <3>1. pc' \in {"connect", "announce"} /\ pc \in {"serial", "connect"} /\ status' = status
          /\ reading' = reading /\ tx' = tx /\ wait' = wait /\ backoff' = 1
      BY <2>2 DEF SerialOpens, Connects
    <3> QED
      BY <1>3, <1>4, <3>1, DoubledFacts, RunTyped
  <2>3. CASE SerialEOF
    <3>1. pc' = pc /\ status' = status /\ reading' \in BOOLEAN /\ tx' = tx /\ wait' = wait /\ backoff' = backoff
      BY <2>3 DEF SerialEOF
    <3>2. pc \in {"serial", "connect", "announce", "serving"}
      BY DEF IInv, Typed
    <3> QED
      BY <1>3, <3>1, <3>2, RunTyped
  <2>4. CASE ConfigureFails
    <3>1. pc' = "serial" /\ pc = "announce" /\ status' = status /\ reading' = reading /\ tx' = tx
          /\ wait' = 1 /\ backoff' = 1
      BY <2>4 DEF ConfigureFails
    <3> QED
      BY <1>3, <1>4, <3>1, DoubledFacts, RunTyped
  <2> QED
    BY <2>1, <2>2, <2>3, <2>4
<1> QED
  BY <1>2, <1>5 DEF IInv

\* Steps of run() that end the bridge.
LEMMA EndInv ==
    ASSUME IInv, MqttFails \/ OperationFails
    PROVE  IInv'
<1>1. StopBridge
  BY DEF MqttFails, OperationFails
<1>2. Ordered' /\ Counted' /\ Budgeted'
  BY <1>1, StopInv
<1>3. tx' = TxOff /\ reading' = FALSE
  BY <1>1 DEF StopBridge
<1>4. TxOff \in [pc : {"off", "recv", "flush", "sleep", "drain"}, air : Airtimes \cup {0}, wait : 0..Window]
      /\ TxOff.pc = "off"
  <2>1. 0 \in 0..Window
    BY GatewayAssumption
  <2> QED
    BY <2>1 DEF TxOff
<1>5. pc' \in {"serial", "connect"} /\ status' \in {"none", "up", "down"}
      /\ backoff' \in 1..MaxBackoff /\ wait' \in 0..MaxBackoff
  <2>1. backoff \in 1..MaxBackoff /\ status \in {"none", "up", "down"}
    BY DEF IInv, Typed
  <2>2. CASE MqttFails
    <3>1. pc' = "connect" /\ status' = status /\ wait' = backoff /\ backoff' = Doubled(backoff)
      BY <2>2 DEF MqttFails
    <3> QED
      BY <2>1, <3>1, DoubledFacts
  <2>3. CASE OperationFails
    <3>1. pc' = "serial" /\ status' = "down" /\ wait' = 1 /\ backoff' = 1
      BY <2>3 DEF OperationFails
    <3> QED
      BY <3>1, DoubledFacts
  <2> QED
    BY <2>2, <2>3
<1>6. Typed' /\ TaskSound'
  BY <1>3, <1>4, <1>5 DEF Typed, TaskSound
<1> QED
  BY <1>2, <1>6 DEF IInv

\* Steps of the task that transmit and count nothing.
LEMMA QuietInv ==
    ASSUME IInv, Announce \/ (\E a \in Airtimes : Receive(a)) \/ FlushWakes
    PROVE  IInv'
<1>1. UNCHANGED meter
  BY DEF Announce, Receive, FlushWakes
<1>2. tx \in [pc : {"off", "recv", "flush", "sleep", "drain"}, air : Airtimes \cup {0}, wait : 0..Window]
  BY DEF IInv, Typed
<1>3. 0 \in 0..Window
  BY GatewayAssumption
<1>4. CASE Announce
  <2>1. tx.pc = "off"
    BY <1>4 DEF Announce, IInv, TaskSound
  <2>2. tx' = TxRecv /\ tx'.pc = "recv"
    BY <1>4 DEF Announce, TxRecv
  <2>3. Ordered' /\ Counted' /\ Budgeted'
    BY <1>1, <2>1, <2>2, IdleInv
  <2>4. Typed' /\ TaskSound'
    BY <1>3, <1>4, <2>2 DEF Announce, IInv, Typed, TaskSound, TxRecv
  <2> QED
    BY <2>3, <2>4 DEF IInv
<1>5. CASE \E a \in Airtimes : Receive(a)
  <2>1. PICK a \in Airtimes : Receive(a)
    BY <1>5
  <2>2. tx.pc = "recv" /\ tx' = [tx EXCEPT !.pc = "flush", !.air = a] /\ UNCHANGED main
    BY <2>1 DEF Receive
  <2>3. tx'.pc = "flush" /\ tx'.air = a
        /\ tx' \in [pc : {"off", "recv", "flush", "sleep", "drain"}, air : Airtimes \cup {0}, wait : 0..Window]
    BY <1>2, <2>2
  <2>4. Ordered' /\ Counted' /\ Budgeted'
    BY <1>1, <2>2, <2>3, IdleInv
  <2>5. Typed' /\ TaskSound'
    BY <2>2, <2>3 DEF main, IInv, Typed, TaskSound
  <2> QED
    BY <2>4, <2>5 DEF IInv
<1>6. CASE FlushWakes
  <2>1. tx.pc = "sleep" /\ tx' = [tx EXCEPT !.pc = "flush"] /\ UNCHANGED main
    BY <1>6 DEF FlushWakes
  <2>2. tx'.pc = "flush" /\ tx'.air = tx.air
        /\ tx' \in [pc : {"off", "recv", "flush", "sleep", "drain"}, air : Airtimes \cup {0}, wait : 0..Window]
    BY <1>2, <2>1
  <2>3. Ordered' /\ Counted' /\ Budgeted'
    BY <1>1, <2>1, <2>2, IdleInv
  <2>4. Typed' /\ TaskSound'
    BY <2>1, <2>2 DEF main, IInv, Typed, TaskSound
  <2> QED
    BY <2>3, <2>4 DEF IInv
<1> QED
  BY <1>4, <1>5, <1>6

\* A list that is not empty has a first entry.
LEMMA NotEmpty == ASSUME NEW s \in Seq(Entries) PROVE (s = <<>> /\ Len(s) = 0) \/ (s # <<>> /\ 1 \in 1..Len(s) /\ Len(s) \in 1..Len(s))
<1>1. Len(s) \in Nat
  BY EntriesTimed
<1>2. s = <<>> <=> Len(s) = 0
  BY EmptySeq
<1> QED
  BY <1>1, <1>2

\* A transmission that begins is not counted yet.
LEMMA MatchesStarted ==
    ASSUME NEW o \in Seq(Entries), NEW u \in Seq(Entries), NEW e \in Entries, Matches(o, u, Len(o))
    PROVE  /\ Matches(Append(o, e), u, Len(Append(o, e)) - 1)
           /\ Append(o, e)[Len(Append(o, e))] = e
<1> DEFINE p == Append(o, e)
           c == Len(o)
<1>1. c \in Nat /\ Len(u) \in Nat
  BY EntriesTimed
<1>2. Len(p) = c + 1 /\ (\A i \in 1..c : p[i] = o[i]) /\ p[c + 1] = e
  BY AppendProperties
<1>3. Matches(o, u, c)
  OBVIOUS
<1> HIDE DEF p, c
<1>4. Len(p) - 1 = c /\ c <= Len(p)
  BY <1>1, <1>2
<1>5. Matches(p, u, c)
  BY <1>1, <1>2, <1>3, <1>4 DEF Matches
<1> QED
  BY <1>2, <1>4, <1>5 DEF p

\* A transmission that is drained is counted, as the last of both lists.
LEMMA MatchesCounted ==
    ASSUME NEW o \in Seq(Entries), NEW u \in Seq(Entries), NEW e \in Entries, e.age = 0,
           o # <<>>, Matches(o, u, Len(o) - 1), o[Len(o)].air = e.air
    PROVE  Matches(o, Append(u, e), Len(o))
<1> DEFINE v == Append(u, e)
           c == Len(o)
           l == Len(u)
           d == c - 1
<1>1. c \in Nat /\ l \in Nat /\ c \in 1..c /\ \A i \in 1..c : o[i] \in Entries
  BY EntriesTimed, NotEmpty
<1>2. Len(v) = l + 1 /\ (\A i \in 1..l : v[i] = u[i]) /\ v[l + 1] = e
  BY AppendProperties
<1>3. Matches(o, u, d) /\ o[c].air = e.air
  OBVIOUS
<1>4. d \in Nat /\ d <= l /\ \A i \in 1..d : o[i].air = u[(l - d) + i].air /\ o[i].age >= u[(l - d) + i].age
  BY <1>3 DEF Matches
<1>5. c = d + 1
  BY <1>1
<1> HIDE DEF v, c, l, d
<1>6. c <= Len(v) /\ c <= c /\ Len(v) - c = l - d
  BY <1>1, <1>2, <1>4, <1>5
<1>7. ASSUME NEW i \in 1..d PROVE o[i].air = v[(l - d) + i].air /\ o[i].age >= v[(l - d) + i].age
  <2>1. (l - d) + i \in 1..l
    BY <1>1, <1>4
  <2>2. v[(l - d) + i] = u[(l - d) + i]
    BY <1>2, <2>1
  <2> QED
    BY <1>4, <2>2
<1>8. o[c].air = v[(l - d) + c].air /\ o[c].age >= v[(l - d) + c].age
  <2>1. (l - d) + c = l + 1
    BY <1>1, <1>4, <1>5
  <2>2. v[(l - d) + c] = e
    BY <1>2, <2>1
  <2> DEFINE g == o[c].age
  <2>3. o[c] \in Entries
    BY <1>1
  <2>4. g \in 0..Window
    BY <2>3 DEF Entries
  <2> HIDE DEF g
  <2>5. g >= 0
    BY <2>4
  <2> QED
    BY <1>3, <2>2, <2>5 DEF g
<1>9. \A i \in 1..c : i \in 1..d \/ i = c
  BY <1>1, <1>4, <1>5
<1>10. \A i \in 1..c : o[i].air = v[(Len(v) - c) + i].air /\ o[i].age >= v[(Len(v) - c) + i].age
  BY <1>6, <1>7, <1>8, <1>9
<1>11. c <= Len(o) /\ c \in Nat
  BY <1>1 DEF c
<1>12. Matches(o, v, c)
  BY <1>6, <1>10, <1>11 DEF Matches
<1> QED
  BY <1>12 DEF v, c

\* flush() drops what has left the window.
LEMMA KeptInv ==
    ASSUME IInv, tx.pc = "flush"
    PROVE  /\ Kept \in Seq(Entries) /\ Matches(onAir, Kept, Len(onAir))
           /\ UsedNow = Airtime(Kept) /\ UsedNow \in Nat /\ UsedNow <= Budget
<1>1. usage \in Seq(Entries) /\ onAir \in Seq(Entries) /\ Fresh(onAir)
  BY DEF IInv, Ordered
<1>2. Matches(onAir, usage, Len(onAir))
  BY DEF IInv, Counted
<1>3. Matches(onAir, Kept, Len(onAir))
  BY <1>1, <1>2, MatchesKept DEF Fresh, Kept
<1>4. used \in Nat /\ used + 0 <= Budget /\ Budget \in Nat
  BY GatewayAssumption DEF IInv, Budgeted
<1>5. Kept \in Seq(Entries) /\ UsedNow = Airtime(Kept) /\ UsedNow \in Nat /\ UsedNow <= used
  BY EvictionExact
<1> QED
  BY <1>3, <1>4, <1>5

\* Over budget: what is counted is what was kept.
LEMMA WaitsInv == ASSUME IInv, FlushWaits PROVE IInv'
<1> DEFINE w == IF Kept # <<>> THEN Window - Kept[1].age ELSE Window
<1>1. /\ tx.pc = "flush" /\ tx' = [tx EXCEPT !.pc = "sleep", !.wait = w]
      /\ usage' = Kept /\ used' = UsedNow /\ UNCHANGED main /\ UNCHANGED past
  BY DEF FlushWaits
<1>2. /\ Kept \in Seq(Entries) /\ Matches(onAir, Kept, Len(onAir))
      /\ UsedNow = Airtime(Kept) /\ UsedNow \in Nat /\ UsedNow <= Budget
  BY <1>1, KeptInv
<1>3. w \in 0..Window
  <2>1. CASE Kept # <<>>
    <3> DEFINE g == Kept[1].age
    <3>1. Kept[1] \in Entries
      BY <1>2, <2>1, NotEmpty, EntriesTimed
    <3>2. g \in 0..Window
      BY <3>1 DEF Entries
    <3>3. w = Window - g
      BY <2>1
    <3> HIDE DEF g, w
    <3> QED
      BY <3>2, <3>3, GatewayAssumption
  <2>2. CASE ~(Kept # <<>>)
    <3>1. w = Window
      BY <2>2
    <3> HIDE DEF w
    <3> QED
      BY <3>1, GatewayAssumption
  <2> QED
    BY <2>1, <2>2
<1> HIDE DEF w
<1>4. tx \in [pc : {"off", "recv", "flush", "sleep", "drain"}, air : Airtimes \cup {0}, wait : 0..Window]
  BY DEF IInv, Typed
<1>5. tx' \in [pc : {"off", "recv", "flush", "sleep", "drain"}, air : Airtimes \cup {0}, wait : 0..Window]
      /\ tx'.pc = "sleep" /\ tx'.air = tx.air
  BY <1>1, <1>3, <1>4
<1>6. Typed' /\ TaskSound'
  BY <1>1, <1>5 DEF main, IInv, Typed, TaskSound
<1>7. onAir' = onAir /\ earlier' = earlier
  BY <1>1 DEF past
<1>8. Ordered'
  BY <1>1, <1>2, <1>7 DEF IInv, Ordered
<1>9. Counted'
  BY <1>1, <1>2, <1>5, <1>7 DEF Counted
<1>10. Budgeted'
  <2>1. UsedNow + 0 <= Budget
    BY <1>2, GatewayAssumption
  <2> QED
    BY <1>1, <1>2, <1>5, <2>1 DEF Budgeted
<1> QED
  BY <1>6, <1>8, <1>9, <1>10 DEF IInv

\* Within budget: what is written is not counted yet, but fits.
LEMMA WritesInv == ASSUME IInv, FlushWrites PROVE IInv'
<1> DEFINE e == [age |-> 0, air |-> tx.air]
<1>1. /\ tx.pc = "flush" /\ Fits(tx.air) /\ tx' = [tx EXCEPT !.pc = "drain"]
      /\ usage' = Kept /\ used' = UsedNow /\ onAir' = Append(onAir, e) /\ UNCHANGED main /\ earlier' = earlier
  BY DEF FlushWrites
<1>2. /\ Kept \in Seq(Entries) /\ Matches(onAir, Kept, Len(onAir))
      /\ UsedNow = Airtime(Kept) /\ UsedNow \in Nat
  BY <1>1, KeptInv
<1>3. tx.air \in Airtimes
  BY <1>1 DEF IInv, TaskSound
<1>4. e \in Entries /\ e.age = 0 /\ e.air = tx.air
  BY <1>3, NewEntry
<1> HIDE DEF e
<1>5. tx \in [pc : {"off", "recv", "flush", "sleep", "drain"}, air : Airtimes \cup {0}, wait : 0..Window]
  BY DEF IInv, Typed
<1>6. tx' \in [pc : {"off", "recv", "flush", "sleep", "drain"}, air : Airtimes \cup {0}, wait : 0..Window]
      /\ tx'.pc = "drain" /\ tx'.air = tx.air
  BY <1>1, <1>5
<1>7. Typed' /\ TaskSound'
  BY <1>1, <1>3, <1>6 DEF main, IInv, Typed, TaskSound
<1>8. Ordered'
  <2>1. onAir \in Seq(Entries) /\ Sorted(onAir) /\ Fresh(onAir) /\ earlier \in Seq(Entries)
        /\ Sorted(earlier) /\ Fresh(earlier) /\ Precedes(earlier, onAir)
    BY DEF IInv, Ordered
  <2>2. Sorted(Append(onAir, e)) /\ Fresh(Append(onAir, e)) /\ Precedes(earlier, Append(onAir, e))
    BY <1>4, <2>1, AppendOrdered
  <2>3. Append(onAir, e) \in Seq(Entries)
    BY <1>4, <2>1, AppendProperties
  <2> QED
    BY <1>1, <1>2, <2>1, <2>2, <2>3 DEF Ordered
<1>9. Counted'
  <2>1. onAir \in Seq(Entries)
    BY DEF IInv, Ordered
  <2>2. /\ Matches(Append(onAir, e), Kept, Len(Append(onAir, e)) - 1)
        /\ Append(onAir, e)[Len(Append(onAir, e))] = e
    BY <1>2, <1>4, <2>1, MatchesStarted
  <2> QED
    BY <1>1, <1>4, <1>6, <2>2 DEF Counted
<1>10. Budgeted'
  <2>1. UsedNow + tx.air <= Budget
    BY <1>1 DEF Fits
  <2> QED
    BY <1>1, <1>2, <1>6, <2>1 DEF Budgeted
<1> QED
  BY <1>7, <1>8, <1>9, <1>10 DEF IInv

\* What was drained is counted.
LEMMA CountsInv == ASSUME IInv, FlushCounts PROVE IInv'
<1> DEFINE e == [age |-> 0, air |-> tx.air]
<1>1. /\ tx.pc = "drain" /\ tx' = TxRecv /\ usage' = Append(usage, e) /\ used' = used + tx.air
      /\ UNCHANGED main /\ UNCHANGED past
  BY DEF FlushCounts
<1>2. tx.air \in Airtimes
  BY <1>1 DEF IInv, TaskSound
<1>3. e \in Entries /\ e.age = 0 /\ e.air = tx.air
  BY <1>2, NewEntry
<1> HIDE DEF e
<1>4. onAir' = onAir /\ earlier' = earlier
  BY <1>1 DEF past
<1>5. usage \in Seq(Entries) /\ onAir \in Seq(Entries)
  BY DEF IInv, Ordered
<1>6. Append(usage, e) \in Seq(Entries) /\ Airtime(Append(usage, e)) = Airtime(usage) + tx.air
  BY <1>3, <1>5, AirtimeOfAppend
<1>7. tx' \in [pc : {"off", "recv", "flush", "sleep", "drain"}, air : Airtimes \cup {0}, wait : 0..Window]
      /\ tx'.pc = "recv"
  <2>1. 0 \in 0..Window
    BY GatewayAssumption
  <2> QED
    BY <1>1, <2>1 DEF TxRecv
<1>8. Typed' /\ TaskSound'
  <2>1. pc = "serving"
    BY <1>1 DEF IInv, TaskSound
  <2> QED
    BY <1>1, <1>7, <2>1 DEF main, IInv, Typed, TaskSound
<1>9. Ordered'
  BY <1>1, <1>4, <1>6 DEF IInv, Ordered
<1>10. Counted'
  <2>1. CASE onAir = <<>>
    <3>1. Len(onAir) = 0
      BY <2>1, <1>5, NotEmpty
    <3>2. Matches(onAir, Append(usage, e), Len(onAir))
      BY <1>6, <2>1, <3>1, NothingMatches
    <3> QED
      BY <1>1, <1>4, <1>7, <3>2 DEF Counted
  <2>2. CASE onAir # <<>>
    <3>1. Matches(onAir, usage, Len(onAir) - 1) /\ onAir[Len(onAir)].air = tx.air
      BY <1>1, <2>2 DEF IInv, Counted
    <3>2. Matches(onAir, Append(usage, e), Len(onAir))
      BY <1>3, <1>5, <2>2, <3>1, MatchesCounted
    <3> QED
      BY <1>1, <1>4, <1>7, <3>2 DEF Counted
  <2> QED
    BY <2>1, <2>2
<1>11. Budgeted'
  <2>1. used = Airtime(usage) /\ used \in Nat /\ used + tx.air <= Budget
    BY <1>1 DEF IInv, Budgeted
  <2> DEFINE a == tx.air
  <2>2. a \in Nat /\ used \in Nat /\ used + a <= Budget /\ used' = used + a
    BY <1>1, <1>2, <2>1, GatewayAssumption
  <2> HIDE DEF a
  <2>3. used' \in Nat /\ used' + 0 <= Budget
    BY <2>2, GatewayAssumption
  <2> QED
    BY <1>1, <1>6, <1>7, <2>1, <2>3 DEF Budgeted
<1> QED
  BY <1>8, <1>9, <1>10, <1>11 DEF IInv

\* Time changes no airtime.
LEMMA AirtimeOfOlder == ASSUME NEW s \in Seq(Entries) PROVE Airtime(Older(s)) = Airtime(s)
<1> DEFINE t == Older(s)
           l == Len(s)
<1>1. t \in Seq(Entries) /\ Len(t) = l /\ \A i \in 1..l : t[i].air = s[i].air
  BY OlderFacts
<1>2. Timed(s) /\ Timed(t) /\ l \in Nat
  BY <1>1, EntriesTimed
<1> HIDE DEF t, l
<1>3. \A i \in 1..l : 0 + i = i
  BY <1>2
<1>4. Alike(t, 0, s, 0, l)
  BY <1>1, <1>3 DEF Alike
<1>5. l <= Len(s) /\ l <= Len(t)
  BY <1>1, <1>2 DEF l
<1>6. Running(t)[l] = Running(s)[l]
  BY <1>2, <1>4, <1>5, SameStart
<1> QED
  BY <1>1, <1>6 DEF Airtime, t, l

\* Time passes, and what is on the air stays counted.
LEMMA MatchesYoung ==
    ASSUME NEW o \in Seq(Entries), NEW u \in Seq(Entries), NEW c, Matches(o, u, c),
           Expired(Older(o)) <= c
    PROVE  /\ Young(Older(o)) \in Seq(Entries)
           /\ Len(Young(Older(o))) = Len(o) - Expired(Older(o))
           /\ Matches(Young(Older(o)), Older(u), c - Expired(Older(o)))
<1> DEFINE p == Older(o)
           v == Older(u)
           n == Expired(p)
<1>1. p \in Seq(Entries) /\ v \in Seq(Entries) /\ Len(p) = Len(o)
  BY OlderFacts
<1>2. Matches(p, v, c) /\ c \in Nat
  BY MatchesOlder DEF Matches
<1>3. Rest(p, n, Young(p)) /\ n \in 0..Len(p) /\ Len(p) \in Nat
  BY <1>1, YoungIsRest, ExpiredFacts, EntriesTimed
<1>4. n <= c
  OBVIOUS
<1> HIDE DEF p, v, n
<1>5. n \in 0..c
  BY <1>2, <1>3, <1>4
<1>6. Matches(Young(p), v, c - n)
  BY <1>1, <1>2, <1>3, <1>5, MatchesLeft
<1>7. Young(p) \in Seq(Entries) /\ Len(Young(p)) = Len(p) - n
  BY <1>3 DEF Rest
<1> QED
  BY <1>1, <1>6, <1>7 DEF p, v, n

\* Time passes.
LEMMA TickInv == ASSUME IInv, Tick PROVE IInv'
<1>1. /\ wait' = Less(wait) /\ tx' = [tx EXCEPT !.wait = Less(@)] /\ usage' = Older(usage)
      /\ onAir' = Young(Older(onAir)) /\ earlier' = Young(Older(earlier))
      /\ UNCHANGED <<pc, backoff, status, reading, used>>
  BY DEF Tick
<1>2. /\ tx \in [pc : {"off", "recv", "flush", "sleep", "drain"}, air : Airtimes \cup {0}, wait : 0..Window]
      /\ wait \in 0..MaxBackoff
  BY DEF IInv, Typed
<1>3. \A m \in Nat : \A w \in 0..m : Less(w) \in 0..m
  BY DEF Less
<1>4. Less(wait) \in 0..MaxBackoff /\ Less(tx.wait) \in 0..Window
  BY <1>2, <1>3, GatewayAssumption
<1>5. tx' \in [pc : {"off", "recv", "flush", "sleep", "drain"}, air : Airtimes \cup {0}, wait : 0..Window]
      /\ tx'.pc = tx.pc /\ tx'.air = tx.air
  BY <1>1, <1>2, <1>4
<1>6. Typed' /\ TaskSound'
  BY <1>1, <1>4, <1>5 DEF IInv, Typed, TaskSound
<1>7. /\ usage \in Seq(Entries) /\ onAir \in Seq(Entries) /\ earlier \in Seq(Entries)
      /\ Sorted(onAir) /\ Sorted(earlier) /\ Precedes(earlier, onAir)
  BY DEF IInv, Ordered
<1>8. Older(usage) \in Seq(Entries) /\ Older(onAir) \in Seq(Entries) /\ Older(earlier) \in Seq(Entries)
      /\ Len(Older(onAir)) = Len(onAir)
  BY <1>7, OlderFacts
<1>9. Sorted(Older(onAir)) /\ Sorted(Older(earlier)) /\ Precedes(Older(earlier), Older(onAir))
  BY <1>7, OlderOrdered
<1>10. Ordered'
  <2>1. Young(Older(onAir)) \in Seq(Entries) /\ Sorted(Young(Older(onAir))) /\ Fresh(Young(Older(onAir)))
    BY <1>8, <1>9, YoungOrdered
  <2>2. Young(Older(earlier)) \in Seq(Entries) /\ Sorted(Young(Older(earlier))) /\ Fresh(Young(Older(earlier)))
    BY <1>8, <1>9, YoungOrdered
  <2>3. Precedes(Young(Older(earlier)), Young(Older(onAir)))
    BY <1>8, <1>9, YoungPrecede
  <2> QED
    BY <1>1, <1>8, <2>1, <2>2, <2>3 DEF Ordered
<1>11. Counted'
  <2> DEFINE l == Len(onAir)
             n == Expired(Older(onAir))
             q == Young(Older(onAir))
  <2>1. n \in 0..l /\ l \in Nat
    BY <1>7, <1>8, ExpiredFacts, EntriesTimed
  <2>2. Rest(Older(onAir), n, q)
    BY <1>8, YoungIsRest
  <2>3. q \in Seq(Entries) /\ Len(q) = l - n /\ Len(q) \in Nat
    BY <1>8, <2>2 DEF Rest
  <2>4. CASE tx.pc # "drain"
    <3>1. Matches(onAir, usage, l)
      BY <2>4 DEF IInv, Counted
    <3>2. n <= l
      BY <2>1
    <3>3. Matches(q, Older(usage), l - n)
      BY <1>7, <3>1, <3>2, MatchesYoung
    <3>4. Matches(q, Older(usage), Len(q))
      BY <2>3, <3>3
    <3> QED
      BY <1>1, <1>5, <2>4, <3>4 DEF Counted
  <2>5. CASE tx.pc = "drain"
    <3>1. CASE n = l
      <4> HIDE DEF n, l, q
      <4>1. Len(q) = 0
        BY <2>1, <2>3, <3>1
      <4>2. q = <<>>
        BY <2>3, <4>1, EmptySeq
      <4> QED
        BY <1>1, <1>5, <2>5, <4>2 DEF Counted, q
    <3>2. CASE n # l
      <4>1. onAir # <<>>
        <5>1. l # 0
          BY <2>1, <3>2
        <5> QED
          BY <1>7, <5>1, NotEmpty
      <4>2. Matches(onAir, usage, l - 1) /\ onAir[l].air = tx.air
        BY <2>5, <4>1 DEF IInv, Counted
      <4>3. n <= l - 1 /\ (l - 1) - n = (l - n) - 1 /\ l - n \in 1..(l - n) /\ n + (l - n) = l /\ l \in 1..l
        <5> HIDE DEF n, l
        <5> QED
          BY <2>1, <3>2
      <4>4. Matches(q, Older(usage), (l - 1) - n)
        BY <1>7, <4>2, <4>3, MatchesYoung
      <4>5. Matches(q, Older(usage), Len(q) - 1)
        BY <2>3, <4>3, <4>4
      <4>6. q[Len(q)] = Older(onAir)[l]
        <5>1. \A i \in 1..Len(q) : q[i] = Older(onAir)[n + i]
          BY <2>2 DEF Rest
        <5> HIDE DEF n, l, q
        <5>2. q[l - n] = Older(onAir)[n + (l - n)]
          BY <2>3, <4>3, <5>1
        <5> QED
          BY <2>3, <4>3, <5>2
      <4>7. Older(onAir)[l].air = onAir[l].air
        BY <1>7, <4>3, OlderFacts
      <4>8. q[Len(q)].air = tx.air
        BY <4>2, <4>6, <4>7
      <4> QED
        BY <1>1, <1>5, <2>5, <4>5, <4>8 DEF Counted
    <3> QED
      BY <3>1, <3>2
  <2> QED
    BY <2>4, <2>5
<1>12. Budgeted'
  <2>1. Airtime(Older(usage)) = Airtime(usage)
    BY <1>7, AirtimeOfOlder
  <2>2. used' = used
    BY <1>1
  <2> QED
    BY <1>1, <1>5, <2>1, <2>2 DEF IInv, Budgeted
<1> QED
  BY <1>6, <1>10, <1>11, <1>12 DEF IInv

\* Nothing happens.
LEMMA StutterInv == ASSUME IInv, UNCHANGED vars PROVE IInv'
<1>1. UNCHANGED <<tx, meter>> /\ UNCHANGED main
  BY DEF vars
<1>2. Ordered' /\ Counted' /\ Budgeted'
  BY <1>1, SameTaskInv
<1>3. Typed' /\ TaskSound'
  BY <1>1 DEF main, IInv, Typed, TaskSound
<1> QED
  BY <1>2, <1>3 DEF IInv

\* Every step keeps the invariant.
LEMMA NextInv == IInv /\ [Next]_vars => IInv'
<1> SUFFICES ASSUME IInv, [Next]_vars PROVE IInv'
  OBVIOUS
<1>1. CASE SerialFails \/ SerialOpens \/ Connects \/ ConfigureFails \/ SerialEOF
  BY <1>1, RunInv
<1>2. CASE MqttFails \/ OperationFails
  BY <1>2, EndInv
<1>3. CASE Announce \/ (\E a \in Airtimes : Receive(a)) \/ FlushWakes
  BY <1>3, QuietInv
<1>4. CASE FlushWaits
  BY <1>4, WaitsInv
<1>5. CASE FlushWrites
  BY <1>5, WritesInv
<1>6. CASE FlushCounts
  BY <1>6, CountsInv
<1>7. CASE Tick
  BY <1>7, TickInv
<1>8. CASE UNCHANGED vars
  BY <1>8, StutterInv
<1> QED
  BY <1>1, <1>2, <1>3, <1>4, <1>5, <1>6, <1>7, <1>8 DEF Next, TxStep

-----------------------------------------------------------------------------
(* The theorems *)

\* A list of entries that are younger than the window.
LEMMA FreshTyped ==
    ASSUME NEW s \in Seq(Entries), Fresh(s)
    PROVE  s \in Seq([age : 0..(Window - 1), air : Airtimes])
<1>1. Len(s) \in Nat /\ \A i \in 1..Len(s) : s[i] \in Entries
  BY EntriesTimed
<1>2. ASSUME NEW i \in 1..Len(s) PROVE s[i] \in [age : 0..(Window - 1), air : Airtimes]
  <2> DEFINE g == s[i].age
             e == s[i]
  <2>1. e \in [age : 0..Window, air : Airtimes]
    BY <1>1 DEF Entries
  <2>2. g \in 0..Window /\ g < Window
    BY <2>1 DEF Fresh
  <2>3. e = [age |-> g, air |-> e.air] /\ e.air \in Airtimes
    BY <2>1
  <2> HIDE DEF g, e
  <2>4. g \in 0..(Window - 1)
    BY <2>2, GatewayAssumption
  <2>5. e \in [age : 0..(Window - 1), air : Airtimes]
    BY <2>3, <2>4
  <2> QED
    BY <2>5 DEF e
<1> DEFINE T == [age : 0..(Window - 1), air : Airtimes]
<1>3. \A i \in 1..Len(s) : s[i] \in T
  BY <1>2
<1> HIDE DEF T
<1>4. s \in [1..Len(s) -> Entries]
  BY LenProperties
<1>5. s \in [1..Len(s) -> T]
  BY <1>3, <1>4
<1>6. s \in Seq(T)
  BY <1>1, <1>5, SeqDef
<1> QED
  BY <1>6 DEF T

\* What is kept is within its types: the sum never exceeds the budget.
LEMMA InvTyped == IInv => TypeOK
<1> SUFFICES ASSUME IInv PROVE TypeOK
  OBVIOUS
<1>1. onAir \in Seq([age : 0..(Window - 1), air : Airtimes]) /\ earlier \in Seq([age : 0..(Window - 1), air : Airtimes])
  BY FreshTyped DEF IInv, Ordered
<1>2. usage \in Seq([age : 0..Window, air : Airtimes])
  BY DEF IInv, Ordered, Entries
<1>3. used \in 0..Budget
  <2>1. CASE tx.pc = "drain"
    <3> DEFINE a == tx.air
    <3>1. used \in Nat /\ used + a <= Budget
      BY <2>1 DEF IInv, Budgeted
    <3>2. a \in Nat
      BY <2>1, GatewayAssumption DEF IInv, TaskSound
    <3> HIDE DEF a
    <3> QED
      BY <3>1, <3>2, GatewayAssumption
  <2>2. CASE tx.pc # "drain"
    <3>1. used \in Nat /\ used + 0 <= Budget
      BY <2>2 DEF IInv, Budgeted
    <3> QED
      BY <3>1, GatewayAssumption
  <2> QED
    BY <2>1, <2>2
<1> QED
  BY <1>1, <1>2, <1>3 DEF IInv, Typed, TypeOK

\* What is on the air is counted or being drained, and both fit the budget.
LEMMA InvDuty == IInv => DutyCyclePerConnection
<1> SUFFICES ASSUME IInv PROVE Airtime(onAir) <= Budget
  BY DEF DutyCyclePerConnection
<1> DEFINE l == Len(onAir)
           a == tx.air
           r == Running(onAir)
<1>1. usage \in Seq(Entries) /\ onAir \in Seq(Entries) /\ used = Airtime(usage) /\ used \in Nat
  BY DEF IInv, Ordered, Budgeted
<1>2. Timed(onAir) /\ l \in Nat
  BY <1>1, EntriesTimed
<1>3. CASE tx.pc # "drain"
  <2>1. Matches(onAir, usage, l) /\ used + 0 <= Budget
    BY <1>3 DEF IInv, Counted, Budgeted
  <2>2. r[l] \in Nat /\ r[l] <= used
    BY <1>1, <2>1, MatchedIsCounted
  <2>3. Airtime(onAir) = r[l]
    BY DEF Airtime
  <2> HIDE DEF l, r
  <2> QED
    BY <1>1, <2>1, <2>2, <2>3, GatewayAssumption
<1>4. CASE tx.pc = "drain" /\ onAir = <<>>
  BY <1>4, NoAirtime, GatewayAssumption
<1>5. CASE tx.pc = "drain" /\ onAir # <<>>
  <2>1. Matches(onAir, usage, l - 1) /\ onAir[l].air = a /\ used + a <= Budget /\ a \in Nat
    BY <1>5, GatewayAssumption DEF IInv, Counted, Budgeted, TaskSound
  <2>2. r[l - 1] \in Nat /\ r[l - 1] <= used
    BY <1>1, <2>1, MatchedIsCounted
  <2>3. l \in 1..l
    BY <1>1, <1>5, NotEmpty
  <2>4. r[l] = r[l - 1] + onAir[l].air
    BY <1>2, <2>3, RunningStep
  <2>5. r[l] = r[l - 1] + a
    BY <2>1, <2>4
  <2>6. Airtime(onAir) = r[l]
    BY DEF Airtime
  <2> DEFINE x == r[l - 1]
             y == r[l]
  <2>7. x \in Nat /\ x <= used /\ y = x + a /\ Airtime(onAir) = y
    BY <2>2, <2>5, <2>6
  <2> HIDE DEF x, y, a
  <2> QED
    BY <1>1, <2>1, <2>7, GatewayAssumption
<1> QED
  BY <1>3, <1>4, <1>5

\* The invariant holds in every run of the gateway.
LEMMA Invariant == Spec => []IInv
BY InitInv, NextInv, PTL DEF Spec

\* The variables of the gateway keep their types, for every window, budget,
\* set of airtimes and back-off cap; the sum that mqtt_to_serial keeps never
\* exceeds the budget, and the back-offs never exceed their cap.
THEOREM TypeCorrect == Spec => []TypeOK
BY Invariant, InvTyped, PTL

\* In every window, what one connection of the gateway puts on the air stays
\* within the budget, although flush() counts a message only when drain()
\* returns, and although an entry leaves the count at the very end of its
\* window: for every window, budget and set of airtimes.
THEOREM BudgetIsKept == Spec => []DutyCyclePerConnection
BY Invariant, InvDuty, PTL

-----------------------------------------------------------------------------
(* Joined sequences *)

\* There is only one way to join them.
LEMMA JoinsAgree ==
    ASSUME NEW s, NEW t, NEW f, NEW g, NEW m \in Nat, NEW n \in Nat, m <= n,
           JoinTo(s, m, f), JoinTo(t, n, g), \A i \in 1..m : s[i] = t[i]
    PROVE  \A i \in 1..m : f[i] = g[i]
<1> DEFINE H == {i \in 0..m : i = 0 \/ f[i] = g[i]}
<1>1. ASSUME NEW i \in 0..m, i > 0, i - 1 \in H PROVE i \in H
  <2>1. i \in 1..m /\ i \in 1..n /\ (i = 1 \/ f[i - 1] = g[i - 1])
    BY <1>1
  <2>2. f[i] = IF i = 1 THEN s[i] ELSE f[i - 1] \o s[i]
    BY <2>1 DEF JoinTo
  <2>3. g[i] = IF i = 1 THEN t[i] ELSE g[i - 1] \o t[i]
    BY <2>1 DEF JoinTo
  <2>4. s[i] = t[i]
    BY <2>1
  <2> QED
    BY <2>1, <2>2, <2>3, <2>4
<1>2. 0 \in H
  OBVIOUS
<1> HIDE DEF H
<1>3. 0..m \subseteq H
  BY <1>1, <1>2, Induction
<1> SUFFICES ASSUME NEW i \in 1..m PROVE f[i] = g[i]
  OBVIOUS
<1>4. i \in H
  BY <1>3
<1> QED
  BY <1>4 DEF H

\* One more sequence is joined at the end.
LEMMA FlattenAppend ==
    ASSUME NEW S, NEW s \in Seq(Seq(S)), NEW x \in Seq(S)
    PROVE  FlattenSeq(s) \in Seq(S) => FlattenSeq(Append(s, x)) = FlattenSeq(s) \o x
<1> DEFINE t == Append(s, x)
           n == Len(s)
<1>1. n \in Nat /\ Len(t) = n + 1 /\ t[n + 1] = x /\ \A i \in 1..n : s[i] = t[i]
  BY AppendProperties, LenProperties
<1> HIDE DEF t
<1>2. PICK g : JoinTo(t, n + 1, g) /\ FlattenSeq(t) = g[n + 1]
  BY <1>1, FlattenIsJoin
<1>3. g[n + 1] = IF n = 0 THEN x ELSE g[n] \o x
  <2>1. n + 1 \in 1..(n + 1) /\ (n + 1) - 1 = n /\ (n + 1 = 1 <=> n = 0)
    BY <1>1
  <2>2. g[n + 1] = IF n + 1 = 1 THEN t[n + 1] ELSE g[(n + 1) - 1] \o t[n + 1]
    BY <1>2, <2>1 DEF JoinTo
  <2> QED
    BY <1>1, <2>1, <2>2
<1>4. CASE n = 0
  <2>1. s = <<>>
    BY <1>4, EmptySeq
  <2>2. FlattenSeq(s) \o x = x
    BY <2>1, FlattenNone, ConcatEmptySeq
  <2> QED
    BY <1>2, <1>3, <1>4, <2>2 DEF t
<1>5. CASE n # 0
  <2>1. PICK f : JoinTo(s, n, f) /\ FlattenSeq(s) = f[n]
    BY <1>1, <1>5, FlattenIsJoin
  <2>2. \A i \in 1..n : f[i] = g[i]
    <3>1. n \in Nat /\ n + 1 \in Nat /\ n <= n + 1
      BY <1>1
    <3> HIDE DEF n
    <3> QED
      BY <1>1, <1>2, <2>1, <3>1, JoinsAgree
  <2>3. f[n] = g[n]
    BY <1>1, <1>5, <2>2
  <2> QED
    BY <1>1, <1>2, <1>3, <1>5, <2>1, <2>3 DEF t
<1> QED
  BY <1>4, <1>5

\* Joining is associative.
LEMMA ConcatParts ==
    ASSUME NEW S, NEW a \in Seq(S), NEW b \in Seq(S), NEW c \in Seq(S)
    PROVE  (a \o b) \o c = a \o (b \o c)
BY ConcatAssociative

\* What is appended to the second part is appended to the whole.
LEMMA AppendLast ==
    ASSUME NEW S, NEW a \in Seq(S), NEW b \in Seq(S), NEW x \in S
    PROVE  a \o b \in Seq(S) /\ a \o Append(b, x) = Append(a \o b, x)
<1>1. a \o b \in Seq(S) /\ <<x>> \in Seq(S)
  BY ConcatProperties
<1>2. Append(b, x) = b \o <<x>> /\ Append(a \o b, x) = (a \o b) \o <<x>>
  BY <1>1, AppendIsConcat
<1>3. (a \o b) \o <<x>> = a \o (b \o <<x>>)
  BY <1>1, ConcatParts
<1> QED
  BY <1>1, <1>2, <1>3

\* The joins of two lists, and one more in the second.
LEMMA FlattenConcatStep ==
    ASSUME NEW S, NEW s \in Seq(Seq(S)), NEW q \in Seq(Seq(S)), NEW x \in Seq(S)
    PROVE  FlattenSeq(s \o q) = FlattenSeq(s) \o FlattenSeq(q) =>
               FlattenSeq(s \o Append(q, x)) = FlattenSeq(s) \o FlattenSeq(Append(q, x))
<1>1. s \o q \in Seq(Seq(S)) /\ s \o Append(q, x) = Append(s \o q, x)
  BY AppendLast
<1>2. PICK a \in Seq(S), b \in Seq(S) : a = FlattenSeq(s) /\ b = FlattenSeq(q)
  BY FlattenType
<1>3. (a \o b) \o x = a \o (b \o x)
  BY ConcatParts
<1>4. FlattenSeq(s \o q) \in Seq(S)
  BY <1>1, FlattenType
<1>5. FlattenSeq(Append(s \o q, x)) = FlattenSeq(s \o q) \o x
  BY <1>1, <1>4, FlattenAppend
<1>6. FlattenSeq(Append(q, x)) = b \o x
  BY <1>2, FlattenAppend
<1> QED
  BY <1>1, <1>2, <1>3, <1>5, <1>6

\* A sequence grows from its prefixes.
LEMMA PrefixFacts ==
    ASSUME NEW S, NEW t \in Seq(S)
    PROVE  /\ Len(t) \in Nat /\ SubSeq(t, 1, 0) = <<>> /\ SubSeq(t, 1, Len(t)) = t
           /\ \A n \in 0..Len(t) : SubSeq(t, 1, n) \in Seq(S) /\ Len(SubSeq(t, 1, n)) = n
           /\ \A n \in 1..Len(t) : t[n] \in S /\ SubSeq(t, 1, n) = Append(SubSeq(t, 1, n - 1), t[n])
<1> DEFINE P(n) == SubSeq(t, 1, n)
<1>1. Len(t) \in Nat
  BY LenProperties
<1>2. ASSUME NEW n \in 0..Len(t)
      PROVE  P(n) \in Seq(S) /\ Len(P(n)) = n /\ \A i \in 1..n : P(n)[i] = t[i]
  <2>1. 1 \in 1..(Len(t) + 1) /\ n \in (1 - 1)..Len(t)
    BY <1>1
  <2> QED
    BY <1>1, <2>1, SubSeqProperties
<1>3. 0 \in 0..Len(t) /\ Len(t) \in 0..Len(t)
  BY <1>1
<1> HIDE DEF P
<1>4. P(0) = <<>>
  BY <1>2, <1>3, EmptySeq
<1>5. P(Len(t)) = t
  BY <1>1, <1>2, <1>3, SeqEqual
<1>6. ASSUME NEW n \in 1..Len(t) PROVE t[n] \in S /\ P(n) = Append(P(n - 1), t[n])
  <2>1. n \in 0..Len(t) /\ n - 1 \in 0..Len(t)
    BY <1>1
  <2>2. t[n] \in S
    BY ElementOfSeq
  <2>3. PICK q \in Seq(S), x \in S : q = P(n - 1) /\ x = t[n]
    BY <1>2, <2>1, <2>2
  <2>4. Len(q) = n - 1 /\ \A i \in 1..(n - 1) : q[i] = t[i]
    BY <1>2, <2>1, <2>3
  <2>5. Append(q, x) \in Seq(S) /\ Len(Append(q, x)) = n
    BY <1>1, <2>4, AppendProperties
  <2>6. \A i \in 1..n : Append(q, x)[i] = IF i = n THEN x ELSE q[i]
    BY <1>1, <2>4, AppendProperties
  <2>7. \A i \in 1..n : P(n)[i] = Append(q, x)[i]
    <3> SUFFICES ASSUME NEW i \in 1..n PROVE P(n)[i] = Append(q, x)[i]
      OBVIOUS
    <3>1. P(n)[i] = t[i]
      BY <1>2, <2>1
    <3>2. i = n \/ i \in 1..(n - 1)
      BY <1>1
    <3> QED
      BY <2>3, <2>4, <2>6, <3>1, <3>2
  <2>8. P(n) \in Seq(S) /\ Len(P(n)) = n
    BY <1>2, <2>1
  <2> QED
    BY <2>2, <2>3, <2>5, <2>7, <2>8, SeqEqual
<1> QED
  BY <1>1, <1>2, <1>4, <1>5, <1>6 DEF P

\* The joins of two lists of sequences are joined like the lists.
LEMMA FlattenConcat ==
    ASSUME NEW S, NEW s \in Seq(Seq(S)), NEW t \in Seq(Seq(S))
    PROVE  FlattenSeq(s \o t) = FlattenSeq(s) \o FlattenSeq(t)
<1> DEFINE P(n) == SubSeq(t, 1, n)
           Splits(q) == FlattenSeq(s \o q) = FlattenSeq(s) \o FlattenSeq(q)
           H == {n \in 0..Len(t) : Splits(P(n))}
<1>1. Len(t) \in Nat /\ P(0) = <<>> /\ P(Len(t)) = t
  BY PrefixFacts
<1>2. \A n \in 0..Len(t) : P(n) \in Seq(Seq(S))
  BY PrefixFacts
<1>3. \A n \in 1..Len(t) : t[n] \in Seq(S) /\ P(n) = Append(P(n - 1), t[n])
  BY PrefixFacts
<1> HIDE DEF P
<1>4. Splits(<<>>)
  <2>1. FlattenSeq(s) \in Seq(S)
    BY FlattenType
  <2> QED
    BY <2>1, FlattenNone, ConcatEmptySeq
<1>5. \A q \in Seq(Seq(S)), x \in Seq(S) : Splits(q) => Splits(Append(q, x))
  BY FlattenConcatStep
<1> HIDE DEF Splits
<1>6. 0 \in H
  BY <1>1, <1>4
<1>7. ASSUME NEW n \in 0..Len(t), n > 0, n - 1 \in H PROVE n \in H
  <2>1. n \in 1..Len(t) /\ n - 1 \in 0..Len(t)
    BY <1>1, <1>7
  <2>2. Splits(Append(P(n - 1), t[n]))
    BY <1>2, <1>3, <1>5, <1>7, <2>1
  <2> QED
    BY <1>3, <2>1, <2>2
<1> HIDE DEF H
<1>8. 0..Len(t) \subseteq H
  BY <1>1, <1>6, <1>7, Induction
<1>9. Len(t) \in H
  BY <1>1, <1>8
<1>10. Splits(t)
  BY <1>1, <1>9 DEF H
<1> QED
  BY <1>10 DEF Splits

\* One sequence joined is that sequence.
LEMMA FlattenOne == ASSUME NEW S, NEW x \in Seq(S) PROVE FlattenSeq(<<x>>) = x
<1>1. <<>> \in Seq(Seq(S)) /\ <<>> \in Seq(S) /\ Append(<<>>, x) = <<x>>
  OBVIOUS
<1>2. FlattenSeq(<<x>>) = <<>> \o x
  BY <1>1, FlattenAppend, FlattenNone
<1> QED
  BY <1>2, ConcatEmptySeq

-----------------------------------------------------------------------------
(* The data in a list of frames *)

\* What a decoder can return, and the packets in it.
AnyFrame == [port : 0..15, command : (0..15) \cup {RETURN}, data : Seq(Bytes)]
Packets  == Seq(Bytes)

\* What one frame carries.
Carried(f) == IF f.command = DATA THEN <<f.data>> ELSE <<>>

\* A frame carries at most one packet.
LEMMA CarriedOne == ASSUME NEW f \in AnyFrame PROVE Carried(f) \in Seq(Packets) /\ Len(Carried(f)) \in 0..1
<1>1. f.data \in Packets
  BY DEF AnyFrame, Packets
<1>2. CASE f.command = DATA
  <2>1. Carried(f) = <<f.data>>
    BY <1>2 DEF Carried
  <2> HIDE DEF Carried
  <2> DEFINE d == f.data
  <2>2. d \in Packets
    BY <1>1
  <2> HIDE DEF d
  <2>3. <<d>> \in Seq(Packets) /\ Len(<<d>>) = 1
    BY <2>2
  <2> QED
    BY <2>1, <2>3 DEF d
<1>3. CASE f.command # DATA
  <2>1. Carried(f) = <<>>
    BY <1>3 DEF Carried
  <2>2. <<>> \in Seq(Packets) /\ Len(<<>>) = 0
    OBVIOUS
  <2> QED
    BY <2>1, <2>2
<1> QED
  BY <1>2, <1>3

\* What the frames of a list carry, one by one.
PartsOf(frames) == [i \in DOMAIN frames |-> Carried(frames[i])]

\* DataOf joins what the frames carry.
LEMMA DataParts ==
    ASSUME NEW s \in Seq(AnyFrame)
    PROVE  /\ PartsOf(s) \in Seq(Seq(Packets)) /\ Len(PartsOf(s)) = Len(s)
           /\ \A i \in 1..Len(s) : PartsOf(s)[i] = Carried(s[i])
           /\ DataOf(s) = FlattenSeq(PartsOf(s))
<1>1. Len(s) \in Nat /\ DOMAIN s = 1..Len(s)
  BY LenProperties
<1>2. \A i \in 1..Len(s) : Carried(s[i]) \in Seq(Packets)
  BY ElementOfSeq, CarriedOne
<1>3. PartsOf(s) = [i \in 1..Len(s) |-> Carried(s[i])]
  BY <1>1 DEF PartsOf
<1>4. PartsOf(s) \in [1..Len(s) -> Seq(Packets)]
  BY <1>2, <1>3
<1>5. PartsOf(s) \in Seq(Seq(Packets))
  BY <1>1, <1>4, SeqDef
<1>6. Len(PartsOf(s)) = Len(s)
  <2>1. DOMAIN PartsOf(s) = 1..Len(PartsOf(s)) /\ Len(PartsOf(s)) \in Nat
    BY <1>5, LenProperties
  <2>2. DOMAIN PartsOf(s) = 1..Len(s)
    BY <1>4
  <2> QED
    BY <1>1, <1>4, <1>5, <2>1, <2>2, LenProperties
<1>7. DataOf(s) = FlattenSeq(PartsOf(s))
  BY DEF DataOf, PartsOf, Carried
<1> QED
  BY <1>3, <1>5, <1>6, <1>7

\* DataOf returns packets.
LEMMA DataType == ASSUME NEW s \in Seq(AnyFrame) PROVE DataOf(s) \in Seq(Packets)
BY DataParts, FlattenType

\* No frames carry nothing.
LEMMA DataNone == DataOf(<<>>) = <<>>
<1>1. <<>> \in Seq(AnyFrame)
  OBVIOUS
<1>2. PartsOf(<<>>) \in Seq(Seq(Packets)) /\ Len(PartsOf(<<>>)) = 0 /\ DataOf(<<>>) = FlattenSeq(PartsOf(<<>>))
  BY <1>1, DataParts, EmptySeq
<1>3. PartsOf(<<>>) = <<>>
  BY <1>2, EmptySeq
<1> QED
  BY <1>2, <1>3, FlattenNone

\* The data of two lists of frames, one after the other.
LEMMA DataConcat ==
    ASSUME NEW s \in Seq(AnyFrame), NEW t \in Seq(AnyFrame)
    PROVE  DataOf(s \o t) = DataOf(s) \o DataOf(t)
<1> DEFINE a == PartsOf(s)
           b == PartsOf(t)
           c == PartsOf(s \o t)
           m == Len(s)
           n == Len(t)
<1>0. m \in Nat /\ n \in Nat
  BY LenProperties
<1>1. s \o t \in Seq(AnyFrame) /\ Len(s \o t) = m + n
  BY ConcatProperties
<1>2. \A i \in 1..(m + n) : (s \o t)[i] = IF i <= m THEN s[i] ELSE t[i - m]
  BY ConcatProperties
<1>3. a \in Seq(Seq(Packets)) /\ Len(a) = m /\ (\A i \in 1..m : a[i] = Carried(s[i])) /\ DataOf(s) = FlattenSeq(a)
  BY DataParts
<1>4. b \in Seq(Seq(Packets)) /\ Len(b) = n /\ (\A i \in 1..n : b[i] = Carried(t[i])) /\ DataOf(t) = FlattenSeq(b)
  BY DataParts
<1>5. c \in Seq(Seq(Packets)) /\ Len(c) = m + n /\ DataOf(s \o t) = FlattenSeq(c)
  BY <1>1, DataParts
<1>6. \A i \in 1..(m + n) : c[i] = Carried((s \o t)[i])
  BY <1>1, DataParts
<1> HIDE DEF a, b, c, m, n
<1>7. a \o b \in Seq(Seq(Packets)) /\ Len(a \o b) = m + n
  BY <1>3, <1>4, ConcatProperties
<1>8. \A i \in 1..(m + n) : (a \o b)[i] = IF i <= m THEN a[i] ELSE b[i - m]
  BY <1>3, <1>4, ConcatProperties
<1>9. \A i \in 1..(m + n) : c[i] = (a \o b)[i]
  <2> SUFFICES ASSUME NEW i \in 1..(m + n) PROVE c[i] = (a \o b)[i]
    OBVIOUS
  <2>1. CASE i <= m
    <3>1. i \in 1..m
      BY <1>0, <2>1
    <3>2. a[i] = Carried(s[i])
      BY <1>3, <3>1
    <3>3. c[i] = Carried(s[i])
      BY <1>2, <1>6, <2>1
    <3> QED
      BY <1>8, <2>1, <3>2, <3>3
  <2>2. CASE ~(i <= m)
    <3>1. i - m \in 1..n
      BY <1>0, <2>2
    <3>2. b[i - m] = Carried(t[i - m])
      BY <1>4, <3>1
    <3>3. c[i] = Carried(t[i - m])
      BY <1>2, <1>6, <2>2
    <3> QED
      BY <1>8, <2>2, <3>2, <3>3
  <2> QED
    BY <2>1, <2>2
<1>10. c = a \o b
  BY <1>0, <1>5, <1>7, <1>9, SeqEqual
<1>11. FlattenSeq(a \o b) = FlattenSeq(a) \o FlattenSeq(b)
  BY <1>3, <1>4, FlattenConcat
<1> QED
  BY <1>3, <1>4, <1>5, <1>10, <1>11

\* The data of one frame.
LEMMA DataOne == ASSUME NEW f \in AnyFrame PROVE DataOf(<<f>>) = Carried(f)
<1>1. <<f>> \in Seq(AnyFrame) /\ Len(<<f>>) = 1 /\ <<f>>[1] = f
  OBVIOUS
<1> DEFINE p == PartsOf(<<f>>)
           x == Carried(f)
<1>2. p \in Seq(Seq(Packets)) /\ Len(p) = 1 /\ DataOf(<<f>>) = FlattenSeq(p)
  BY <1>1, DataParts
<1>3. p[1] = x
  <2>1. 1 \in 1..Len(<<f>>)
    BY <1>1
  <2>2. p[1] = Carried(<<f>>[1])
    BY <1>1, <2>1, DataParts, Zenon
  <2> QED
    BY <1>1, <2>2
<1>4. x \in Seq(Packets)
  BY CarriedOne
<1> HIDE DEF p, x
<1>5. p = <<x>>
  BY <1>2, <1>3, <1>4
<1> QED
  BY <1>2, <1>4, <1>5, FlattenOne DEF x

-----------------------------------------------------------------------------
(* The decoder as a machine over bytes *)

\* A decoder's mode and buffer, and the data that it has put out.
Modes    == {"out", "in", "esc"}
Decoders == [mode : Modes, buf : Seq(Bytes), out : Seq(Packets)]

\* No frame is under way.
Quiet(s) == s.mode = "out" \/ s.buf = <<>>

\* What a delimiter ends.
Ended(s) == IF Quiet(s) THEN <<>> ELSE DataOf(<<BuildFrame(s.buf)>>)

\* Where a byte that is no delimiter leads.
ModeAfter(m, b) ==
    CASE m = "out" -> "out"
      [] m = "in"  -> IF b = FESC THEN "esc" ELSE "in"
      [] OTHER     -> "in"

BufAfter(m, u, b) ==
    CASE m = "out" -> u
      [] m = "in"  -> IF b = FESC THEN u ELSE Append(u, b)
      [] OTHER     -> u \o Unescaped(b)

\* The decoder after one more byte.
Took(s, b) ==
    IF b = FEND
    THEN [mode |-> "in", buf |-> <<>>, out |-> s.out \o Ended(s)]
    ELSE [mode |-> ModeAfter(s.mode, b), buf |-> BufAfter(s.mode, s.buf, b), out |-> s.out]

\* The bytes of l take the decoder s to z.
Runs(s, l, z) ==
    \E st \in [0..Len(l) -> Decoders] :
        /\ st[0] = s /\ st[Len(l)] = z
        /\ \A i \in 1..Len(l) : st[i] = Took(st[i - 1], l[i])

\* What a decoder builds is a frame.
LEMMA BuildType == ASSUME NEW u \in Seq(Bytes), u # <<>> PROVE BuildFrame(u) \in AnyFrame
<1>1. u[1] \in Bytes /\ Tail(u) \in Seq(Bytes)
  <2>1. Len(u) \in Nat /\ Len(u) # 0
    BY LenProperties, EmptySeq
  <2>2. 1 \in 1..Len(u)
    BY <2>1
  <2> QED
    BY <2>2, ElementOfSeq, HeadTailProperties
<1>2. u[1] \in 0..255
  BY <1>1 DEF Bytes
<1> DEFINE h == u[1]
           d == Tail(u)
<1>3. h \in 0..255 /\ d \in Seq(Bytes)
  BY <1>1, <1>2
<1> HIDE DEF h, d
<1>4. h \div 16 \in 0..15 /\ h % 16 \in 0..15
  BY <1>3
<1>5. CASE h = 255
  <2>1. BuildFrame(u) = [port |-> 0, command |-> RETURN, data |-> <<>>]
    BY <1>5 DEF BuildFrame, h
  <2>2. <<>> \in Seq(Bytes)
    OBVIOUS
  <2> QED
    BY <2>1, <2>2 DEF AnyFrame
<1>6. CASE h # 255
  <2>1. BuildFrame(u) = [port |-> h \div 16, command |-> h % 16, data |-> d]
    BY <1>6 DEF BuildFrame, h, d
  <2> QED
    BY <1>3, <1>4, <2>1 DEF AnyFrame
<1> QED
  BY <1>5, <1>6

\* A delimiter ends at most one packet.
LEMMA EndedOne == ASSUME NEW s \in Decoders PROVE Ended(s) \in Seq(Packets) /\ Len(Ended(s)) \in 0..1
<1>1. CASE Quiet(s)
  <2>1. Ended(s) = <<>>
    BY <1>1 DEF Ended
  <2>2. <<>> \in Seq(Packets) /\ Len(<<>>) = 0
    OBVIOUS
  <2> QED
    BY <2>1, <2>2
<1>2. CASE ~Quiet(s)
  <2>1. s.buf \in Seq(Bytes) /\ s.buf # <<>>
    BY <1>2 DEF Quiet, Decoders
  <2>2. BuildFrame(s.buf) \in AnyFrame
    BY <2>1, BuildType
  <2>3. Ended(s) = Carried(BuildFrame(s.buf))
    BY <1>2, <2>2, DataOne DEF Ended
  <2> QED
    BY <2>2, <2>3, CarriedOne
<1> QED
  BY <1>1, <1>2

\* A byte after the start of a frame keeps the types.
LEMMA AfterType ==
    ASSUME NEW m \in Modes, NEW u \in Seq(Bytes), NEW b \in Bytes
    PROVE  ModeAfter(m, b) \in Modes /\ BufAfter(m, u, b) \in Seq(Bytes)
<1>1. ModeAfter(m, b) \in Modes
  BY DEF ModeAfter, Modes
<1>2. CASE m = "out"
  <2>1. BufAfter(m, u, b) = u
    BY <1>2 DEF BufAfter
  <2> QED
    BY <1>1, <2>1
<1>3. CASE m = "in"
  <2>1. BufAfter(m, u, b) = IF b = FESC THEN u ELSE Append(u, b)
    BY <1>3 DEF BufAfter
  <2>2. Append(u, b) \in Seq(Bytes)
    BY AppendProperties
  <2> QED
    BY <1>1, <2>1, <2>2
<1>4. CASE m = "esc"
  <2>1. BufAfter(m, u, b) = u \o Unescaped(b)
    BY <1>4 DEF BufAfter
  <2>2. FEND \in Bytes /\ FESC \in Bytes
    BY DEF FEND, FESC, Bytes
  <2>3. <<FEND>> \in Seq(Bytes) /\ <<FESC>> \in Seq(Bytes) /\ <<>> \in Seq(Bytes)
    BY <2>2
  <2>4. Unescaped(b) \in {<<FEND>>, <<FESC>>, <<>>}
    BY DEF Unescaped
  <2>5. Unescaped(b) \in Seq(Bytes)
    BY <2>3, <2>4
  <2> QED
    BY <1>1, <2>1, <2>5, ConcatProperties
<1> QED
  BY <1>2, <1>3, <1>4 DEF Modes

\* The parts of a decoder, and a decoder of its parts.
LEMMA DecoderParts ==
    /\ \A s \in Decoders : s.mode \in Modes /\ s.buf \in Seq(Bytes) /\ s.out \in Seq(Packets)
    /\ \A m \in Modes, u \in Seq(Bytes), o \in Seq(Packets) : [mode |-> m, buf |-> u, out |-> o] \in Decoders
BY DEF Decoders

\* A decoder stays one.
LEMMA TookType == ASSUME NEW s \in Decoders, NEW b \in Bytes PROVE Took(s, b) \in Decoders
<1>1. s.mode \in Modes /\ s.buf \in Seq(Bytes) /\ s.out \in Seq(Packets)
  BY DecoderParts
<1>2. CASE b = FEND
  <2>1. s.out \o Ended(s) \in Seq(Packets)
    BY <1>1, EndedOne, ConcatProperties
  <2>2. "in" \in Modes /\ <<>> \in Seq(Bytes)
    BY DEF Modes
  <2>3. Took(s, b) = [mode |-> "in", buf |-> <<>>, out |-> s.out \o Ended(s)]
    BY <1>2 DEF Took
  <2> QED
    BY <2>1, <2>2, <2>3, DecoderParts
<1>3. CASE b # FEND
  <2>1. Took(s, b) = [mode |-> ModeAfter(s.mode, b), buf |-> BufAfter(s.mode, s.buf, b), out |-> s.out]
    BY <1>3 DEF Took
  <2> QED
    BY <1>1, <2>1, AfterType, DecoderParts
<1> QED
  BY <1>2, <1>3

\* No bytes, no change.
LEMMA RunsNone == ASSUME NEW s \in Decoders PROVE Runs(s, <<>>, s) /\ \A z : Runs(s, <<>>, z) => z = s
<1>1. Len(<<>>) = 0
  OBVIOUS
<1> DEFINE st == [i \in 0..0 |-> s]
<1>2. st \in [0..0 -> Decoders] /\ st[0] = s
  OBVIOUS
<1> HIDE DEF st
<1>3. Runs(s, <<>>, s)
  BY <1>1, <1>2 DEF Runs
<1>4. \A z : Runs(s, <<>>, z) => z = s
  BY <1>1 DEF Runs
<1> QED
  BY <1>3, <1>4

\* One byte is one step.
LEMMA RunsOne == ASSUME NEW s \in Decoders, NEW b \in Bytes PROVE Runs(s, <<b>>, Took(s, b))
<1>1. Len(<<b>>) = 1 /\ <<b>>[1] = b
  OBVIOUS
<1> DEFINE z == Took(s, b)
           st == [i \in 0..1 |-> IF i = 0 THEN s ELSE z]
<1>2. z \in Decoders
  BY TookType
<1> HIDE DEF z
<1>3. st \in [0..1 -> Decoders] /\ st[0] = s /\ st[1] = z
  BY <1>2
<1> HIDE DEF st
<1>4. \A i \in 1..1 : st[i] = Took(st[i - 1], <<b>>[i])
  BY <1>1, <1>3 DEF z
<1> QED
  BY <1>1, <1>3, <1>4 DEF Runs, z

\* The first byte is the first step.
LEMMA RunsHead ==
    ASSUME NEW s, NEW z, NEW l \in Seq(Bytes), l # <<>>, Runs(s, l, z)
    PROVE  Runs(Took(s, Head(l)), Tail(l), z)
<1> DEFINE n == Len(l)
           t == Tail(l)
<1>1. n \in Nat /\ n >= 1
  BY LenProperties, EmptySeq
<1>2. Len(t) = n - 1 /\ Head(l) = l[1] /\ \A i \in 1..(n - 1) : t[i] = l[i + 1]
  BY <1>1, HeadTailProperties
<1>3. PICK st \in [0..n -> Decoders] :
        st[0] = s /\ st[n] = z /\ \A i \in 1..n : st[i] = Took(st[i - 1], l[i])
  BY DEF Runs
<1> HIDE DEF n, t
<1> DEFINE u == [i \in 0..(n - 1) |-> st[i + 1]]
<1>4. u \in [0..(n - 1) -> Decoders]
  BY <1>1
<1>5. \A i \in 0..(n - 1) : u[i] = st[i + 1]
  OBVIOUS
<1> HIDE DEF u
<1>6. u[0] = Took(s, Head(l))
  <2>1. 1 \in 1..n /\ 0 \in 0..(n - 1) /\ 1 - 1 = 0 /\ 0 + 1 = 1
    BY <1>1
  <2>2. st[1] = Took(st[1 - 1], l[1])
    BY <1>3, <2>1
  <2> QED
    BY <1>2, <1>3, <1>5, <2>1, <2>2
<1>7. u[n - 1] = z
  <2>1. n - 1 \in 0..(n - 1) /\ (n - 1) + 1 = n
    BY <1>1
  <2> QED
    BY <1>3, <1>5, <2>1
<1>8. ASSUME NEW i \in 1..(n - 1) PROVE u[i] = Took(u[i - 1], t[i])
  <2>1. i \in 0..(n - 1) /\ i - 1 \in 0..(n - 1) /\ i + 1 \in 1..n /\ (i + 1) - 1 = i /\ (i - 1) + 1 = i
    BY <1>1
  <2>2. st[i + 1] = Took(st[(i + 1) - 1], l[i + 1])
    BY <1>3, <2>1
  <2> QED
    BY <1>2, <1>5, <2>1, <2>2
<1> QED
  BY <1>2, <1>4, <1>6, <1>7, <1>8 DEF Runs, t

\* One run after another.
LEMMA RunsJoin ==
    ASSUME NEW s, NEW y, NEW z, NEW l \in Seq(Bytes), NEW k \in Seq(Bytes), Runs(s, l, y), Runs(y, k, z)
    PROVE  Runs(s, l \o k, z)
<1> DEFINE m == Len(l)
           n == Len(k)
           w == l \o k
<1>1. m \in Nat /\ n \in Nat
  BY LenProperties
<1>2. Len(w) = m + n /\ \A i \in 1..(m + n) : w[i] = IF i <= m THEN l[i] ELSE k[i - m]
  BY ConcatProperties
<1>3. PICK f \in [0..m -> Decoders] :
        f[0] = s /\ f[m] = y /\ \A i \in 1..m : f[i] = Took(f[i - 1], l[i])
  BY DEF Runs
<1>4. PICK g \in [0..n -> Decoders] :
        g[0] = y /\ g[n] = z /\ \A i \in 1..n : g[i] = Took(g[i - 1], k[i])
  BY DEF Runs
<1> HIDE DEF m, n, w
<1> DEFINE h == [i \in 0..(m + n) |-> IF i <= m THEN f[i] ELSE g[i - m]]
<1>5. h \in [0..(m + n) -> Decoders]
  <2> SUFFICES ASSUME NEW i \in 0..(m + n) PROVE (IF i <= m THEN f[i] ELSE g[i - m]) \in Decoders
    OBVIOUS
  <2>1. i <= m => i \in 0..m
    BY <1>1
  <2>2. ~(i <= m) => i - m \in 0..n
    BY <1>1
  <2> QED
    BY <2>1, <2>2
<1>6. \A i \in 0..(m + n) : h[i] = IF i <= m THEN f[i] ELSE g[i - m]
  OBVIOUS
<1> HIDE DEF h
<1>7. h[0] = s
  BY <1>1, <1>3, <1>6
<1>8. h[m + n] = z
  <2>1. m + n \in 0..(m + n) /\ (m + n) - m = n /\ (m + n <= m <=> n = 0) /\ (n = 0 => m + n = m)
    BY <1>1
  <2>2. h[m + n] = IF m + n <= m THEN f[m + n] ELSE g[(m + n) - m]
    BY <1>6, <2>1
  <2>3. CASE n = 0
    BY <1>3, <1>4, <2>1, <2>2, <2>3
  <2>4. CASE n # 0
    BY <1>4, <2>1, <2>2, <2>4
  <2> QED
    BY <2>3, <2>4
<1>9. ASSUME NEW i \in 1..(m + n) PROVE h[i] = Took(h[i - 1], w[i])
  <2>0. i \in 0..(m + n) /\ i - 1 \in 0..(m + n)
    BY <1>1
  <2>1. CASE i <= m
    <3>1. i \in 1..m /\ i - 1 <= m
      BY <1>1, <2>1
    <3>2. h[i] = f[i] /\ h[i - 1] = f[i - 1] /\ w[i] = l[i]
      BY <1>2, <1>6, <2>0, <2>1, <3>1
    <3> QED
      BY <1>3, <3>1, <3>2
  <2>2. CASE i = m + 1
    <3>1. ~(i <= m) /\ i - 1 <= m /\ i - 1 = m /\ i - m = 1 /\ 1 \in 1..n
      BY <1>1, <2>2
    <3>2. h[i] = g[1] /\ h[i - 1] = f[m] /\ w[i] = k[1]
      BY <1>2, <1>6, <2>0, <3>1
    <3>3. g[1] = Took(g[1 - 1], k[1])
      BY <1>4, <3>1
    <3>4. 1 - 1 = 0
      OBVIOUS
    <3> QED
      BY <1>3, <1>4, <3>2, <3>3, <3>4
  <2>3. CASE i > m + 1
    <3>1. ~(i <= m) /\ ~(i - 1 <= m) /\ i - m \in 1..n /\ (i - 1) - m = (i - m) - 1
      BY <1>1, <2>3
    <3>2. h[i] = g[i - m] /\ h[i - 1] = g[(i - m) - 1] /\ w[i] = k[i - m]
      BY <1>2, <1>6, <2>0, <3>1
    <3>3. g[i - m] = Took(g[(i - m) - 1], k[i - m])
      BY <1>4, <3>1
    <3> QED
      BY <3>2, <3>3
  <2> QED
    BY <1>1, <2>1, <2>2, <2>3
<1> QED
  BY <1>2, <1>5, <1>7, <1>8, <1>9 DEF Runs, w

\* One byte more.
LEMMA RunsAppend ==
    ASSUME NEW s, NEW y \in Decoders, NEW l \in Seq(Bytes), NEW b \in Bytes, Runs(s, l, y)
    PROVE  Runs(s, Append(l, b), Took(y, b))
<1>1. <<b>> \in Seq(Bytes) /\ Append(l, b) = l \o <<b>>
  BY AppendIsConcat
<1>2. Runs(y, <<b>>, Took(y, b))
  BY RunsOne
<1> QED
  BY <1>1, <1>2, RunsJoin

\* A run ends in a decoder.
LEMMA RunsType == ASSUME NEW s, NEW z, NEW l \in Seq(Bytes), Runs(s, l, z) PROVE s \in Decoders /\ z \in Decoders
<1>1. Len(l) \in Nat
  BY LenProperties
<1> QED
  BY <1>1 DEF Runs

-----------------------------------------------------------------------------
(* Two decoders on one line *)

\* Two decoders hold the same.
SameHold(s, t) == s.mode = t.mode /\ s.buf = t.buf

\* What the first has put out is what the second has, but for at most n
\* packets in one place; they hold the same, or one more may go astray yet.
Apart(s, t, n, a, x, y, r) ==
    /\ s.out = (a \o x) \o r
    /\ t.out = (a \o y) \o r
    /\ \/ SameHold(s, t) /\ Len(x) <= n
       \/ r = <<>> /\ Len(x) + 1 <= n

Close(s, t, n) == \E a, x, y, r \in Seq(Packets) : Apart(s, t, n, a, x, y, r)

\* What a step does to a decoder's parts.
LEMMA TookParts ==
    ASSUME NEW s \in Decoders, NEW b \in Bytes
    PROVE  /\ b = FEND => /\ Took(s, b).mode = "in" /\ Took(s, b).buf = <<>>
                          /\ Took(s, b).out = s.out \o Ended(s)
           /\ b # FEND => /\ Took(s, b).mode = ModeAfter(s.mode, b)
                          /\ Took(s, b).buf = BufAfter(s.mode, s.buf, b)
                          /\ Took(s, b).out = s.out
BY DEF Took

\* Decoders that hold the same end the same.
LEMMA EndedSame == ASSUME NEW s, NEW t, SameHold(s, t) PROVE Ended(s) = Ended(t)
BY DEF SameHold, Ended, Quiet

\* One more piece into an empty place.
LEMMA JoinMiddle ==
    ASSUME NEW S, NEW a \in Seq(S), NEW x \in Seq(S), NEW e \in Seq(S)
    PROVE  ((a \o x) \o <<>>) \o e = (a \o (x \o e)) \o <<>>
<1>1. a \o x \in Seq(S) /\ x \o e \in Seq(S)
  BY ConcatProperties
<1>2. a \o (x \o e) \in Seq(S)
  BY <1>1, ConcatProperties
<1>3. (a \o x) \o <<>> = a \o x /\ (a \o (x \o e)) \o <<>> = a \o (x \o e)
  BY <1>1, <1>2, ConcatEmptySeq
<1>4. (a \o x) \o e = a \o (x \o e)
  BY ConcatParts
<1> QED
  BY <1>3, <1>4

\* Two decoders that take the same byte stay as close as they are.
LEMMA CloseStep ==
    ASSUME NEW s \in Decoders, NEW t \in Decoders, NEW n \in Nat, NEW b \in Bytes, Close(s, t, n)
    PROVE  Close(Took(s, b), Took(t, b), n)
<1>0. \A p, r, e \in Seq(Packets) : (p \o r) \o e = p \o (r \o e)
  BY ConcatParts
<1>0m. \A a, x, e \in Seq(Packets) : ((a \o x) \o <<>>) \o e = (a \o (x \o e)) \o <<>>
  BY JoinMiddle
<1>1. PICK a \in Seq(Packets), x \in Seq(Packets), y \in Seq(Packets), r \in Seq(Packets) : Apart(s, t, n, a, x, y, r)
  BY DEF Close
<1> DEFINE s2 == Took(s, b)
           t2 == Took(t, b)
<1>2. CASE b # FEND
  <2>1. s2.out = s.out /\ t2.out = t.out
    BY <1>2, TookParts
  <2>2. SameHold(s, t) => SameHold(s2, t2)
    BY <1>2, TookParts DEF SameHold
  <2> HIDE DEF s2, t2
  <2>3. Apart(s2, t2, n, a, x, y, r)
    BY <1>1, <2>1, <2>2 DEF Apart
  <2> QED
    BY <2>3 DEF Close, s2, t2
<1>3. CASE b = FEND
  <2>1. s2.out = s.out \o Ended(s) /\ t2.out = t.out \o Ended(t) /\ SameHold(s2, t2)
    BY <1>3, TookParts DEF SameHold
  <2>2. PICK e \in Seq(Packets), f \in Seq(Packets) : e = Ended(s) /\ f = Ended(t) /\ Len(e) \in 0..1
    BY EndedOne
  <2>3. Len(x) \in Nat
    BY LenProperties
  <2> HIDE DEF s2, t2
  <2>4. CASE SameHold(s, t) /\ Len(x) <= n
    <3>1. e = f
      BY <2>2, <2>4, EndedSame
    <3>2. r \o e \in Seq(Packets)
      BY ConcatProperties
    <3>3. s2.out = (a \o x) \o (r \o e)
      <4>1. s.out = (a \o x) \o r
        BY <1>1 DEF Apart
      <4>2. PICK p \in Seq(Packets) : p = a \o x
        BY ConcatProperties
      <4>3. (p \o r) \o e = p \o (r \o e)
        BY <1>0
      <4> QED
        BY <2>1, <2>2, <4>1, <4>2, <4>3, Zenon
    <3>4. t2.out = (a \o y) \o (r \o e)
      <4>1. t.out = (a \o y) \o r
        BY <1>1 DEF Apart
      <4>2. PICK p \in Seq(Packets) : p = a \o y
        BY ConcatProperties
      <4>3. (p \o r) \o e = p \o (r \o e)
        BY <1>0
      <4> QED
        BY <2>1, <2>2, <3>1, <4>1, <4>2, <4>3, Zenon
    <3>5. Apart(s2, t2, n, a, x, y, r \o e)
      BY <2>1, <2>4, <3>3, <3>4 DEF Apart
    <3> QED
      BY <3>2, <3>5 DEF Close, s2, t2
  <2>5. CASE r = <<>> /\ Len(x) + 1 <= n
    <3>1. x \o e \in Seq(Packets) /\ y \o f \in Seq(Packets)
      BY ConcatProperties
    <3>2. s2.out = (a \o (x \o e)) \o <<>>
      <4>1. s.out = (a \o x) \o <<>>
        <5>1. s.out = (a \o x) \o r
          BY <1>1, Zenon DEF Apart
        <5> QED
          BY <2>5, <5>1, Zenon
      <4>2. ((a \o x) \o <<>>) \o e = (a \o (x \o e)) \o <<>>
        <5>1. \A p, q \in Seq(Packets) : ((a \o p) \o <<>>) \o q = (a \o (p \o q)) \o <<>>
          BY <1>0m, Zenon
        <5>2. \A q \in Seq(Packets) : ((a \o x) \o <<>>) \o q = (a \o (x \o q)) \o <<>>
          BY <5>1, Zenon
        <5> QED
          BY <5>2, Zenon
      <4> QED
        BY <2>1, <2>2, <4>1, <4>2, Zenon
    <3>3. t2.out = (a \o (y \o f)) \o <<>>
      <4>1. t.out = (a \o y) \o <<>>
        <5>1. t.out = (a \o y) \o r
          BY <1>1, Zenon DEF Apart
        <5> QED
          BY <2>5, <5>1, Zenon
      <4>2. ((a \o y) \o <<>>) \o f = (a \o (y \o f)) \o <<>>
        <5>1. \A p, q \in Seq(Packets) : ((a \o p) \o <<>>) \o q = (a \o (p \o q)) \o <<>>
          BY <1>0m, Zenon
        <5>2. \A q \in Seq(Packets) : ((a \o y) \o <<>>) \o q = (a \o (y \o q)) \o <<>>
          BY <5>1, Zenon
        <5> QED
          BY <5>2, Zenon
      <4> QED
        BY <2>1, <2>2, <4>1, <4>2, Zenon
    <3>4. Len(x \o e) <= n
      <4>1. PICK c \in Nat, d \in 0..1 : c = Len(x) /\ d = Len(e)
        BY <2>2, <2>3
      <4>2. c + 1 <= n
        BY <2>5, <4>1
      <4>3. c + d <= n
        BY <4>2
      <4>4. Len(x \o e) = c + d
        BY <4>1, ConcatProperties
      <4> QED
        BY <4>3, <4>4
    <3>5. Apart(s2, t2, n, a, x \o e, y \o f, <<>>)
      BY <2>1, <3>2, <3>3, <3>4 DEF Apart
    <3>6. <<>> \in Seq(Packets)
      OBVIOUS
    <3> QED
      BY <3>1, <3>5, <3>6 DEF Close, s2, t2
  <2> QED
    BY <1>1, <2>4, <2>5 DEF Apart
<1> QED
  BY <1>2, <1>3

\* Two decoders on the same line end as close as they began.
LEMMA Resync ==
    ASSUME NEW s \in Decoders, NEW t \in Decoders, NEW z, NEW n \in Nat, NEW l \in Seq(Bytes),
           Close(s, t, n), Runs(s, l, z)
    PROVE  \E w \in Decoders : Runs(t, l, w) /\ Close(z, w, n)
<1> DEFINE P(i) == SubSeq(l, 1, i)
           k == Len(l)
<1>1. k \in Nat /\ P(0) = <<>> /\ P(k) = l
  BY PrefixFacts
<1>2. \A i \in 0..k : P(i) \in Seq(Bytes)
  BY PrefixFacts
<1>3. \A i \in 1..k : l[i] \in Bytes /\ P(i) = Append(P(i - 1), l[i])
  BY PrefixFacts
<1>4. PICK st \in [0..k -> Decoders] :
        st[0] = s /\ st[k] = z /\ \A i \in 1..k : st[i] = Took(st[i - 1], l[i])
  BY DEF Runs
<1> HIDE DEF P, k
<1> DEFINE Good(i, w) == Runs(t, P(i), w) /\ Close(st[i], w, n)
           H == {i \in 0..k : \E w \in Decoders : Good(i, w)}
<1>5. 0 \in H
  <2>1. Runs(t, P(0), t)
    BY <1>1, RunsNone
  <2>2. Good(0, t) /\ 0 \in 0..k
    BY <1>1, <1>4, <2>1
  <2> QED
    BY <2>2
<1>6. ASSUME NEW i \in 0..k, i > 0, i - 1 \in H PROVE i \in H
  <2>1. i \in 1..k /\ i - 1 \in 0..k
    BY <1>1, <1>6
  <2>2. PICK w \in Decoders : Good(i - 1, w)
    BY <1>6
  <2>3. PICK b \in Bytes : b = l[i] /\ P(i) = Append(P(i - 1), b)
    BY <1>3, <2>1
  <2>4. Took(w, b) \in Decoders
    BY TookType
  <2>5. Runs(t, P(i), Took(w, b))
    BY <1>2, <2>1, <2>2, <2>3, RunsAppend
  <2>6. st[i - 1] \in Decoders /\ st[i] = Took(st[i - 1], b)
    BY <1>4, <2>1, <2>3
  <2>7. Close(st[i], Took(w, b), n)
    BY <2>2, <2>6, CloseStep
  <2> QED
    BY <2>4, <2>5, <2>7
<1> HIDE DEF H
<1>7. 0..k \subseteq H
  BY <1>1, <1>5, <1>6, Induction
<1>8. k \in H
  BY <1>1, <1>7
<1>9. PICK w \in Decoders : Good(k, w)
  BY <1>8 DEF H
<1> QED
  BY <1>1, <1>4, <1>9

-----------------------------------------------------------------------------
(* What a decoder makes of a whole frame *)

\* A decoder in a frame.
InFrame(u, o) == [mode |-> "in", buf |-> u, out |-> o]

\* It is one of the decoder's states.
LEMMA InFrameType ==
    ASSUME NEW u \in Seq(Bytes), NEW o \in Seq(Packets)
    PROVE  InFrame(u, o) \in Decoders
<1>1. "in" \in Modes
  BY DEF Modes
<1> QED
  BY <1>1, DecoderParts DEF InFrame

\* An ordinary byte is added to the buffer.
LEMMA PlainByte ==
    ASSUME NEW u \in Seq(Bytes), NEW o \in Seq(Packets), NEW b \in Bytes, b # FEND, b # FESC
    PROVE  Took(InFrame(u, o), b) = InFrame(Append(u, b), o)
BY DEF Took, InFrame, ModeAfter, BufAfter

\* An escape and the byte after it stand for one byte.
LEMMA EscapedByte ==
    ASSUME NEW u \in Seq(Bytes), NEW o \in Seq(Packets), NEW c \in Bytes, NEW b \in Bytes,
           c # FEND, Unescaped(c) = <<b>>
    PROVE  Took(Took(InFrame(u, o), FESC), c) = InFrame(Append(u, b), o)
<1> DEFINE e == [mode |-> "esc", buf |-> u, out |-> o]
<1>1. Took(InFrame(u, o), FESC) = e
  BY DEF Took, InFrame, ModeAfter, BufAfter, FESC, FEND
<1>2. Append(u, b) = u \o <<b>>
  BY AppendIsConcat
<1>3. e.mode = "esc" /\ e.buf = u /\ e.out = o
  OBVIOUS
<1> HIDE DEF e
<1>4. ModeAfter("esc", c) = "in" /\ BufAfter("esc", u, c) = u \o Unescaped(c)
  BY DEF ModeAfter, BufAfter
<1>5. Took(e, c) = [mode |-> "in", buf |-> u \o <<b>>, out |-> o]
  BY <1>3, <1>4 DEF Took
<1> QED
  BY <1>1, <1>2, <1>5 DEF InFrame

\* Two bytes are one appended to the other.
LEMMA PairFacts ==
    ASSUME NEW S, NEW g \in S, NEW c \in S
    PROVE  <<g>> \in Seq(S) /\ <<g, c>> \in Seq(S) /\ Append(<<g>>, c) = <<g, c>>
<1>1. <<g>> \in Seq(S) /\ Len(<<g>>) = 1 /\ <<g>>[1] = g
  OBVIOUS
<1>2. <<g, c>> \in Seq(S)
  OBVIOUS
<1>3. Len(<<g, c>>) = 2 /\ <<g, c>>[1] = g /\ <<g, c>>[2] = c
  OBVIOUS
<1>4. PICK p \in Seq(S), q \in Seq(S) : p = <<g>> /\ q = <<g, c>>
  BY <1>1, <1>2
<1>5. Append(p, c) \in Seq(S) /\ Len(Append(p, c)) = 2 /\ Append(p, c)[1] = g /\ Append(p, c)[2] = c
  <2>1. Len(p) = 1 /\ p[1] = g /\ 1 \in 1..1 /\ 1 + 1 = 2
    BY <1>1, <1>4
  <2>2. Append(p, c) \in Seq(S) /\ Len(Append(p, c)) = Len(p) + 1 /\ Append(p, c)[Len(p) + 1] = c
    BY AppendProperties
  <2>3. Append(p, c)[1] = p[1]
    <3>1. 1 \in 1..Len(p)
      BY <2>1
    <3>2. \A i \in 1..Len(p) : Append(p, c)[i] = p[i]
      BY AppendProperties
    <3> QED
      BY <3>1, <3>2, Zenon
  <2> QED
    BY <2>1, <2>2, <2>3
<1>6. \A i \in 1..2 : i = 1 \/ i = 2
  OBVIOUS
<1>7. Len(q) = 2 /\ q[1] = g /\ q[2] = c
  BY <1>3, <1>4
<1>8. \A i \in 1..2 : Append(p, c)[i] = q[i]
  BY <1>5, <1>6, <1>7
<1>9. Append(p, c) = q
  BY <1>5, <1>7, <1>8, SeqEqual
<1> QED
  BY <1>1, <1>2, <1>4, <1>9, Zenon

\* The decoder undoes the escaping of a byte.
LEMMA EscapeRuns ==
    ASSUME NEW u \in Seq(Bytes), NEW o \in Seq(Packets), NEW b \in Bytes
    PROVE  Escape(b) \in Seq(Bytes) /\ Runs(InFrame(u, o), Escape(b), InFrame(Append(u, b), o))
<1> DEFINE s == InFrame(u, o)
<1>0. FEND \in Bytes /\ FESC \in Bytes /\ TFEND \in Bytes /\ TFESC \in Bytes
  BY DEF FEND, FESC, TFEND, TFESC, Bytes
<1>1. s \in Decoders
  BY InFrameType
<1>2. ASSUME NEW c \in Bytes PROVE <<FESC, c>> \in Seq(Bytes) /\ Runs(s, <<FESC, c>>, Took(Took(s, FESC), c))
  <2>1. PICK g \in Bytes : g = FESC
    BY <1>0
  <2> HIDE DEF s
  <2>2. <<g>> \in Seq(Bytes) /\ Append(<<g>>, c) = <<g, c>> /\ <<g, c>> \in Seq(Bytes)
    BY PairFacts
  <2>3. Runs(s, <<g>>, Took(s, g)) /\ Took(s, g) \in Decoders
    BY <1>1, RunsOne, TookType
  <2>4. Runs(s, Append(<<g>>, c), Took(Took(s, g), c))
    BY <2>2, <2>3, RunsAppend
  <2> QED
    BY <2>1, <2>2, <2>4
<1>3. CASE b = FEND
  <2>1. Escape(b) = <<FESC, TFEND>>
    <3>1. FEND # FESC
      BY DEF FEND, FESC
    <3> QED
      BY <1>3, <3>1 DEF Escape
  <2>2. Unescaped(TFEND) = <<FEND>>
    <3>1. TFEND # TFESC
      BY DEF TFEND, TFESC
    <3> QED
      BY <3>1 DEF Unescaped
  <2>3. TFEND # FEND /\ Unescaped(TFEND) = <<b>>
    BY <1>3, <2>2 DEF TFEND, FEND
  <2>4. PICK c \in Bytes : c = TFEND
    BY <1>0
  <2>5. Took(Took(s, FESC), c) = InFrame(Append(u, b), o)
    BY <2>3, <2>4, EscapedByte
  <2> HIDE DEF s
  <2> QED
    BY <1>2, <2>1, <2>4, <2>5 DEF s
<1>4. CASE b = FESC
  <2>1. Escape(b) = <<FESC, TFESC>>
    BY <1>4 DEF Escape, FESC, FEND
  <2>2. TFESC # TFEND /\ TFESC # FEND
    BY DEF TFESC, TFEND, FEND
  <2>3. Unescaped(TFESC) = <<b>>
    BY <1>4, <2>2 DEF Unescaped
  <2>4. PICK c \in Bytes : c = TFESC
    BY <1>0
  <2>5. Took(Took(s, FESC), c) = InFrame(Append(u, b), o)
    BY <2>2, <2>3, <2>4, EscapedByte
  <2> HIDE DEF s
  <2> QED
    BY <1>2, <2>1, <2>4, <2>5 DEF s
<1>5. CASE b # FEND /\ b # FESC
  <2>1. Escape(b) = <<b>> /\ <<b>> \in Seq(Bytes)
    BY <1>5 DEF Escape
  <2>2. Took(s, b) = InFrame(Append(u, b), o)
    BY <1>5, PlainByte
  <2>3. Runs(s, <<b>>, Took(s, b))
    BY <1>1, RunsOne
  <2> HIDE DEF s
  <2> QED
    BY <2>1, <2>2, <2>3 DEF s
<1> QED
  BY <1>3, <1>4, <1>5

\* The escaped data of a frame.
Escapes(d) == [i \in DOMAIN d |-> Escape(d[i])]

\* There is one escape for every byte.
LEMMA EscapesFacts ==
    ASSUME NEW d \in Seq(Bytes)
    PROVE  /\ Escapes(d) \in Seq(Seq(Bytes)) /\ Len(Escapes(d)) = Len(d)
           /\ \A i \in 1..Len(d) : Escapes(d)[i] = Escape(d[i])
<1>1. Len(d) \in Nat /\ DOMAIN d = 1..Len(d)
  BY LenProperties
<1>2. \A b \in Bytes : Escape(b) \in Seq(Bytes)
  <2>1. <<>> \in Seq(Bytes) /\ <<>> \in Seq(Packets)
    OBVIOUS
  <2> QED
    BY <2>1, EscapeRuns
<1>3. \A i \in 1..Len(d) : d[i] \in Bytes
  BY ElementOfSeq
<1>4. Escapes(d) = [i \in 1..Len(d) |-> Escape(d[i])]
  BY <1>1 DEF Escapes
<1>5. Escapes(d) \in [1..Len(d) -> Seq(Bytes)]
  BY <1>2, <1>3, <1>4
<1>6. Escapes(d) \in Seq(Seq(Bytes))
  BY <1>1, <1>5, SeqDef
<1>7. Len(Escapes(d)) = Len(d)
  <2>1. DOMAIN Escapes(d) = 1..Len(Escapes(d)) /\ Len(Escapes(d)) \in Nat
    BY <1>6, LenProperties
  <2>2. DOMAIN Escapes(d) = 1..Len(d)
    BY <1>5
  <2> QED
    BY <1>1, <1>5, <1>6, <2>1, <2>2, LenProperties
<1> QED
  BY <1>4, <1>6, <1>7

\* The decoder undoes the escaping of the data.
LEMMA DataRuns ==
    ASSUME NEW d \in Seq(Bytes), NEW h \in Bytes, NEW o \in Seq(Packets)
    PROVE  /\ FlattenSeq(Escapes(d)) \in Seq(Bytes)
           /\ Runs(InFrame(<<h>>, o), FlattenSeq(Escapes(d)), InFrame(<<h>> \o d, o))
<1> DEFINE e == Escapes(d)
           n == Len(d)
           P(i) == SubSeq(d, 1, i)
           E(i) == SubSeq(e, 1, i)
           s == InFrame(<<h>>, o)
           Good(l, p) == Runs(s, FlattenSeq(l), InFrame(<<h>> \o p, o))
           H == {i \in 0..n : Good(E(i), P(i))}
<1>1. e \in Seq(Seq(Bytes)) /\ Len(e) = n /\ \A i \in 1..n : e[i] = Escape(d[i])
  BY EscapesFacts
<1>2. n \in Nat /\ P(0) = <<>> /\ P(n) = d
  BY PrefixFacts
<1>3. \A i \in 0..n : P(i) \in Seq(Bytes)
  BY PrefixFacts
<1>4. \A i \in 1..n : d[i] \in Bytes /\ P(i) = Append(P(i - 1), d[i])
  BY PrefixFacts
<1> HIDE DEF e
<1>5. E(0) = <<>> /\ E(n) = e
  BY <1>1, PrefixFacts
<1>6. \A i \in 0..n : E(i) \in Seq(Seq(Bytes))
  BY <1>1, PrefixFacts
<1>7. \A i \in 1..n : E(i) = Append(E(i - 1), e[i])
  BY <1>1, PrefixFacts
<1> HIDE DEF n, P, E
<1>8. <<h>> \in Seq(Bytes) /\ s \in Decoders
  <2>1. <<h>> \in Seq(Bytes)
    OBVIOUS
  <2> QED
    BY <2>1, InFrameType
<1>9. Good(<<>>, <<>>)
  <2>1. <<h>> \o <<>> = <<h>>
    BY <1>8, ConcatEmptySeq
  <2> QED
    BY <1>8, <2>1, FlattenNone, RunsNone
<1>10. ASSUME NEW l \in Seq(Seq(Bytes)), NEW p \in Seq(Bytes), NEW b \in Bytes, Good(l, p)
       PROVE  Good(Append(l, Escape(b)), Append(p, b))
  <2>1. PICK u \in Seq(Bytes) : u = <<h>> \o p
    BY <1>8, ConcatProperties
  <2>2. <<h>> \o Append(p, b) = Append(u, b)
    BY <1>8, <2>1, AppendLast
  <2>3. Escape(b) \in Seq(Bytes) /\ Runs(InFrame(u, o), Escape(b), InFrame(Append(u, b), o))
    BY EscapeRuns
  <2>4. PICK k \in Seq(Bytes) : k = FlattenSeq(l)
    BY FlattenType
  <2>5. FlattenSeq(Append(l, Escape(b))) = k \o Escape(b)
    BY <2>3, <2>4, FlattenAppend
  <2>6. Runs(s, k, InFrame(u, o))
    BY <1>10, <2>1, <2>4
  <2> HIDE DEF s
  <2>7. Runs(s, k \o Escape(b), InFrame(Append(u, b), o))
    BY <2>3, <2>6, RunsJoin
  <2> QED
    BY <2>2, <2>5, <2>7
<1> HIDE DEF Good
<1>11. 0 \in H
  BY <1>2, <1>5, <1>9
<1>12. ASSUME NEW i \in 0..n, i > 0, i - 1 \in H PROVE i \in H
  <2>1. i \in 1..n /\ i - 1 \in 0..n
    BY <1>2, <1>12
  <2>2. Good(Append(E(i - 1), Escape(d[i])), Append(P(i - 1), d[i]))
    BY <1>3, <1>4, <1>6, <1>10, <1>12, <2>1
  <2>3. E(i) = Append(E(i - 1), Escape(d[i])) /\ P(i) = Append(P(i - 1), d[i])
    BY <1>1, <1>4, <1>7, <2>1
  <2> QED
    BY <2>1, <2>2, <2>3
<1> HIDE DEF H
<1>13. 0..n \subseteq H
  BY <1>2, <1>11, <1>12, Induction
<1>14. n \in H
  BY <1>2, <1>13
<1>15. Good(e, d)
  BY <1>2, <1>5, <1>14 DEF H
<1>16. FlattenSeq(e) \in Seq(Bytes)
  BY <1>1, FlattenType
<1> QED
  BY <1>15, <1>16 DEF Good, e

\* What FramesAssumption says of a frame.
LEMMA FrameFacts ==
    ASSUME NEW f \in Frames
    PROVE  /\ f \in AnyFrame /\ f.data \in Seq(Bytes)
           /\ TypeByte(f) \in Bytes /\ TypeByte(f) # FEND /\ TypeByte(f) # FESC
           /\ \/ TypeByte(f) = 255 /\ f.command = RETURN /\ f.data = <<>>
              \/ TypeByte(f) # 255 /\ f.command = TypeByte(f) % 16
<1>1. f \in [port : 0..15, command : (0..15) \cup {RETURN}, data : Seq(Bytes)]
  BY FramesAssumption
<1>2. IF f.command = RETURN THEN f.port = 0 /\ f.data = <<>> ELSE TypeByte(f) \notin {FEND, FESC, 255}
  BY FramesAssumption
<1> DEFINE p == f.port
           c == f.command
           d == f.data
<1>3. p \in 0..15 /\ c \in (0..15) \cup {RETURN} /\ d \in Seq(Bytes)
  BY <1>1
<1>4. TypeByte(f) = IF c = RETURN THEN 255 ELSE p * 16 + c
  BY DEF TypeByte
<1>6. IF c = RETURN THEN p = 0 /\ d = <<>> ELSE TypeByte(f) \notin {FEND, FESC, 255}
  BY <1>2
<1> HIDE DEF p, c, d
<1>8. f \in AnyFrame
  BY <1>1 DEF AnyFrame
<1>9. CASE c = RETURN
  <2>1. TypeByte(f) = 255 /\ d = <<>>
    BY <1>4, <1>6, <1>9
  <2>2. 255 \in Bytes /\ 255 # FEND /\ 255 # FESC
    BY DEF Bytes, FEND, FESC
  <2> QED
    BY <1>3, <1>8, <1>9, <2>1, <2>2 DEF c, d
<1>10. CASE c # RETURN
  <2>1. TypeByte(f) = p * 16 + c /\ c \in 0..15
    BY <1>3, <1>4, <1>10
  <2>2. TypeByte(f) # FEND /\ TypeByte(f) # FESC /\ TypeByte(f) # 255
    BY <1>6, <1>10
  <2>3. p * 16 + c \in 0..255 /\ (p * 16 + c) % 16 = c
    BY <1>3, <2>1
  <2>4. TypeByte(f) \in Bytes
    BY <2>1, <2>3 DEF Bytes
  <2> QED
    BY <1>3, <1>8, <2>1, <2>2, <2>3, <2>4 DEF c, d
<1> QED
  BY <1>9, <1>10

\* The first byte and the rest.
LEMMA FirstAndRest ==
    ASSUME NEW S, NEW h \in S, NEW d \in Seq(S)
    PROVE  /\ <<h>> \o d \in Seq(S) /\ <<h>> \o d # <<>>
           /\ (<<h>> \o d)[1] = h /\ Head(<<h>> \o d) = h /\ Tail(<<h>> \o d) = d
<1>1. <<h>> \in Seq(S) /\ Len(<<h>>) = 1 /\ <<h>>[1] = h
  OBVIOUS
<1>2. PICK p \in Seq(S) : p = <<h>>
  BY <1>1
<1>3. PICK u \in Seq(S) : u = p \o d
  BY ConcatProperties
<1>4. Len(d) \in Nat /\ Len(p) = 1 /\ p[1] = h
  BY <1>1, <1>2, LenProperties
<1>5. Len(u) = Len(p) + Len(d) /\ \A i \in 1..(Len(p) + Len(d)) : u[i] = IF i <= Len(p) THEN p[i] ELSE d[i - Len(p)]
  BY <1>3, ConcatProperties
<1>6. Len(u) = 1 + Len(d) /\ \A i \in 1..(1 + Len(d)) : u[i] = IF i <= 1 THEN p[i] ELSE d[i - 1]
  BY <1>4, <1>5
<1>7. u[1] = h
  <2>1. 1 \in 1..(1 + Len(d)) /\ 1 <= 1
    BY <1>4
  <2> QED
    BY <1>4, <1>6, <2>1
<1>8. u # <<>>
  BY <1>4, <1>6, EmptySeq
<1>9. Head(u) = u[1] /\ Tail(u) \in Seq(S) /\ Len(Tail(u)) = Len(u) - 1 /\ \A i \in 1..(Len(u) - 1) : Tail(u)[i] = u[i + 1]
  BY <1>8, HeadTailProperties
<1>10. Len(Tail(u)) = Len(d)
  BY <1>4, <1>6, <1>9
<1>11. ASSUME NEW i \in 1..Len(d) PROVE Tail(u)[i] = d[i]
  <2>1. i \in 1..(Len(u) - 1) /\ i + 1 \in 1..(1 + Len(d)) /\ ~(i + 1 <= 1) /\ (i + 1) - 1 = i
    BY <1>4, <1>6
  <2>2. Tail(u)[i] = u[i + 1]
    BY <1>9, <2>1
  <2>3. u[i + 1] = d[(i + 1) - 1]
    BY <1>6, <2>1
  <2> QED
    BY <2>1, <2>2, <2>3
<1>12. Tail(u) = d
  BY <1>9, <1>10, <1>11, SeqEqual
<1> QED
  BY <1>2, <1>3, <1>7, <1>8, <1>9, <1>12, Zenon

\* _build_frame finds the data of a frame that was encoded.
LEMMA BuildCarries ==
    ASSUME NEW f \in Frames
    PROVE  /\ <<TypeByte(f)>> \o f.data \in Seq(Bytes)
           /\ <<TypeByte(f)>> \o f.data # <<>>
           /\ Carried(BuildFrame(<<TypeByte(f)>> \o f.data)) = Carried(f)
<1> DEFINE h == TypeByte(f)
           d == f.data
           u == <<h>> \o d
<1>1. h \in Bytes /\ d \in Seq(Bytes)
  BY FrameFacts
<1>2. u \in Seq(Bytes) /\ u # <<>> /\ u[1] = h /\ Tail(u) = d
  BY <1>1, FirstAndRest
<1>3. \/ h = 255 /\ f.command = RETURN /\ d = <<>>
      \/ h # 255 /\ f.command = h % 16
  BY FrameFacts
<1> HIDE DEF h, u
<1>4. Carried(f) = IF f.command = DATA THEN <<d>> ELSE <<>>
  BY DEF Carried
<1> HIDE DEF d
<1>5. CASE h = 255
  <2>1. BuildFrame(u) = [port |-> 0, command |-> RETURN, data |-> <<>>]
    BY <1>2, <1>5 DEF BuildFrame
  <2>2. BuildFrame(u).command = RETURN /\ RETURN # DATA
    BY <2>1 DEF RETURN, DATA
  <2>3. Carried(BuildFrame(u)) = <<>>
    BY <2>2 DEF Carried
  <2>4. Carried(f) = <<>>
    BY <1>3, <1>4, <1>5, <2>2
  <2> QED
    BY <1>2, <2>3, <2>4 DEF h, d, u
<1>6. CASE h # 255
  <2>1. BuildFrame(u) = [port |-> h \div 16, command |-> h % 16, data |-> d]
    BY <1>2, <1>6 DEF BuildFrame
  <2>2. BuildFrame(u).command = f.command /\ BuildFrame(u).data = d
    BY <1>3, <1>6, <2>1
  <2>3. Carried(BuildFrame(u)) = Carried(f)
    BY <1>4, <2>2 DEF Carried
  <2> QED
    BY <1>2, <2>3 DEF h, d, u
<1> QED
  BY <1>5, <1>6

\* A frame that was encoded is decoded, whatever the decoder was doing: what
\* it had is ended, the data of the frame follows, and no frame is under way.
LEMMA EncodeRuns ==
    ASSUME NEW s \in Decoders, NEW f \in Frames
    PROVE  /\ Encode(f) \in Seq(Bytes)
           /\ \E z \in Decoders :
                /\ Runs(s, Encode(f), z)
                /\ z.out = (s.out \o Ended(s)) \o Carried(f)
                /\ Quiet(z)
<1>0. FEND \in Bytes
  BY DEF FEND, Bytes
<1>1. PICK h \in Bytes, d \in Seq(Bytes) : h = TypeByte(f) /\ d = f.data /\ h # FEND /\ h # FESC
  BY FrameFacts
<1>2. PICK o \in Seq(Packets) : o = s.out \o Ended(s)
  BY DecoderParts, EndedOne, ConcatProperties
<1>3. PICK e \in Seq(Bytes) : e = FlattenSeq(Escapes(d)) /\ Runs(InFrame(<<h>>, o), e, InFrame(<<h>> \o d, o))
  BY DataRuns
<1>4. PICK u \in Seq(Bytes) : u = <<h>> \o d /\ u # <<>> /\ Carried(BuildFrame(u)) = Carried(f)
  BY <1>1, BuildCarries
<1>5. PICK g \in Bytes : g = FEND
  BY <1>0
<1>6. Encode(f) = (<<g, h>> \o e) \o <<g>>
  BY <1>1, <1>3, <1>5 DEF Encode, Escapes
<1>7. <<g, h>> \in Seq(Bytes) /\ <<g>> \in Seq(Bytes) /\ Append(<<g>>, h) = <<g, h>>
  BY PairFacts
<1>8. Took(s, g) = InFrame(<<>>, o)
  BY <1>2, <1>5 DEF Took, InFrame
<1>9. <<>> \in Seq(Bytes) /\ <<h>> \in Seq(Bytes) /\ Append(<<>>, h) = <<h>>
  OBVIOUS
<1>10. Took(InFrame(<<>>, o), h) = InFrame(<<h>>, o)
  <2>1. Took(InFrame(<<>>, o), h) = InFrame(Append(<<>>, h), o)
    BY <1>1, <1>9, PlainByte
  <2> QED
    BY <1>9, <2>1
<1>11. InFrame(<<>>, o) \in Decoders /\ InFrame(<<h>>, o) \in Decoders /\ InFrame(u, o) \in Decoders
  BY <1>9, InFrameType
<1>12. Runs(s, <<g, h>>, InFrame(<<h>>, o))
  <2>1. Runs(s, <<g>>, InFrame(<<>>, o))
    BY <1>8, RunsOne
  <2>2. Runs(s, Append(<<g>>, h), Took(InFrame(<<>>, o), h))
    BY <1>7, <1>11, <2>1, RunsAppend
  <2> QED
    BY <1>7, <1>10, <2>2
<1>13. PICK k \in Seq(Bytes) : k = <<g, h>> \o e
  BY <1>7, ConcatProperties
<1>14. Runs(s, k, InFrame(u, o))
  BY <1>3, <1>4, <1>7, <1>12, <1>13, RunsJoin
<1>15. Append(k, g) = k \o <<g>> /\ Append(k, g) \in Seq(Bytes)
  BY AppendIsConcat, AppendProperties
<1> DEFINE z == Took(InFrame(u, o), g)
<1>16. Runs(s, Append(k, g), z)
  BY <1>11, <1>14, RunsAppend
<1>17. z \in Decoders
  BY <1>11, TookType
<1>18. z = InFrame(<<>>, o \o Ended(InFrame(u, o)))
  BY <1>5 DEF Took, InFrame
<1>19. Ended(InFrame(u, o)) = Carried(f)
  <2>1. ~Quiet(InFrame(u, o)) /\ InFrame(u, o).buf = u
    BY <1>4 DEF Quiet, InFrame
  <2>2. Ended(InFrame(u, o)) = DataOf(<<BuildFrame(u)>>)
    BY <2>1 DEF Ended
  <2>3. BuildFrame(u) \in AnyFrame
    BY <1>4, BuildType
  <2> QED
    BY <1>4, <2>2, <2>3, DataOne
<1> HIDE DEF z
<1>20. z.out = o \o Carried(f) /\ Quiet(z)
  BY <1>18, <1>19 DEF InFrame, Quiet
<1>21. Encode(f) = Append(k, g)
  BY <1>6, <1>13, <1>15, Zenon
<1> QED
  BY <1>2, <1>15, <1>16, <1>17, <1>20, <1>21, Zenon

\* Before the first delimiter a decoder hears nothing.
LEMMA SilentRuns ==
    ASSUME NEW s \in Decoders, s.mode = "out", NEW l \in Seq(Bytes), \A i \in 1..Len(l) : l[i] # FEND
    PROVE  Runs(s, l, s)
<1> DEFINE n == Len(l)
           st == [i \in 0..n |-> s]
<1>1. n \in Nat
  BY LenProperties
<1>2. ASSUME NEW b \in Bytes, b # FEND PROVE Took(s, b) = s
  <2>1. Took(s, b) = [mode |-> "out", buf |-> s.buf, out |-> s.out]
    BY <1>2 DEF Took, ModeAfter, BufAfter
  <2>2. s = [mode |-> s.mode, buf |-> s.buf, out |-> s.out]
    BY DEF Decoders
  <2> QED
    BY <2>1, <2>2
<1>3. st \in [0..n -> Decoders] /\ st[0] = s /\ st[n] = s
  BY <1>1
<1>4. ASSUME NEW i \in 1..n PROVE st[i] = Took(st[i - 1], l[i])
  <2>1. i \in 0..n /\ i - 1 \in 0..n
    BY <1>1
  <2>2. l[i] \in Bytes /\ l[i] # FEND
    BY ElementOfSeq
  <2> QED
    BY <1>2, <2>1, <2>2
<1> HIDE DEF st
<1> QED
  BY <1>3, <1>4 DEF Runs

-----------------------------------------------------------------------------
(* Entries in common *)

\* Places in order are at least as far apart as their numbers.
LEMMA Gaps ==
    ASSUME NEW k \in Nat, NEW h \in [1..k -> Nat], Increasing(h), NEW i \in 1..k, NEW j \in 1..k, i <= j
    PROVE  h[j] >= h[i] + (j - i)
<1> DEFINE H == {n \in 0..(j - i) : h[i + n] >= h[i] + n}
<1>1. \A m, n \in 1..k : m < n => h[m] < h[n]
  BY DEF Increasing
<1>2. j - i \in Nat
  OBVIOUS
<1>3. 0 \in H
  <2>1. h[i] \in Nat /\ i + 0 = i
    OBVIOUS
  <2> QED
    BY <1>2, <2>1
<1>4. ASSUME NEW n \in 0..(j - i), n > 0, n - 1 \in H PROVE n \in H
  <2>1. i + n \in 1..k /\ i + (n - 1) \in 1..k /\ i + (n - 1) < i + n
    BY <1>2, <1>4
  <2>2. h[i + (n - 1)] < h[i + n]
    BY <1>1, <2>1
  <2>3. h[i + (n - 1)] >= h[i] + (n - 1)
    BY <1>4
  <2>4. PICK b \in Nat, c \in Nat, d \in Nat : b = h[i] /\ c = h[i + (n - 1)] /\ d = h[i + n]
    BY <2>1
  <2>5. d >= b + n
    BY <2>2, <2>3, <2>4
  <2> QED
    BY <2>4, <2>5
<1> HIDE DEF H
<1>5. 0..(j - i) \subseteq H
  BY <1>2, <1>3, <1>4, Induction
<1>6. j - i \in H
  BY <1>2, <1>5
<1>7. i + (j - i) = j
  OBVIOUS
<1> QED
  BY <1>6, <1>7 DEF H

\* A number divides places in order into those before and those after it.
LEMMA Cut ==
    ASSUME NEW k \in Nat, NEW h \in [1..k -> Nat], Increasing(h), NEW m \in Nat
    PROVE  \E p \in 0..k : (\A i \in 1..p : h[i] <= m) /\ (\A i \in 1..k : i > p => h[i] > m)
<1> DEFINE T == {i \in 1..(k + 1) : i = k + 1 \/ h[i] > m}
<1>1. k + 1 \in T /\ T \subseteq Nat
  OBVIOUS
<1>2. PICK t \in T : \A i \in T : t <= i
  BY <1>1, Least
<1>3. t \in 1..(k + 1)
  OBVIOUS
<1>4. ASSUME NEW i \in 1..(t - 1) PROVE h[i] <= m
  <2>1. i \in 1..k /\ ~(t <= i)
    BY <1>3
  <2>2. i \notin T /\ i \in 1..(k + 1) /\ i # k + 1
    BY <1>2, <2>1
  <2>3. h[i] \in Nat /\ ~(h[i] > m)
    BY <2>1, <2>2
  <2> QED
    BY <2>3
<1>5. ASSUME NEW i \in 1..k, i > t - 1 PROVE h[i] > m
  <2>1. t \in 1..k /\ t <= i /\ t # k + 1
    BY <1>3, <1>5
  <2>2. h[t] > m /\ h[t] \in Nat /\ h[i] \in Nat
    BY <2>1
  <2>3. t = i \/ h[t] < h[i]
    BY <2>1 DEF Increasing
  <2> QED
    BY <2>2, <2>3
<1>6. t - 1 \in 0..k
  BY <1>3
<1> HIDE DEF T
<1> QED
  BY <1>4, <1>5, <1>6

\* A sequence of length l and one of length n agree but for the lx entries
\* after the first la of the one, in whose place the other has ly.
Moved(t, l, u, n, la, lx, ly) ==
    /\ \A i \in 1..la : t[i] = u[i]
    /\ \A i \in 1..l : i > la + lx => t[i] = u[(i - lx) + ly]
    /\ l >= la + lx /\ n = (l - lx) + ly

\* Where an entry behind that place is found.
LEMMA Shifted ==
    ASSUME NEW l \in Nat, NEW n \in Nat, NEW la \in Nat, NEW lx \in Nat, NEW ly \in Nat, NEW b \in 1..l,
           n = (l - lx) + ly, b > la + lx
    PROVE  (b - lx) + ly \in 1..n /\ (b - lx) + ly > la + ly
OBVIOUS

\* Two sequences have the same entries in the places g and h.
Match(s, t, k, g, h) == Increasing(g) /\ Increasing(h) /\ \A i \in 1..k : s[g[i]] = t[h[i]]

\* What is in their place costs at most their number of common entries.
LEMMA CommonMoved ==
    ASSUME NEW g, NEW h, NEW s, NEW t, NEW u, NEW k \in Nat, NEW ls \in Nat, NEW l \in Nat, NEW n \in Nat,
           NEW la \in Nat, NEW lx \in Nat, NEW ly \in Nat,
           Moved(t, l, u, n, la, lx, ly),
           g \in [1..k -> 1..ls], h \in [1..k -> 1..l], Match(s, t, k, g, h)
    PROVE  \E j \in Nat : k <= j + lx /\ \E c \in [1..j -> 1..ls] : \E d \in [1..j -> 1..n] : Match(s, u, j, c, d)
<1>0. Increasing(g) /\ Increasing(h) /\ \A i \in 1..k : s[g[i]] = t[h[i]]
  BY DEF Match
<1>1. h \in [1..k -> Nat] /\ g \in [1..k -> Nat]
  OBVIOUS
<1>2. l >= la + lx /\ n = (l - lx) + ly
  BY DEF Moved
<1>3. PICK p \in 0..k : (\A i \in 1..p : h[i] <= la) /\ (\A i \in 1..k : i > p => h[i] > la)
  BY <1>0, <1>1, Cut
<1>4. PICK q \in 0..k : (\A i \in 1..q : h[i] <= la + lx) /\ (\A i \in 1..k : i > q => h[i] > la + lx)
  <2>1. la + lx \in Nat
    OBVIOUS
  <2> QED
    BY <1>0, <1>1, <2>1, Cut
<1>5. p <= q
  <2> SUFFICES ASSUME p > q PROVE FALSE
    OBVIOUS
  <2>1. p \in 1..k /\ p \in 1..p
    OBVIOUS
  <2>2. h[p] <= la /\ h[p] > la + lx /\ h[p] \in Nat
    BY <1>3, <1>4, <2>1
  <2> QED
    BY <2>2
<1>6. q - p <= lx
  <2>1. CASE p = q
    BY <2>1
  <2>2. CASE p < q
    <3>1. p + 1 \in 1..k /\ q \in 1..k /\ q \in 1..q /\ p + 1 <= q /\ p + 1 > p
      BY <2>2
    <3>2. PICK b \in Nat, e \in Nat : b = h[p + 1] /\ e = h[q]
      BY <1>1, <3>1
    <3>3. b > la /\ e <= la + lx
      BY <1>3, <1>4, <3>1, <3>2
    <3>4. e >= b + (q - (p + 1))
      BY <1>0, <1>1, <3>1, <3>2, Gaps
    <3> QED
      BY <3>1, <3>3, <3>4
  <2> QED
    BY <1>5, <2>1, <2>2
<1> DEFINE w == q - p
           j == k - w
           c == [i \in 1..j |-> IF i <= p THEN g[i] ELSE g[i + w]]
           d == [i \in 1..j |-> IF i <= p THEN h[i] ELSE (h[i + w] - lx) + ly]
<1>7. w \in Nat /\ w <= lx /\ j \in Nat /\ p <= j /\ j + w = k /\ p + w = q /\ k <= j + lx
  BY <1>5, <1>6
<1> HIDE DEF w, j
<1>8. ASSUME NEW i \in 1..j
      PROVE  /\ i \in 1..k
             /\ i > p => i + w \in 1..k /\ i + w > q
  BY <1>7
<1>9. \A i \in 1..j : c[i] = IF i <= p THEN g[i] ELSE g[i + w]
  OBVIOUS
<1>10. \A i \in 1..j : d[i] = IF i <= p THEN h[i] ELSE (h[i + w] - lx) + ly
  OBVIOUS
<1>11. c \in [1..j -> 1..ls]
  <2> SUFFICES ASSUME NEW i \in 1..j PROVE (IF i <= p THEN g[i] ELSE g[i + w]) \in 1..ls
    OBVIOUS
  <2>1. i \in 1..k /\ (i <= p \/ i + w \in 1..k)
    BY <1>8
  <2> QED
    BY <2>1
<1>12. \A i \in 1..j : i <= p => h[i] \in 1..la
  <2> SUFFICES ASSUME NEW i \in 1..j, i <= p PROVE h[i] \in 1..la
    OBVIOUS
  <2>1. i \in 1..p /\ i \in 1..k
    BY <1>8
  <2>2. h[i] \in 1..l /\ h[i] <= la
    BY <1>3, <2>1
  <2> QED
    BY <2>2
<1>13. \A i \in 1..j : i > p => h[i + w] \in 1..l /\ h[i + w] > la + lx
  <2> SUFFICES ASSUME NEW i \in 1..j, i > p PROVE h[i + w] \in 1..l /\ h[i + w] > la + lx
    OBVIOUS
  <2>1. i + w \in 1..k /\ i + w > q
    BY <1>8
  <2> QED
    BY <1>4, <2>1
<1>14. ASSUME NEW i \in 1..j PROVE d[i] \in 1..n /\ (i > p => d[i] > la + ly)
  <2>1. CASE i <= p
    <3>1. d[i] = h[i] /\ h[i] \in 1..la
      BY <1>10, <1>12, <2>1
    <3> QED
      BY <1>2, <2>1, <3>1
  <2>2. CASE i > p
    <3>1. PICK b \in 1..l : b = h[i + w] /\ b > la + lx
      BY <1>13, <2>2
    <3>2. d[i] = (b - lx) + ly
      <4>1. ~(i <= p)
        BY <2>2
      <4> HIDE DEF d
      <4>2. d[i] = (h[i + w] - lx) + ly
        BY <1>10, <4>1
      <4> QED
        BY <3>1, <4>2
    <3>3. (b - lx) + ly \in 1..n /\ (b - lx) + ly > la + ly
      BY <1>2, <3>1, Shifted
    <3> QED
      BY <3>2, <3>3
  <2> QED
    BY <2>1, <2>2
<1>15. d \in [1..j -> 1..n]
  <2>1. d = [i \in 1..j |-> d[i]]
    OBVIOUS
  <2> HIDE DEF d
  <2> QED
    BY <1>14, <2>1
<1> HIDE DEF c, d
<1>16. \A a, b \in 1..k : a < b => g[a] < g[b] /\ h[a] < h[b]
  BY <1>0 DEF Increasing
<1>17. ASSUME NEW a \in 1..j, NEW b \in 1..j, a < b PROVE c[a] < c[b] /\ d[a] < d[b]
  <2>1. CASE b <= p
    <3>1. a <= p /\ a \in 1..k /\ b \in 1..k
      BY <1>8, <1>17, <2>1
    <3> QED
      BY <1>9, <1>10, <1>16, <1>17, <2>1, <3>1
  <2>2. CASE a <= p /\ b > p
    <3>1. a \in 1..k /\ b + w \in 1..k /\ a < b + w
      BY <1>7, <1>8, <1>17, <2>2
    <3>2. c[a] = g[a] /\ c[b] = g[b + w] /\ d[a] = h[a]
      BY <1>9, <1>10, <2>2
    <3>3. h[a] \in 1..la /\ d[b] > la + ly /\ d[b] \in 1..n
      BY <1>12, <1>14, <2>2
    <3>4. c[a] < c[b]
      <4>1. g[a] < g[b + w]
        BY <1>16, <3>1
      <4> QED
        BY <3>2, <4>1
    <3>5. d[a] < d[b]
      <4>1. \A i \in 1..la, m \in 1..n : m > la + ly => i < m
        OBVIOUS
      <4> QED
        BY <3>2, <3>3, <4>1
    <3> QED
      BY <3>4, <3>5
  <2>3. CASE a > p
    <3>1. b > p /\ a + w \in 1..k /\ b + w \in 1..k /\ a + w < b + w
      BY <1>7, <1>8, <1>17, <2>3
    <3>2. c[a] = g[a + w] /\ c[b] = g[b + w]
      BY <1>9, <2>3, <3>1
    <3>3. PICK e \in 1..l, f \in 1..l : e = h[a + w] /\ f = h[b + w]
      BY <3>1
    <3>4. d[a] = (e - lx) + ly /\ d[b] = (f - lx) + ly
      BY <1>10, <2>3, <3>1, <3>3
    <3>5. e < f
      BY <1>16, <3>1, <3>3
    <3>6. (e - lx) + ly < (f - lx) + ly
      BY <3>5
    <3> QED
      BY <1>16, <3>1, <3>2, <3>4, <3>6
  <2> QED
    BY <1>17, <2>1, <2>2, <2>3
<1>18. Increasing(c) /\ Increasing(d)
  BY <1>11, <1>15, <1>17 DEF Increasing
<1>19. ASSUME NEW i \in 1..j PROVE s[c[i]] = u[d[i]]
  <2>1. CASE i <= p
    <3>1. i \in 1..k /\ h[i] \in 1..la
      BY <1>8, <1>12, <2>1
    <3>2. c[i] = g[i] /\ d[i] = h[i]
      BY <1>9, <1>10, <2>1
    <3>3. t[h[i]] = u[h[i]]
      BY <3>1 DEF Moved
    <3> QED
      BY <1>0, <3>1, <3>2, <3>3
  <2>2. CASE i > p
    <3>1. i + w \in 1..k
      BY <1>8, <2>2
    <3>2. PICK b \in 1..l : b = h[i + w] /\ b > la + lx
      BY <1>13, <2>2
    <3>3. c[i] = g[i + w] /\ d[i] = (b - lx) + ly
      BY <1>9, <1>10, <2>2, <3>2
    <3>4. t[b] = u[(b - lx) + ly]
      BY <3>2 DEF Moved
    <3> QED
      BY <1>0, <3>1, <3>2, <3>3, <3>4
  <2> QED
    BY <2>1, <2>2
<1>20. Match(s, u, j, c, d)
  BY <1>18, <1>19 DEF Match
<1> QED
  BY <1>7, <1>11, <1>15, <1>20

\* Sequences have entries in common when there are such places.
LEMMA CommonIs ==
    ASSUME NEW S, NEW s \in Seq(S), NEW t \in Seq(S), NEW k, NEW l, NEW m, l = Len(s), m = Len(t)
    PROVE  Common(s, t, k) <=> \E g \in [1..k -> 1..l] : \E h \in [1..k -> 1..m] : Match(s, t, k, g, h)
<1>1. DOMAIN s = 1..l /\ DOMAIN t = 1..m
  BY LenProperties
<1>2. Common(s, t, k) <=> \E g \in [1..k -> DOMAIN s] : \E h \in [1..k -> DOMAIN t] : Match(s, t, k, g, h)
  BY DEF Common, Match
<1> HIDE DEF Common
<1>3. [1..k -> DOMAIN s] = [1..k -> 1..l] /\ [1..k -> DOMAIN t] = [1..k -> 1..m]
  BY <1>1, Zenon
<1> QED
  BY <1>2, <1>3, Zenon

\* Where the first and the last of three parts are.
LEMMA ThreeParts ==
    ASSUME NEW S, NEW a \in Seq(S), NEW x \in Seq(S), NEW r \in Seq(S)
    PROVE  /\ (a \o x) \o r \in Seq(S) /\ Len((a \o x) \o r) = (Len(a) + Len(x)) + Len(r)
           /\ \A i \in 1..Len(a) : ((a \o x) \o r)[i] = a[i]
           /\ \A i \in 1..((Len(a) + Len(x)) + Len(r)) :
                i > Len(a) + Len(x) => ((a \o x) \o r)[i] = r[i - (Len(a) + Len(x))]
<1>1. PICK la \in Nat, lx \in Nat, lr \in Nat : la = Len(a) /\ lx = Len(x) /\ lr = Len(r)
  BY LenProperties
<1>2. PICK p \in Seq(S) : p = a \o x
  BY ConcatProperties
<1>3. Len(p) = la + lx
  BY <1>1, <1>2, ConcatProperties
<1>4. \A i \in 1..(la + lx) : p[i] = IF i <= la THEN a[i] ELSE x[i - la]
  BY <1>1, <1>2, ConcatProperties
<1>5. PICK u \in Seq(S) : u = p \o r
  BY ConcatProperties
<1>6. Len(u) = Len(p) + Len(r) /\ \A i \in 1..(Len(p) + Len(r)) : u[i] = IF i <= Len(p) THEN p[i] ELSE r[i - Len(p)]
  BY <1>5, ConcatProperties
<1>7. /\ Len(u) = (la + lx) + lr
      /\ \A i \in 1..((la + lx) + lr) : u[i] = IF i <= la + lx THEN p[i] ELSE r[i - (la + lx)]
  BY <1>1, <1>3, <1>6, Zenon
<1>8. ASSUME NEW i \in 1..la PROVE u[i] = a[i]
  <2>1. i \in 1..(la + lx) /\ i \in 1..((la + lx) + lr) /\ i <= la /\ i <= la + lx
    OBVIOUS
  <2> QED
    BY <1>4, <1>7, <2>1
<1>9. ASSUME NEW i \in 1..((la + lx) + lr), i > la + lx PROVE u[i] = r[i - (la + lx)]
  <2>1. ~(i <= la + lx)
    BY <1>9
  <2> QED
    BY <1>7, <2>1
<1> QED
  BY <1>1, <1>2, <1>5, <1>7, <1>8, <1>9

\* One part in the place of another.
LEMMA PartsMoved ==
    ASSUME NEW S, NEW a \in Seq(S), NEW x \in Seq(S), NEW y \in Seq(S), NEW r \in Seq(S)
    PROVE  Moved((a \o x) \o r, Len((a \o x) \o r), (a \o y) \o r, Len((a \o y) \o r), Len(a), Len(x), Len(y))
<1>1. PICK la \in Nat, lx \in Nat, ly \in Nat, lr \in Nat : la = Len(a) /\ lx = Len(x) /\ ly = Len(y) /\ lr = Len(r)
  BY LenProperties
<1> DEFINE t == (a \o x) \o r
           u == (a \o y) \o r
<1>2. Len(t) = (la + lx) + lr /\ \A i \in 1..la : t[i] = a[i]
  BY <1>1, ThreeParts
<1>3. Len(u) = (la + ly) + lr /\ \A i \in 1..la : u[i] = a[i]
  BY <1>1, ThreeParts
<1>4. \A i \in 1..((la + lx) + lr) : i > la + lx => t[i] = r[i - (la + lx)]
  BY <1>1, ThreeParts
<1>5. \A i \in 1..((la + ly) + lr) : i > la + ly => u[i] = r[i - (la + ly)]
  BY <1>1, ThreeParts
<1> HIDE DEF t, u
<1>6. \A i \in 1..la : t[i] = u[i]
  BY <1>2, <1>3
<1>7. ASSUME NEW i \in 1..((la + lx) + lr), i > la + lx PROVE t[i] = u[(i - lx) + ly]
  <2>1. /\ (i - lx) + ly \in 1..((la + ly) + lr) /\ (i - lx) + ly > la + ly
        /\ ((i - lx) + ly) - (la + ly) = i - (la + lx)
    BY <1>7
  <2> QED
    BY <1>4, <1>5, <1>7, <2>1
<1>8. (la + lx) + lr >= la + lx /\ (la + ly) + lr = (((la + lx) + lr) - lx) + ly
  OBVIOUS
<1>9. Moved(t, (la + lx) + lr, u, (la + ly) + lr, la, lx, ly)
  BY <1>6, <1>7, <1>8 DEF Moved
<1> QED
  BY <1>1, <1>2, <1>3, <1>9 DEF t, u

\* Of the entries of d all but n are in o, in the same order.
Accounted(d, o, n) == \E k \in Nat : Common(d, o, k) /\ k + n >= Len(d)

\* A part of x in the place of y costs at most what is in x.
LEMMA AccountedMoved ==
    ASSUME NEW S, NEW d \in Seq(S), NEW a \in Seq(S), NEW x \in Seq(S), NEW y \in Seq(S), NEW r \in Seq(S),
           NEW n \in Nat, NEW m \in Nat, Len(x) <= m, Accounted(d, (a \o x) \o r, n)
    PROVE  Accounted(d, (a \o y) \o r, n + m)
<1>1. PICK t \in Seq(S), u \in Seq(S) : t = (a \o x) \o r /\ u = (a \o y) \o r
  BY ThreeParts
<1>2. PICK ld \in Nat, l \in Nat, lu \in Nat, la \in Nat, lx \in Nat, ly \in Nat :
        ld = Len(d) /\ l = Len(t) /\ lu = Len(u) /\ la = Len(a) /\ lx = Len(x) /\ ly = Len(y)
  BY LenProperties
<1>3. Moved(t, l, u, lu, la, lx, ly)
  BY <1>1, <1>2, PartsMoved
<1>4. PICK k \in Nat : Common(d, t, k) /\ k + n >= ld
  BY <1>1, <1>2 DEF Accounted
<1>5. PICK g \in [1..k -> 1..ld], h \in [1..k -> 1..l] : Match(d, t, k, g, h)
  BY <1>2, <1>4, CommonIs
<1>6. PICK j \in Nat : k <= j + lx /\ \E c \in [1..j -> 1..ld] : \E e \in [1..j -> 1..lu] : Match(d, u, j, c, e)
  BY <1>3, <1>5, CommonMoved
<1>7. k <= j + lx
  BY <1>6
<1>8. Common(d, u, j)
  BY <1>2, <1>6, CommonIs
<1>9. lx <= m
  BY <1>2
<1>10. j + (n + m) >= ld
  BY <1>4, <1>7, <1>9
<1> QED
  BY <1>1, <1>2, <1>8, <1>10 DEF Accounted

\* One entry more, in both.
LEMMA AccountedOneMore ==
    ASSUME NEW S, NEW d \in Seq(S), NEW o \in Seq(S), NEW v \in S, NEW n \in Nat, Accounted(d, o, n)
    PROVE  Accounted(Append(d, v), Append(o, v), n)
<1>1. PICK t \in Seq(S), u \in Seq(S) : t = Append(d, v) /\ u = Append(o, v)
  BY AppendProperties
<1>2. PICK ld \in Nat, lo \in Nat : ld = Len(d) /\ lo = Len(o)
  BY LenProperties
<1>3. Len(t) = ld + 1 /\ t[ld + 1] = v /\ \A i \in 1..ld : t[i] = d[i]
  BY <1>1, <1>2, AppendProperties
<1>4. Len(u) = lo + 1 /\ u[lo + 1] = v /\ \A i \in 1..lo : u[i] = o[i]
  BY <1>1, <1>2, AppendProperties
<1>6. PICK k \in Nat : Common(d, o, k) /\ k + n >= ld
  BY <1>2 DEF Accounted
<1>7. PICK g \in [1..k -> 1..ld], h \in [1..k -> 1..lo] : Match(d, o, k, g, h)
  BY <1>2, <1>6, CommonIs
<1> DEFINE c == [i \in 1..(k + 1) |-> IF i = k + 1 THEN ld + 1 ELSE g[i]]
           e == [i \in 1..(k + 1) |-> IF i = k + 1 THEN lo + 1 ELSE h[i]]
<1>8. \A i \in 1..(k + 1) : i = k + 1 \/ i \in 1..k
  OBVIOUS
<1>9. c \in [1..(k + 1) -> 1..(ld + 1)] /\ e \in [1..(k + 1) -> 1..(lo + 1)]
  BY <1>8
<1>10. c[k + 1] = ld + 1 /\ e[k + 1] = lo + 1
  OBVIOUS
<1>11. \A i \in 1..k : c[i] = g[i] /\ e[i] = h[i]
  OBVIOUS
<1> HIDE DEF c, e
<1>12. ASSUME NEW i \in 1..(k + 1), NEW j \in 1..(k + 1), i < j PROVE c[i] < c[j] /\ e[i] < e[j]
  <2>1. i \in 1..k
    BY <1>12
  <2>2. CASE j = k + 1
    <3>1. c[i] \in 1..ld /\ e[i] \in 1..lo
      BY <1>11, <2>1
    <3> QED
      BY <1>10, <2>2, <3>1
  <2>3. CASE j \in 1..k
    <3>1. g[i] < g[j] /\ h[i] < h[j]
      BY <1>7, <1>12, <2>1, <2>3 DEF Match, Increasing
    <3> QED
      BY <1>11, <2>1, <2>3, <3>1
  <2> QED
    BY <1>8, <2>2, <2>3
<1>13. Increasing(c) /\ Increasing(e)
  BY <1>9, <1>12 DEF Increasing
<1>14. ASSUME NEW i \in 1..(k + 1) PROVE t[c[i]] = u[e[i]]
  <2>1. CASE i = k + 1
    BY <1>3, <1>4, <1>10, <2>1
  <2>2. CASE i \in 1..k
    <3>1. g[i] \in 1..ld /\ h[i] \in 1..lo /\ d[g[i]] = o[h[i]]
      BY <1>7, <2>2 DEF Match
    <3> QED
      BY <1>3, <1>4, <1>11, <2>2, <3>1
  <2> QED
    BY <1>8, <2>1, <2>2
<1>15. Common(t, u, k + 1)
  <2>1. Match(t, u, k + 1, c, e)
    BY <1>13, <1>14 DEF Match
  <2> QED
    BY <1>3, <1>4, <1>9, <2>1, CommonIs
<1>16. k + 1 \in Nat /\ (k + 1) + n >= ld + 1
  BY <1>6
<1> QED
  BY <1>1, <1>3, <1>15, <1>16 DEF Accounted

\* The packet of a frame, if it has one, in both.
LEMMA AccountedMore ==
    ASSUME NEW S, NEW d \in Seq(S), NEW o \in Seq(S), NEW e \in Seq(S), Len(e) \in 0..1, NEW n \in Nat,
           Accounted(d, o, n)
    PROVE  Accounted(d \o e, o \o e, n)
<1>1. CASE Len(e) = 0
  <2>1. e = <<>>
    BY <1>1, EmptySeq
  <2>2. d \o <<>> = d /\ o \o <<>> = o
    BY ConcatEmptySeq
  <2> QED
    BY <2>1, <2>2
<1>2. CASE Len(e) = 1
  <2>1. PICK v \in S : v = e[1]
    <3>1. 1 \in 1..Len(e)
      BY <1>2
    <3> QED
      BY <3>1, ElementOfSeq
  <2>2. e = <<v>>
    BY <1>2, <2>1
  <2>3. Append(d, v) = d \o <<v>> /\ Append(o, v) = o \o <<v>>
    BY AppendIsConcat
  <2>4. Accounted(Append(d, v), Append(o, v), n)
    BY AccountedOneMore
  <2> QED
    BY <2>2, <2>3, <2>4
<1> QED
  BY <1>1, <1>2

\* Nothing is accounted for.
LEMMA AccountedNone == ASSUME NEW n \in Nat PROVE Accounted(<<>>, <<>>, n)
<1>1. DOMAIN <<>> = 1..0 /\ Len(<<>>) = 0
  OBVIOUS
<1> DEFINE f == [i \in 1..0 |-> i]
<1>2. f \in [1..0 -> 1..0] /\ Increasing(f) /\ \A i \in 1..0 : <<>>[f[i]] = <<>>[f[i]]
  BY DEF Increasing
<1> HIDE DEF f
<1>3. Common(<<>>, <<>>, 0)
  BY <1>1, <1>2 DEF Common
<1> QED
  BY <1>1, <1>3 DEF Accounted

\* Decoders that are close account for the same, but for what they are apart.
LEMMA AccountedClose ==
    ASSUME NEW d \in Seq(Packets), NEW s, NEW t, NEW n \in Nat, NEW m \in Nat,
           Close(s, t, m), Accounted(d, s.out, n)
    PROVE  Accounted(d, t.out, n + m)
<1>1. PICK a \in Seq(Packets), x \in Seq(Packets), y \in Seq(Packets), r \in Seq(Packets) : Apart(s, t, m, a, x, y, r)
  BY DEF Close
<1>2. s.out = (a \o x) \o r /\ t.out = (a \o y) \o r
  BY <1>1 DEF Apart
<1>3. Len(x) <= m
  <2>1. PICK l \in Nat : l = Len(x)
    BY LenProperties
  <2>2. l <= m \/ l + 1 <= m
    BY <1>1, <2>1 DEF Apart
  <2> QED
    BY <2>1, <2>2
<1> QED
  BY <1>2, <1>3, AccountedMoved

\* What a decoder has put out stays.
LEMMA RunsGrow ==
    ASSUME NEW s \in Decoders, NEW z, NEW l \in Seq(Bytes), Runs(s, l, z)
    PROVE  \E w \in Seq(Packets) : z.out = s.out \o w
<1> DEFINE n == Len(l)
<1>1. n \in Nat
  BY LenProperties
<1>2. PICK st \in [0..n -> Decoders] :
        st[0] = s /\ st[n] = z /\ \A i \in 1..n : st[i] = Took(st[i - 1], l[i])
  BY DEF Runs
<1> DEFINE H == {i \in 0..n : \E w \in Seq(Packets) : st[i].out = s.out \o w}
<1>3. PICK o \in Seq(Packets) : o = s.out
  BY DecoderParts
<1>4. 0 \in H
  <2>1. o \o <<>> = o /\ <<>> \in Seq(Packets)
    BY ConcatEmptySeq
  <2> QED
    BY <1>1, <1>2, <1>3, <2>1
<1>5. ASSUME NEW i \in 0..n, i > 0, i - 1 \in H PROVE i \in H
  <2>1. i \in 1..n /\ i - 1 \in 0..n
    BY <1>1, <1>5
  <2>2. PICK w \in Seq(Packets) : st[i - 1].out = s.out \o w
    BY <1>5
  <2>3. PICK c \in Decoders : c = st[i - 1]
    BY <1>2, <2>1
  <2>4. PICK b \in Bytes : b = l[i]
    BY <2>1, ElementOfSeq
  <2>5. st[i] = Took(c, b)
    BY <1>2, <2>1, <2>3, <2>4
  <2>6. CASE b # FEND
    <3>1. st[i].out = c.out
      BY <2>5, <2>6, TookParts
    <3>2. st[i].out = s.out \o w
      BY <2>2, <2>3, <3>1
    <3> QED
      BY <3>2
  <2>7. CASE b = FEND
    <3>1. PICK e \in Seq(Packets) : e = Ended(c)
      BY EndedOne
    <3>2. st[i].out = (o \o w) \o e
      <4>1. Took(c, b).out = c.out \o Ended(c)
        BY <2>7, TookParts
      <4> QED
        BY <1>3, <2>2, <2>3, <2>5, <3>1, <4>1, Zenon
    <3>3. (o \o w) \o e = o \o (w \o e)
      BY ConcatParts
    <3>4. w \o e \in Seq(Packets)
      BY ConcatProperties
    <3>5. st[i].out = s.out \o (w \o e)
      BY <1>3, <3>2, <3>3, Zenon
    <3> QED
      BY <3>4, <3>5
  <2> QED
    BY <2>6, <2>7
<1> HIDE DEF H
<1>6. 0..n \subseteq H
  BY <1>1, <1>4, <1>5, Induction
<1>7. n \in H
  BY <1>1, <1>6
<1> QED
  BY <1>2, <1>7 DEF H

\* A sequence is its first entry and the rest.
LEMMA HeadAndTail ==
    ASSUME NEW S, NEW l \in Seq(S), l # <<>>
    PROVE  Head(l) \in S /\ Tail(l) \in Seq(S) /\ <<Head(l)>> \in Seq(S) /\ <<Head(l)>> \o Tail(l) = l
<1>1. Head(l) \in S /\ Tail(l) \in Seq(S) /\ Head(l) = l[1]
  BY HeadTailProperties, ElementOfSeq, EmptySeq, LenProperties
<1>2. Len(Tail(l)) = Len(l) - 1 /\ \A i \in 1..(Len(l) - 1) : Tail(l)[i] = l[i + 1]
  BY HeadTailProperties
<1>3. PICK h \in S, t \in Seq(S) : h = Head(l) /\ t = Tail(l)
  BY <1>1
<1>4. PICK n \in Nat : n = Len(l)
  BY LenProperties
<1>5. PICK p \in Seq(S) : p = <<h>> /\ Len(p) = 1 /\ p[1] = h
  <2>1. <<h>> \in Seq(S) /\ Len(<<h>>) = 1 /\ <<h>>[1] = h
    OBVIOUS
  <2> QED
    BY <2>1, Zenon
<1>6. PICK u \in Seq(S) : u = p \o t
  BY ConcatProperties
<1>7. Len(t) = n - 1 /\ n >= 1 /\ \A i \in 1..(n - 1) : t[i] = l[i + 1]
  <2>1. n # 0
    BY <1>4, EmptySeq
  <2> QED
    BY <1>2, <1>3, <1>4, <2>1
<1>8. Len(u) = n
  <2>1. Len(u) = Len(p) + Len(t)
    BY <1>6, ConcatProperties
  <2> QED
    BY <1>5, <1>7, <2>1
<1>9. \A i \in 1..n : u[i] = IF i <= 1 THEN p[i] ELSE t[i - 1]
  <2>1. \A i \in 1..(Len(p) + Len(t)) : u[i] = IF i <= Len(p) THEN p[i] ELSE t[i - Len(p)]
    BY <1>6, ConcatProperties
  <2>2. 1 + (n - 1) = n
    OBVIOUS
  <2> QED
    BY <1>5, <1>7, <2>1, <2>2
<1>10. ASSUME NEW i \in 1..n PROVE u[i] = l[i]
  <2>1. CASE i = 1
    BY <1>1, <1>3, <1>5, <1>9, <2>1
  <2>2. CASE i # 1
    <3>1. i - 1 \in 1..(n - 1) /\ ~(i <= 1) /\ (i - 1) + 1 = i
      BY <2>2
    <3> QED
      BY <1>7, <1>9, <3>1
  <2> QED
    BY <2>1, <2>2
<1>11. u = l
  BY <1>4, <1>8, <1>10, SeqEqual
<1> QED
  BY <1>1, <1>3, <1>5, <1>6, <1>11, Zenon

\* A first byte and a run.
LEMMA RunsCons ==
    ASSUME NEW s \in Decoders, NEW z, NEW l \in Seq(Bytes), l # <<>>, Runs(Took(s, Head(l)), Tail(l), z)
    PROVE  Runs(s, l, z)
<1>1. Head(l) \in Bytes /\ Tail(l) \in Seq(Bytes) /\ <<Head(l)>> \in Seq(Bytes) /\ <<Head(l)>> \o Tail(l) = l
  BY HeadAndTail
<1>2. PICK b \in Bytes, k \in Seq(Bytes), p \in Seq(Bytes) : b = Head(l) /\ k = Tail(l) /\ p = <<b>> /\ p \o k = l
  BY <1>1
<1>3. Runs(s, p, Took(s, b))
  BY <1>2, RunsOne
<1>4. Runs(s, p \o k, z)
  BY <1>2, <1>3, RunsJoin
<1> QED
  BY <1>2, <1>4

-----------------------------------------------------------------------------
(* Part of a sequence *)

\* Nothing is part of nothing.
LEMMA SubsequenceNone == Subsequence(<<>>, <<>>)
<1>1. DOMAIN <<>> = 1..0
  OBVIOUS
<1> DEFINE f == [i \in 1..0 |-> i]
<1>2. f \in [1..0 -> 1..0] /\ Increasing(f) /\ \A i \in 1..0 : <<>>[i] = <<>>[f[i]]
  BY DEF Increasing
<1> HIDE DEF f
<1> QED
  BY <1>1, <1>2 DEF Subsequence

\* Where the entries of s are in t.
Placement(s, t, k, f) == Increasing(f) /\ \A i \in 1..k : s[i] = t[f[i]]

\* A subsequence has such a placement.
LEMMA SubsequenceIs ==
    ASSUME NEW S, NEW s \in Seq(S), NEW t \in Seq(S), NEW l, NEW m, l = Len(s), m = Len(t)
    PROVE  Subsequence(s, t) <=> \E f \in [1..l -> 1..m] : Placement(s, t, l, f)
<1>1. DOMAIN s = 1..l /\ DOMAIN t = 1..m
  BY LenProperties
<1>2. Subsequence(s, t) <=> \E f \in [DOMAIN s -> DOMAIN t] : Increasing(f) /\ \A i \in DOMAIN s : s[i] = t[f[i]]
  BY DEF Subsequence
<1> HIDE DEF Subsequence
<1>3. [DOMAIN s -> DOMAIN t] = [1..l -> 1..m]
  BY <1>1, Zenon
<1> QED
  BY <1>1, <1>2, <1>3, Zenon DEF Placement

\* What comes after both.
LEMMA SubsequenceMore ==
    ASSUME NEW S, NEW s \in Seq(S), NEW t \in Seq(S), NEW e \in Seq(S), Subsequence(s, t)
    PROVE  Subsequence(s \o e, t \o e)
<1>1. PICK ls \in Nat, lt \in Nat, le \in Nat : ls = Len(s) /\ lt = Len(t) /\ le = Len(e)
  BY LenProperties
<1>2. PICK f \in [1..ls -> 1..lt] : Placement(s, t, ls, f)
  BY <1>1, SubsequenceIs
<1>3. PICK u \in Seq(S), v \in Seq(S) : u = s \o e /\ v = t \o e
  BY ConcatProperties
<1>4. Len(u) = ls + le
  BY <1>1, <1>3, ConcatProperties
<1>5. Len(v) = lt + le
  BY <1>1, <1>3, ConcatProperties
<1>6. \A i \in 1..(ls + le) : u[i] = IF i <= ls THEN s[i] ELSE e[i - ls]
  BY <1>1, <1>3, ConcatProperties
<1>7. \A i \in 1..(lt + le) : v[i] = IF i <= lt THEN t[i] ELSE e[i - lt]
  BY <1>1, <1>3, ConcatProperties
<1> DEFINE g == [i \in 1..(ls + le) |-> IF i <= ls THEN f[i] ELSE lt + (i - ls)]
<1>8. \A i \in 1..(ls + le) : g[i] = IF i <= ls THEN f[i] ELSE lt + (i - ls)
  OBVIOUS
<1>9. ASSUME NEW i \in 1..(ls + le) PROVE (IF i <= ls THEN f[i] ELSE lt + (i - ls)) \in 1..(lt + le)
  <2>1. CASE i <= ls
    <3>1. i \in 1..ls
      BY <2>1
    <3>2. f[i] \in 1..lt
      BY <3>1
    <3> QED
      BY <2>1, <3>2
  <2>2. CASE ~(i <= ls)
    BY <2>2
  <2> QED
    BY <2>1, <2>2
<1>10. g \in [1..(ls + le) -> 1..(lt + le)]
  BY <1>9
<1> HIDE DEF g
<1>11. ASSUME NEW i \in 1..(ls + le), NEW j \in 1..(ls + le), i < j PROVE g[i] < g[j]
  <2>1. CASE j <= ls
    <3>1. i \in 1..ls /\ j \in 1..ls /\ i <= ls
      BY <1>11, <2>1
    <3>2. f[i] < f[j]
      BY <1>2, <1>11, <3>1 DEF Placement, Increasing
    <3> QED
      BY <1>8, <2>1, <3>1, <3>2
  <2>2. CASE i <= ls /\ ~(j <= ls)
    <3>1. i \in 1..ls
      BY <2>2
    <3>2. f[i] \in 1..lt /\ g[i] = f[i] /\ g[j] = lt + (j - ls)
      BY <1>8, <2>2, <3>1
    <3> QED
      BY <2>2, <3>2
  <2>3. CASE ~(i <= ls)
    <3>1. ~(j <= ls)
      BY <1>11, <2>3
    <3>2. g[i] = lt + (i - ls) /\ g[j] = lt + (j - ls)
      BY <1>8, <2>3, <3>1
    <3> QED
      BY <1>11, <3>2
  <2> QED
    BY <2>1, <2>2, <2>3
<1>12. Increasing(g)
  BY <1>10, <1>11 DEF Increasing
<1>13. ASSUME NEW i \in 1..(ls + le) PROVE u[i] = v[g[i]]
  <2>1. CASE i <= ls
    <3>1. i \in 1..ls
      BY <2>1
    <3>2. g[i] = f[i] /\ f[i] \in 1..lt /\ s[i] = t[f[i]]
      BY <1>2, <1>8, <2>1, <3>1 DEF Placement
    <3>3. f[i] \in 1..(lt + le) /\ f[i] <= lt
      BY <3>2
    <3> QED
      BY <1>6, <1>7, <2>1, <3>2, <3>3
  <2>2. CASE ~(i <= ls)
    <3>1. PICK j \in 1..(lt + le) : j = lt + (i - ls) /\ ~(j <= lt) /\ j - lt = i - ls
      BY <2>2
    <3>2. g[i] = j
      BY <1>8, <2>2, <3>1
    <3> QED
      BY <1>6, <1>7, <2>2, <3>1, <3>2
  <2> QED
    BY <2>1, <2>2
<1>14. Placement(u, v, ls + le, g)
  BY <1>12, <1>13 DEF Placement
<1>15. Subsequence(u, v)
  BY <1>4, <1>5, <1>10, <1>14, SubsequenceIs
<1> QED
  BY <1>3, <1>15

\* A part of the first part.
LEMMA SubsequenceCut ==
    ASSUME NEW S, NEW s \in Seq(S), NEW e \in Seq(S), NEW t \in Seq(S), Subsequence(s \o e, t)
    PROVE  Subsequence(s, t)
<1>1. PICK ls \in Nat, lt \in Nat, le \in Nat : ls = Len(s) /\ lt = Len(t) /\ le = Len(e)
  BY LenProperties
<1>2. PICK u \in Seq(S) : u = s \o e
  BY ConcatProperties
<1>3. Len(u) = ls + le
  BY <1>1, <1>2, ConcatProperties
<1>4. \A i \in 1..(ls + le) : u[i] = IF i <= ls THEN s[i] ELSE e[i - ls]
  BY <1>1, <1>2, ConcatProperties
<1>5. PICK f \in [1..(ls + le) -> 1..lt] : Placement(u, t, ls + le, f)
  BY <1>1, <1>2, <1>3, SubsequenceIs
<1> DEFINE g == [i \in 1..ls |-> f[i]]
<1>6. ASSUME NEW i \in 1..ls PROVE i \in 1..(ls + le) /\ i <= ls
  OBVIOUS
<1>7. g \in [1..ls -> 1..lt] /\ \A i \in 1..ls : g[i] = f[i]
  BY <1>6
<1> HIDE DEF g
<1>8. Increasing(g)
  BY <1>5, <1>6, <1>7 DEF Placement, Increasing
<1>9. \A i \in 1..ls : s[i] = t[g[i]]
  BY <1>4, <1>5, <1>6, <1>7 DEF Placement
<1>10. Placement(s, t, ls, g)
  BY <1>8, <1>9 DEF Placement
<1> QED
  BY <1>1, <1>7, <1>10, SubsequenceIs

-----------------------------------------------------------------------------
(* Delimiters come in pairs *)

\* There is no delimiter in l.
Clear(l) == \A i \in 1..Len(l) : l[i] # FEND

\* None comes about by joining.
LEMMA ClearJoin ==
    ASSUME NEW a \in Seq(Bytes), NEW b \in Seq(Bytes), Clear(a), Clear(b)
    PROVE  Clear(a \o b)
<1>1. PICK m \in Nat, n \in Nat : m = Len(a) /\ n = Len(b)
  BY LenProperties
<1>2. Len(a \o b) = m + n
  BY <1>1, ConcatProperties
<1>3. \A i \in 1..(m + n) : (a \o b)[i] = IF i <= m THEN a[i] ELSE b[i - m]
  BY <1>1, ConcatProperties
<1>4. ASSUME NEW i \in 1..(m + n) PROVE (a \o b)[i] # FEND
  <2>1. CASE i <= m
    <3>1. i \in 1..m
      BY <2>1
    <3> QED
      BY <1>1, <1>3, <2>1, <3>1 DEF Clear
  <2>2. CASE ~(i <= m)
    <3>1. i - m \in 1..n
      BY <2>2
    <3> QED
      BY <1>1, <1>3, <2>2, <3>1 DEF Clear
  <2> QED
    BY <2>1, <2>2
<1> QED
  BY <1>2, <1>4 DEF Clear

\* Escaping leaves no delimiter.
LEMMA EscapeClear == ASSUME NEW b \in Bytes PROVE Clear(Escape(b))
<1>0. FESC # FEND /\ TFEND # FEND /\ TFESC # FEND
  BY DEF FESC, FEND, TFEND, TFESC
<1>1. ASSUME NEW c, c # FEND PROVE Clear(<<FESC, c>>)
  <2>1. Len(<<FESC, c>>) = 2 /\ <<FESC, c>>[1] = FESC /\ <<FESC, c>>[2] = c
    OBVIOUS
  <2>2. \A i \in 1..2 : i = 1 \/ i = 2
    OBVIOUS
  <2> QED
    BY <1>0, <1>1, <2>1, <2>2 DEF Clear
<1>2. ASSUME b # FEND PROVE Clear(<<b>>)
  <2>1. Len(<<b>>) = 1 /\ <<b>>[1] = b /\ \A i \in 1..1 : i = 1
    OBVIOUS
  <2> QED
    BY <1>2, <2>1 DEF Clear
<1>3. CASE b = FEND
  <2>1. Escape(b) = <<FESC, TFEND>>
    BY <1>0, <1>3 DEF Escape
  <2> QED
    BY <1>0, <1>1, <2>1
<1>4. CASE b = FESC
  <2>1. Escape(b) = <<FESC, TFESC>>
    BY <1>0, <1>4 DEF Escape
  <2> QED
    BY <1>0, <1>1, <2>1
<1>5. CASE b # FEND /\ b # FESC
  <2>1. Escape(b) = <<b>>
    BY <1>5 DEF Escape
  <2> QED
    BY <1>2, <1>5, <2>1
<1> QED
  BY <1>3, <1>4, <1>5

\* Escaped data has no delimiter.
LEMMA EscapesClear == ASSUME NEW d \in Seq(Bytes) PROVE Clear(FlattenSeq(Escapes(d)))
<1> DEFINE n == Len(d)
           E(i) == SubSeq(Escapes(d), 1, i)
           H == {i \in 0..n : Clear(FlattenSeq(E(i)))}
<1>1. PICK e \in Seq(Seq(Bytes)) : e = Escapes(d) /\ Len(e) = n /\ \A i \in 1..n : e[i] = Escape(d[i])
  BY EscapesFacts
<1>2. n \in Nat /\ E(0) = <<>> /\ E(n) = e
  BY <1>1, PrefixFacts
<1>3. \A i \in 0..n : E(i) \in Seq(Seq(Bytes))
  BY <1>1, PrefixFacts
<1>4. \A i \in 1..n : e[i] \in Seq(Bytes) /\ E(i) = Append(E(i - 1), e[i])
  BY <1>1, PrefixFacts
<1> HIDE DEF E
<1>5. 0 \in H
  <2>1. Clear(<<>>)
    <3>1. Len(<<>>) = 0 /\ 1..0 = {}
      OBVIOUS
    <3> QED
      BY <3>1 DEF Clear
  <2> QED
    BY <1>2, <2>1, FlattenNone
<1>6. ASSUME NEW i \in 0..n, i > 0, i - 1 \in H PROVE i \in H
  <2>1. i \in 1..n /\ i - 1 \in 0..n
    BY <1>2, <1>6
  <2>2. d[i] \in Bytes
    BY <2>1, ElementOfSeq
  <2>3. PICK q \in Seq(Seq(Bytes)), x \in Seq(Bytes) : q = E(i - 1) /\ x = e[i] /\ E(i) = Append(q, x) /\ Clear(x)
    BY <1>1, <1>3, <1>4, <2>1, <2>2, EscapeClear
  <2>4. PICK a \in Seq(Bytes) : a = FlattenSeq(q)
    BY FlattenType
  <2>5. FlattenSeq(Append(q, x)) = a \o x
    BY <2>4, FlattenAppend
  <2>6. Clear(a)
    BY <1>6, <2>3, <2>4
  <2>7. Clear(a \o x)
    BY <2>3, <2>6, ClearJoin
  <2> QED
    BY <2>3, <2>5, <2>7
<1> HIDE DEF H
<1>7. 0..n \subseteq H
  BY <1>2, <1>5, <1>6, Induction
<1>8. n \in H
  BY <1>2, <1>7
<1> QED
  BY <1>1, <1>2, <1>8 DEF H

\* A frame on the line: delimiters at both ends, and none between them.
LEMMA EncodeShape ==
    ASSUME NEW f \in Frames
    PROVE  /\ Encode(f) \in Seq(Bytes) /\ Len(Encode(f)) \in Nat /\ Len(Encode(f)) >= 3
           /\ Encode(f)[1] = FEND /\ Encode(f)[Len(Encode(f))] = FEND
           /\ \A i \in 2..(Len(Encode(f)) - 1) : Encode(f)[i] # FEND
<1>0. FEND \in Bytes
  BY DEF FEND, Bytes
<1>1. PICK h \in Bytes, d \in Seq(Bytes), g \in Bytes : h = TypeByte(f) /\ d = f.data /\ h # FEND /\ g = FEND
  BY <1>0, FrameFacts
<1>2. PICK e \in Seq(Bytes) : e = FlattenSeq(Escapes(d)) /\ Clear(e)
  BY DataRuns, EscapesClear, <1>1, DataNone, EmptySeq
<1>3. Encode(f) = (<<g, h>> \o e) \o <<g>>
  BY <1>1, <1>2 DEF Encode, Escapes
<1>4. PICK p \in Seq(Bytes), q \in Seq(Bytes) : p = <<g, h>> /\ q = <<g>>
  BY PairFacts
<1>5. Len(p) = 2 /\ p[1] = g /\ p[2] = h
  BY <1>4
<1>6. Len(q) = 1 /\ q[1] = g
  BY <1>4
<1>7. PICK u \in Seq(Bytes) : u = (p \o e) \o q
  BY ThreeParts
<1>8. PICK n \in Nat : n = Len(e)
  BY LenProperties
<1>9. Len(u) = (Len(p) + Len(e)) + Len(q)
  BY <1>7, ThreeParts
<1>10. Len(u) = n + 3
  BY <1>5, <1>6, <1>8, <1>9
<1>11. PICK k \in Seq(Bytes) : k = p \o e
  BY ConcatProperties
<1>12. Len(k) = Len(p) + Len(e) /\ \A i \in 1..(Len(p) + Len(e)) : k[i] = IF i <= Len(p) THEN p[i] ELSE e[i - Len(p)]
  BY <1>11, ConcatProperties
<1>13. Len(k) = 2 + n /\ \A i \in 1..(2 + n) : k[i] = IF i <= 2 THEN p[i] ELSE e[i - 2]
  BY <1>5, <1>8, <1>12, Zenon
<1>14. u = k \o q
  BY <1>7, <1>11
<1>15. \A i \in 1..(n + 3) : u[i] = IF i <= 2 + n THEN k[i] ELSE q[i - (2 + n)]
  <2>1. \A i \in 1..(Len(k) + Len(q)) : u[i] = IF i <= Len(k) THEN k[i] ELSE q[i - Len(k)]
    BY <1>14, ConcatProperties
  <2>2. (2 + n) + 1 = n + 3
    OBVIOUS
  <2> QED
    BY <1>6, <1>13, <2>1, <2>2, Zenon
<1>16. u[1] = FEND
  <2>1. 1 \in 1..(n + 3) /\ 1 \in 1..(2 + n) /\ 1 <= 2 + n /\ 1 <= 2
    OBVIOUS
  <2>2. u[1] = k[1]
    BY <1>15, <2>1
  <2>3. k[1] = p[1]
    BY <1>13, <2>1
  <2> QED
    BY <1>1, <1>5, <2>2, <2>3
<1>17. u[n + 3] = FEND
  <2>1. n + 3 \in 1..(n + 3) /\ ~(n + 3 <= 2 + n) /\ (n + 3) - (2 + n) = 1
    OBVIOUS
  <2>2. u[n + 3] = q[(n + 3) - (2 + n)]
    BY <1>15, <2>1
  <2> QED
    BY <1>1, <1>6, <2>1, <2>2
<1>18. ASSUME NEW i \in 2..(n + 2) PROVE u[i] # FEND
  <2>1. i \in 1..(n + 3) /\ i \in 1..(2 + n) /\ i <= 2 + n
    OBVIOUS
  <2>2. u[i] = k[i]
    BY <1>15, <2>1
  <2>3. CASE i = 2
    <3>1. 2 <= 2
      OBVIOUS
    <3>2. k[2] = p[2]
      BY <1>13, <2>1, <2>3, <3>1
    <3> QED
      BY <1>1, <1>5, <2>2, <2>3, <3>2
  <2>4. CASE i # 2
    <3>1. ~(i <= 2) /\ i - 2 \in 1..n
      BY <2>4
    <3>2. k[i] = e[i - 2]
      BY <1>13, <2>1, <3>1
    <3>3. e[i - 2] # FEND
      BY <1>2, <1>8, <3>1 DEF Clear
    <3> QED
      BY <2>2, <3>2, <3>3
  <2> QED
    BY <2>3, <2>4
<1>19. Encode(f) = u
  BY <1>3, <1>4, <1>7, Zenon
<1>20. n + 3 \in Nat /\ n + 3 >= 3 /\ (n + 3) - 1 = n + 2
  OBVIOUS
<1> QED
  BY <1>10, <1>16, <1>17, <1>18, <1>19, <1>20

\* A delimiter on the line that has no other beside it ends what the decoder
\* did not hear the beginning of.
Lonely(l, i) == l[i] = FEND /\ l[i - 1] # FEND /\ l[i + 1] # FEND

Spaced(l, m) ==
    /\ \A i \in 2..(Len(l) - 1) : Lonely(l, i) => m = "out" /\ \A j \in 1..(i - 1) : l[j] # FEND
    /\ l # <<>> /\ l[Len(l)] # FEND => m = "out" /\ Clear(l)

\* The line without its first byte.
LEMMA TailFacts ==
    ASSUME NEW S, NEW l \in Seq(S), l # <<>>
    PROVE  /\ Len(l) \in Nat /\ Len(l) >= 1 /\ Head(l) = l[1] /\ Head(l) \in S
           /\ Tail(l) \in Seq(S) /\ Len(Tail(l)) = Len(l) - 1
           /\ \A i \in 1..(Len(l) - 1) : Tail(l)[i] = l[i + 1]
           /\ Tail(l) # <<>> <=> Len(l) >= 2
<1>1. Len(l) \in Nat /\ Len(l) # 0
  BY LenProperties, EmptySeq
<1>2. Tail(l) \in Seq(S) /\ Len(Tail(l)) = Len(l) - 1 /\ Head(l) = l[1]
  BY HeadTailProperties
<1>3. \A i \in 1..(Len(l) - 1) : Tail(l)[i] = l[i + 1]
  BY HeadTailProperties
<1>4. Tail(l) = <<>> <=> Len(Tail(l)) = 0
  BY <1>2, EmptySeq
<1>5. 1 \in 1..Len(l)
  BY <1>1
<1>6. Head(l) \in S
  BY <1>2, <1>5, ElementOfSeq
<1>7. Len(l) >= 1 /\ (Len(l) - 1 = 0 <=> ~(Len(l) >= 2))
  <2>1. \A n \in Nat : n # 0 => n >= 1 /\ (n - 1 = 0 <=> ~(n >= 2))
    OBVIOUS
  <2> QED
    BY <1>1, <2>1, Zenon
<1> QED
  BY <1>1, <1>2, <1>3, <1>4, <1>6, <1>7

\* A byte is lost or taken.
LEMMA SpacedTail ==
    ASSUME NEW l \in Seq(Bytes), l # <<>>, NEW m, NEW w, Spaced(l, m), m = "out" /\ Head(l) # FEND => w = "out"
    PROVE  Spaced(Tail(l), w)
<1>1. PICK n \in Nat, t \in Seq(Bytes) :
        /\ n = Len(l) /\ t = Tail(l) /\ n >= 1 /\ Len(t) = n - 1 /\ Head(l) = l[1] /\ (t # <<>> <=> n >= 2)
        /\ \A i \in 1..(n - 1) : t[i] = l[i + 1]
  <2>1. Len(l) \in Nat /\ Tail(l) \in Seq(Bytes)
    BY TailFacts
  <2>2. Len(l) >= 1 /\ Len(Tail(l)) = Len(l) - 1 /\ Head(l) = l[1] /\ (Tail(l) # <<>> <=> Len(l) >= 2)
    BY TailFacts
  <2>3. \A i \in 1..(Len(l) - 1) : Tail(l)[i] = l[i + 1]
    BY TailFacts
  <2> QED
    BY <2>1, <2>2, <2>3, Zenon
<1>2. \A i \in 2..(n - 1) : Lonely(l, i) => m = "out" /\ \A j \in 1..(i - 1) : l[j] # FEND
  BY <1>1 DEF Spaced
<1>3. l[n] # FEND => m = "out" /\ \A i \in 1..n : l[i] # FEND
  BY <1>1 DEF Spaced, Clear
<1>4. ASSUME NEW i \in 2..((n - 1) - 1), Lonely(t, i) PROVE w = "out" /\ \A j \in 1..(i - 1) : t[j] # FEND
  <2>1. /\ i + 1 \in 2..(n - 1) /\ i \in 1..(n - 1) /\ i - 1 \in 1..(n - 1) /\ i + 1 \in 1..(n - 1)
        /\ (i + 1) - 1 = i /\ (i - 1) + 1 = i /\ 1 \in 1..i
    BY <1>4
  <2>2. t[i] = l[i + 1] /\ t[i - 1] = l[(i + 1) - 1] /\ t[i + 1] = l[(i + 1) + 1]
    BY <1>1, <2>1
  <2>3. Lonely(l, i + 1)
    BY <1>4, <2>2 DEF Lonely
  <2>4. m = "out" /\ \A j \in 1..i : l[j] # FEND
    BY <1>2, <2>1, <2>3
  <2>5. w = "out"
    BY <1>1, <2>1, <2>4
  <2>6. ASSUME NEW j \in 1..(i - 1) PROVE t[j] # FEND
    <3>1. j \in 1..(n - 1) /\ j + 1 \in 1..i
      BY <1>4
    <3> QED
      BY <1>1, <2>4, <3>1
  <2> QED
    BY <2>5, <2>6
<1>5. ASSUME t # <<>>, t[n - 1] # FEND PROVE w = "out" /\ \A i \in 1..(n - 1) : t[i] # FEND
  <2>1. n - 1 \in 1..(n - 1) /\ (n - 1) + 1 = n /\ 1 \in 1..n
    BY <1>1, <1>5
  <2>2. t[n - 1] = l[n]
    BY <1>1, <2>1
  <2>3. m = "out" /\ \A i \in 1..n : l[i] # FEND
    BY <1>3, <1>5, <2>2
  <2>4. w = "out"
    BY <1>1, <2>1, <2>3
  <2>5. ASSUME NEW i \in 1..(n - 1) PROVE t[i] # FEND
    <3>1. i + 1 \in 1..n
      OBVIOUS
    <3> QED
      BY <1>1, <2>3, <3>1
  <2> QED
    BY <2>4, <2>5
<1> QED
  BY <1>1, <1>4, <1>5 DEF Spaced, Clear

\* A frame is sent.
LEMMA SpacedSend ==
    ASSUME NEW l \in Seq(Bytes), NEW m, NEW f \in Frames, Spaced(l, m)
    PROVE  Spaced(l \o Encode(f), m)
<1>1. PICK e \in Seq(Bytes), k \in Nat :
        /\ e = Encode(f) /\ k = Len(e) /\ k >= 3 /\ e[1] = FEND /\ e[k] = FEND
        /\ \A i \in 2..(k - 1) : e[i] # FEND
  BY EncodeShape
<1>2. PICK n \in Nat : n = Len(l)
  BY LenProperties
<1>3. PICK u \in Seq(Bytes) : u = l \o e
  BY ConcatProperties
<1>4. Len(u) = n + k
  BY <1>1, <1>2, <1>3, ConcatProperties
<1>5. \A i \in 1..(n + k) : u[i] = IF i <= n THEN l[i] ELSE e[i - n]
  BY <1>1, <1>2, <1>3, ConcatProperties
<1>6. \A i \in 1..n : u[i] = l[i]
  BY <1>5
<1>7. \A i \in 1..k : u[n + i] = e[i]
  <2> SUFFICES ASSUME NEW i \in 1..k PROVE u[n + i] = e[i]
    OBVIOUS
  <2>1. n + i \in 1..(n + k) /\ ~(n + i <= n) /\ (n + i) - n = i
    OBVIOUS
  <2> QED
    BY <1>5, <2>1
<1>8. u[n + k] = FEND
  <2>1. k \in 1..k
    BY <1>1
  <2> QED
    BY <1>1, <1>7, <2>1
<1>9. ASSUME NEW i \in 2..((n + k) - 1), Lonely(u, i) PROVE m = "out" /\ \A j \in 1..(i - 1) : u[j] # FEND
  <2>1. CASE i < n
    <3>1. i \in 2..(n - 1) /\ i \in 1..n /\ i - 1 \in 1..n /\ i + 1 \in 1..n
      BY <1>9, <2>1
    <3>2. Lonely(l, i)
      BY <1>6, <1>9, <3>1 DEF Lonely
    <3>3. m = "out" /\ \A j \in 1..(i - 1) : l[j] # FEND
      BY <1>2, <3>1, <3>2 DEF Spaced
    <3>4. ASSUME NEW j \in 1..(i - 1) PROVE u[j] # FEND
      <4>1. j \in 1..n
        BY <3>1
      <4> QED
        BY <1>6, <3>3, <4>1
    <3> QED
      BY <3>3, <3>4
  <2>2. CASE i = n
    <3>1. 1 \in 1..k
      BY <1>1
    <3>2. u[i + 1] = FEND
      BY <1>1, <1>7, <2>2, <3>1
    <3> QED
      BY <1>9, <3>2 DEF Lonely
  <2>3. CASE i = n + 1
    <3>1. n \in 1..n /\ n >= 1 /\ i - 1 = n
      BY <1>9, <2>3
    <3>2. l[n] # FEND
      BY <1>6, <1>9, <3>1 DEF Lonely
    <3>3. l # <<>>
      BY <1>2, <3>1, EmptySeq
    <3>4. m = "out" /\ \A j \in 1..n : l[j] # FEND
      BY <1>2, <3>2, <3>3 DEF Spaced, Clear
    <3> QED
      BY <1>6, <3>1, <3>4
  <2>4. CASE i > n + 1
    <3>1. i - n \in 2..(k - 1) /\ i - n \in 1..k /\ n + (i - n) = i
      BY <1>9, <2>4
    <3>2. u[i] # FEND
      BY <1>1, <1>7, <3>1
    <3> QED
      BY <1>9, <3>2 DEF Lonely
  <2> QED
    BY <1>9, <2>1, <2>2, <2>3, <2>4
<1>10. Spaced(u, m)
  BY <1>4, <1>8, <1>9 DEF Spaced
<1> QED
  BY <1>1, <1>3, <1>10

-----------------------------------------------------------------------------
(* The account of the line *)

\* With l taken, the decoder s will have put out all packets of d but n.
Accounts(l, s, d, n) == \E z \in Decoders : Runs(s, l, z) /\ Accounted(d, z.out, n)

\* The frame that is under way ends with a delimiter that also begins the
\* next frame, because the other of the two was lost.
Pending(s, l) == ~Quiet(s) /\ (l = <<>> \/ (l[1] = FEND /\ Len(l) >= 2 /\ l[2] # FEND))

\* A frame that may be lost with that delimiter has been written off.
Sure(s, l) == IF Pending(s, l) THEN InFrame(<<>>, s.out) ELSE s

\* Both are decoders with the same output.
LEMMA SureFacts ==
    ASSUME NEW s \in Decoders, NEW l
    PROVE  /\ Sure(s, l) \in Decoders /\ Sure(s, l).out = s.out
           /\ InFrame(<<>>, s.out) \in Decoders /\ InFrame(<<>>, s.out).out = s.out
           /\ Quiet(s) => Sure(s, l) = s
<1>1. InFrame(<<>>, s.out) \in Decoders
  <2>1. <<>> \in Seq(Bytes) /\ s.out \in Seq(Packets)
    BY DecoderParts
  <2> QED
    BY <2>1, InFrameType
<1>2. InFrame(<<>>, s.out).out = s.out
  BY DEF InFrame
<1> QED
  BY <1>1, <1>2 DEF Sure, Pending

\* What two decoders are apart is what they account for less.
LEMMA AccountsClose ==
    ASSUME NEW s \in Decoders, NEW t \in Decoders, NEW l \in Seq(Bytes), NEW d \in Seq(Packets),
           NEW n \in Nat, NEW m \in Nat, Close(s, t, m), Accounts(l, s, d, n)
    PROVE  Accounts(l, t, d, n + m)
<1>1. PICK z \in Decoders : Runs(s, l, z) /\ Accounted(d, z.out, n)
  BY DEF Accounts
<1>2. PICK w \in Decoders : Runs(t, l, w) /\ Close(z, w, m)
  BY <1>1, Resync
<1>3. Accounted(d, w.out, n + m)
  BY <1>1, <1>2, AccountedClose
<1> QED
  BY <1>2, <1>3 DEF Accounts

\* Nothing is a sequence of packets.
LEMMA NoPackets == <<>> \in Seq(Packets) /\ Len(<<>>) = 0
OBVIOUS

\* Decoders with the same output are one packet apart.
LEMMA CloseSameOut ==
    ASSUME NEW s \in Decoders, NEW t \in Decoders, s.out = t.out
    PROVE  Close(s, t, 1)
<1>1. PICK o \in Seq(Packets), x \in Seq(Packets) : o = s.out /\ x = <<>> /\ Len(x) = 0
  BY DecoderParts, NoPackets
<1>2. o \o x = o /\ Len(x) = 0
  BY <1>1, ConcatEmptySeq
<1>3. (o \o x) \o x = o
  BY <1>2
<1>4. Len(x) + 1 <= 1
  BY <1>2
<1>5. Apart(s, t, 1, o, x, x, x)
  BY <1>1, <1>3, <1>4 DEF Apart
<1> QED
  BY <1>5 DEF Close

\* Decoders of which one has put out more, and that hold the same.
LEMMA CloseSameHold ==
    ASSUME NEW s, NEW t, NEW o \in Seq(Packets), NEW x \in Seq(Packets), NEW y \in Seq(Packets), NEW m \in Nat,
           s.out = o \o x, t.out = o \o y, SameHold(s, t), Len(x) <= m
    PROVE  Close(s, t, m)
<1>1. PICK r \in Seq(Packets) : r = <<>>
  BY NoPackets, Zenon
<1>2. (o \o x) \o r = o \o x /\ (o \o y) \o r = o \o y
  <2>1. o \o x \in Seq(Packets) /\ o \o y \in Seq(Packets)
    BY ConcatProperties
  <2> QED
    BY <1>1, <2>1, ConcatEmptySeq
<1>3. Apart(s, t, m, o, x, y, r)
  BY <1>2 DEF Apart
<1> QED
  BY <1>3 DEF Close

\* Decoders of which one has put out more.
LEMMA CloseShorter ==
    ASSUME NEW s, NEW t, NEW o \in Seq(Packets), NEW x \in Seq(Packets), s.out = o \o x, t.out = o
    PROVE  Close(s, t, Len(x) + 1)
<1>1. PICK r \in Seq(Packets) : r = <<>>
  BY NoPackets, Zenon
<1>2. (o \o x) \o r = o \o x /\ (o \o r) \o r = o
  <2>1. o \o x \in Seq(Packets)
    BY ConcatProperties
  <2> QED
    BY <1>1, <2>1, ConcatEmptySeq
<1>3. Len(x) \in Nat
  BY LenProperties
<1>4. Len(x) + 1 <= Len(x) + 1
  BY <1>3
<1>5. Apart(s, t, Len(x) + 1, o, x, r, r)
  BY <1>1, <1>2, <1>4 DEF Apart
<1> QED
  BY <1>5 DEF Close

\* The account after the first byte.
LEMMA AccountsHead ==
    ASSUME NEW s \in Decoders, NEW l \in Seq(Bytes), l # <<>>, NEW d, NEW n, Accounts(l, s, d, n)
    PROVE  Accounts(Tail(l), Took(s, Head(l)), d, n)
<1>1. PICK z \in Decoders : Runs(s, l, z) /\ Accounted(d, z.out, n)
  BY DEF Accounts
<1> QED
  BY <1>1, RunsHead DEF Accounts

\* What a delimiter does to a quiet decoder.
LEMMA QuietDelimiter ==
    ASSUME NEW s \in Decoders, Quiet(s)
    PROVE  Took(s, FEND) = InFrame(<<>>, s.out)
<1>1. s.out \o <<>> = s.out
  BY DecoderParts, ConcatEmptySeq
<1>2. Ended(s) = <<>>
  BY DEF Ended
<1>3. Took(s, FEND) = [mode |-> "in", buf |-> <<>>, out |-> s.out \o Ended(s)]
  BY DEF Took
<1> QED
  BY <1>1, <1>2, <1>3 DEF InFrame

\* The clean decoder stays clean.
LEMMA CleanDelimiter ==
    ASSUME NEW o \in Seq(Packets)
    PROVE  Took(InFrame(<<>>, o), FEND) = InFrame(<<>>, o) /\ Quiet(InFrame(<<>>, o))
<1>1. <<>> \in Seq(Bytes)
  OBVIOUS
<1>2. InFrame(<<>>, o) \in Decoders
  BY <1>1, InFrameType
<1>3. Quiet(InFrame(<<>>, o)) /\ InFrame(<<>>, o).out = o
  BY DEF Quiet, InFrame
<1> QED
  BY <1>2, <1>3, QuietDelimiter

\* What a delimiter ends is put out.
LEMMA DelimiterFacts ==
    ASSUME NEW s \in Decoders
    PROVE  /\ Took(s, FEND) \in Decoders /\ Quiet(Took(s, FEND)) /\ Took(s, FEND).out = s.out \o Ended(s)
           /\ SameHold(Took(s, FEND), InFrame(<<>>, s.out))
           /\ Took(Took(s, FEND), FEND) = Took(s, FEND)
<1>1. FEND \in Bytes
  BY DEF FEND, Bytes
<1>2. Took(s, FEND) \in Decoders
  BY <1>1, TookType
<1>3. PICK o \in Seq(Packets) : o = s.out \o Ended(s)
  BY EndedOne, DecoderParts, ConcatProperties
<1>4. Took(s, FEND) = InFrame(<<>>, o)
  BY <1>3 DEF Took, InFrame
<1>5. InFrame(<<>>, o).out = o /\ SameHold(InFrame(<<>>, o), InFrame(<<>>, s.out))
  BY DEF InFrame, SameHold
<1> QED
  BY <1>2, <1>3, <1>4, <1>5, CleanDelimiter

\* feed() takes a byte, and the account stays.
LEMMA AccountsFeed ==
    ASSUME NEW s \in Decoders, NEW l \in Seq(Bytes), l # <<>>, NEW d \in Seq(Packets), NEW n \in Nat,
           Spaced(l, s.mode), Accounts(l, Sure(s, l), d, n)
    PROVE  Accounts(Tail(l), Sure(Took(s, Head(l)), Tail(l)), d, n)
<1>1. PICK t \in Seq(Bytes), b \in Bytes, k \in Nat :
        t = Tail(l) /\ b = Head(l) /\ k = Len(l) /\ b = l[1] /\ k >= 1 /\ Len(t) = k - 1
  BY TailFacts
<1>2. \A i \in 1..(k - 1) : t[i] = l[i + 1]
  BY <1>1, TailFacts
<1>3. PICK c \in Decoders : c = InFrame(<<>>, s.out) /\ c.out = s.out
  BY SureFacts
<1>4. PICK o \in Seq(Packets), e \in Seq(Packets) : o = s.out /\ e = Ended(s)
  BY DecoderParts, EndedOne
<1>5. CASE Pending(s, l)
  <2>1. b = FEND /\ Sure(s, l) = c
    BY <1>1, <1>3, <1>5 DEF Pending, Sure
  <2>2. Took(c, FEND) = c
    BY <1>3, <1>4, CleanDelimiter
  <2>3. Accounts(t, c, d, n)
    BY <1>1, <2>1, <2>2, AccountsHead
  <2>4. PICK q \in Decoders : q = Took(s, FEND) /\ Quiet(q) /\ q.out = o \o e /\ SameHold(q, c)
    BY <1>3, <1>4, DelimiterFacts
  <2>5. Close(c, q, 0)
    <3>1. PICK x \in Seq(Packets) : x = <<>> /\ Len(x) = 0
      BY NoPackets, Zenon
    <3>2. o \o x = o /\ Len(x) <= 0
      BY <3>1, ConcatEmptySeq
    <3>3. SameHold(c, q)
      BY <2>4 DEF SameHold
    <3>4. c.out = o \o x
      BY <1>3, <1>4, <3>2
    <3> QED
      BY <2>4, <3>2, <3>3, <3>4, CloseSameHold
  <2>6. Accounts(t, q, d, n + 0) /\ n + 0 = n
    BY <2>3, <2>5, AccountsClose
  <2>7. Sure(q, t) = q
    BY <2>4, SureFacts
  <2> QED
    BY <1>1, <2>1, <2>4, <2>6, <2>7
<1>6. CASE ~Pending(s, l)
  <2>1. PICK q \in Decoders : q = Took(s, b)
    BY TookType
  <2>2. Accounts(t, q, d, n)
    BY <1>1, <1>6, <2>1, AccountsHead DEF Sure
  <2>3. CASE ~Pending(q, t)
    BY <1>1, <2>1, <2>2, <2>3 DEF Sure
  <2>4. CASE Pending(q, t)
    <3>1. PICK w \in Decoders : w = InFrame(<<>>, q.out) /\ w.out = q.out /\ Sure(q, t) = w
      BY <2>4, SureFacts DEF Sure
    <3>2. CASE t = <<>>
      <4>1. PICK z \in Decoders : Runs(q, t, z) /\ Accounted(d, z.out, n)
        BY <2>2 DEF Accounts
      <4>2. z = q
        BY <3>2, <4>1, RunsNone
      <4>3. Runs(w, t, w)
        BY <3>2, RunsNone
      <4>4. Accounts(t, w, d, n)
        BY <3>1, <4>1, <4>2, <4>3 DEF Accounts
      <4> QED
        BY <1>1, <2>1, <3>1, <4>4
    <3>3. CASE t # <<>>
      <4>1. ~Quiet(q) /\ t[1] = FEND /\ Len(t) >= 2 /\ t[2] # FEND
        BY <2>4, <3>3 DEF Pending
      <4>2. b # FEND
        BY <2>1, <4>1, DelimiterFacts
      <4>3. k >= 3
        BY <1>1, <4>1
      <4>4. 1 \in 1..(k - 1) /\ 2 \in 1..(k - 1) /\ 1 + 1 = 2 /\ 2 + 1 = 3 /\ 2 \in 2..(k - 1) /\ 2 - 1 = 1
        BY <4>3
      <4>5. l[2] = FEND /\ l[3] # FEND
        BY <1>2, <4>1, <4>4
      <4>6. Lonely(l, 2)
        BY <1>1, <4>2, <4>4, <4>5 DEF Lonely
      <4>7. s.mode = "out"
        BY <1>1, <4>4, <4>6 DEF Spaced
      <4>8. q.mode = "out"
        BY <2>1, <4>2, <4>7, TookParts DEF ModeAfter
      <4> QED
        BY <4>1, <4>8 DEF Quiet
    <3> QED
      BY <3>2, <3>3
  <2> QED
    BY <2>3, <2>4
<1> QED
  BY <1>5, <1>6

\* The account with one byte lost.
LEMMA AccountsLose ==
    ASSUME NEW s \in Decoders, NEW l \in Seq(Bytes), l # <<>>, NEW d \in Seq(Packets), NEW n \in Nat,
           Accounts(l, Sure(s, l), d, n)
    PROVE  Accounts(Tail(l), Sure(s, Tail(l)), d, n + 1)
<1>1. PICK t \in Seq(Bytes), b \in Bytes, k \in Nat :
        t = Tail(l) /\ b = Head(l) /\ k = Len(l) /\ b = l[1] /\ k >= 1 /\ Len(t) = k - 1
  BY TailFacts
<1>2. \A i \in 1..(k - 1) : t[i] = l[i + 1]
  BY <1>1, TailFacts
<1>3. PICK c \in Decoders : c = InFrame(<<>>, s.out) /\ c.out = s.out
  BY SureFacts
<1>4. PICK o \in Seq(Packets), e \in Seq(Packets) : o = s.out /\ e = Ended(s) /\ Len(e) \in 0..1
  BY DecoderParts, EndedOne
<1>5. PICK v \in Decoders : v = Sure(s, t) /\ v.out = o
  BY <1>4, SureFacts
<1>6. ASSUME NEW q \in Decoders, q.out = o, Accounts(t, q, d, n) PROVE Accounts(t, v, d, n + 1)
  <2>1. Close(q, v, 1)
    BY <1>5, <1>6, CloseSameOut
  <2> QED
    BY <1>6, <2>1, AccountsClose
<1>7. CASE Pending(s, l)
  <2>1. b = FEND /\ Sure(s, l) = c
    BY <1>1, <1>3, <1>7 DEF Pending, Sure
  <2>2. Took(c, FEND) = c
    BY <1>3, <1>4, CleanDelimiter
  <2>3. Accounts(t, c, d, n)
    BY <1>1, <2>1, <2>2, AccountsHead
  <2> QED
    BY <1>1, <1>3, <1>4, <1>5, <1>6, <2>3
<1>8. CASE ~Pending(s, l) /\ b # FEND
  <2>1. PICK q \in Decoders : q = Took(s, b) /\ q.out = o
    BY <1>4, <1>8, TookType, TookParts
  <2>2. Accounts(t, q, d, n)
    BY <1>1, <1>8, <2>1, AccountsHead DEF Sure
  <2> QED
    BY <1>1, <1>5, <1>6, <2>1, <2>2
<1>9. CASE ~Pending(s, l) /\ b = FEND /\ Quiet(s)
  <2>1. Took(s, b) = c
    BY <1>3, <1>9, QuietDelimiter
  <2>2. Accounts(t, c, d, n)
    BY <1>1, <1>9, <2>1, AccountsHead DEF Sure
  <2> QED
    BY <1>1, <1>3, <1>4, <1>5, <1>6, <2>2
<1>10. CASE ~Pending(s, l) /\ b = FEND /\ ~Quiet(s)
  <2>1. PICK q \in Decoders : q = Took(s, FEND) /\ q.out = o \o e /\ SameHold(q, c) /\ Took(q, FEND) = q
    BY <1>3, <1>4, DelimiterFacts
  <2>2. Accounts(t, q, d, n)
    BY <1>1, <1>10, <2>1, AccountsHead DEF Sure
  <2>3. CASE Pending(s, t)
    <3>1. v = c
      BY <1>3, <1>5, <2>3 DEF Sure
    <3>2. PICK x \in Seq(Packets) : x = <<>>
      BY NoPackets, Zenon
    <3>3. c.out = o \o x
      <4>1. o \o x = o
        BY <3>2, ConcatEmptySeq
      <4> QED
        BY <1>3, <1>4, <4>1, Zenon
    <3>4. Len(e) <= 1
      <4>1. \A i \in 0..1 : i <= 1
        OBVIOUS
      <4> QED
        BY <1>4, <4>1, Zenon
    <3>5. Close(q, c, 1)
      BY <2>1, <3>3, <3>4, CloseSameHold
    <3>6. Accounts(t, c, d, n + 1)
      BY <2>2, <3>5, AccountsClose
    <3> QED
      BY <1>1, <1>5, <3>1, <3>6
  <2>4. CASE ~Pending(s, t)
    <3>1. v = s
      BY <1>5, <2>4 DEF Sure
    <3>2. t # <<>>
      BY <1>10, <2>4 DEF Pending
    <3>3. k >= 2 /\ l[2] = FEND
      <4>1. Len(t) # 0
        BY <3>2, EmptySeq
      <4>2. k >= 2
        BY <1>1, <4>1
      <4> QED
        BY <1>1, <1>10, <4>2 DEF Pending
    <3>4. 1 \in 1..(k - 1) /\ 1 + 1 = 2
      BY <3>3
    <3>5. t[1] = FEND
      BY <1>2, <3>3, <3>4
    <3>6. Head(t) = FEND
      BY <3>2, <3>5, TailFacts
    <3>7. Accounts(Tail(t), q, d, n)
      BY <2>1, <2>2, <3>2, <3>6, AccountsHead
    <3>8. PICK z \in Decoders : Runs(q, Tail(t), z) /\ Accounted(d, z.out, n)
      BY <3>7 DEF Accounts
    <3>9. Runs(s, t, z)
      BY <2>1, <3>2, <3>6, <3>8, RunsCons
    <3>10. Accounts(t, s, d, n)
      BY <3>8, <3>9 DEF Accounts
    <3> QED
      BY <1>1, <1>4, <1>5, <1>6, <3>1, <3>10
  <2> QED
    BY <2>3, <2>4
<1> QED
  BY <1>7, <1>8, <1>9, <1>10

\* The account with one frame more.
LEMMA AccountsSend ==
    ASSUME NEW s \in Decoders, NEW l \in Seq(Bytes), NEW d \in Seq(Packets), NEW n \in Nat, NEW f \in Frames,
           Accounts(l, Sure(s, l), d, n)
    PROVE  Accounts(l \o Encode(f), Sure(s, l \o Encode(f)), d \o Carried(f), n)
<1>1. PICK e \in Seq(Bytes), k \in Nat :
        /\ e = Encode(f) /\ k = Len(e) /\ k >= 3 /\ e[1] = FEND
        /\ \A i \in 2..(k - 1) : e[i] # FEND
  BY EncodeShape
<1>2. e[2] # FEND
  <2>1. 2 \in 2..(k - 1)
    BY <1>1
  <2> QED
    BY <1>1, <2>1
<1>3. PICK m \in Nat : m = Len(l)
  BY LenProperties
<1>4. PICK u \in Seq(Bytes) : u = l \o e
  BY ConcatProperties
<1>5. Len(u) = m + k
  BY <1>1, <1>3, <1>4, ConcatProperties
<1>6. \A i \in 1..(m + k) : u[i] = IF i <= m THEN l[i] ELSE e[i - m]
  BY <1>1, <1>3, <1>4, ConcatProperties
<1>7. Pending(s, l) <=> Pending(s, u)
  <2>1. u # <<>> /\ m + k >= 2
    <3>1. m + k # 0 /\ m + k >= 2
      BY <1>1
    <3> QED
      BY <1>5, <3>1, EmptySeq
  <2>2. CASE m = 0
    <3>1. l = <<>>
      BY <1>3, <2>2, EmptySeq
    <3>2. 1 \in 1..(m + k) /\ 2 \in 1..(m + k) /\ ~(1 <= m) /\ ~(2 <= m) /\ 1 - m = 1 /\ 2 - m = 2
      BY <1>1, <2>2
    <3>3. u[1] = FEND /\ u[2] # FEND
      BY <1>1, <1>2, <1>6, <3>2
    <3> QED
      BY <1>5, <2>1, <3>1, <3>3 DEF Pending
  <2>3. CASE m = 1
    <3>1. l # <<>>
      <4>1. Len(<<>>) # 1
        OBVIOUS
      <4> QED
        BY <1>3, <2>3, <4>1, Zenon
    <3>2. 2 \in 1..(m + k) /\ ~(2 <= m) /\ 2 - m = 1 /\ ~(m >= 2)
      BY <1>1, <2>3
    <3>3. u[2] = FEND
      BY <1>1, <1>6, <3>2
    <3> QED
      BY <1>3, <2>1, <3>1, <3>2, <3>3 DEF Pending
  <2>4. CASE m # 0 /\ m # 1
    <3>1. l # <<>>
      BY <1>3, <2>4, EmptySeq
    <3>2. m >= 2 /\ 1 \in 1..(m + k) /\ 2 \in 1..(m + k) /\ 1 <= m /\ 2 <= m
      BY <2>4
    <3>3. u[1] = l[1] /\ u[2] = l[2]
      BY <1>6, <3>2
    <3> QED
      BY <1>3, <1>5, <2>1, <3>1, <3>2, <3>3 DEF Pending
  <2> QED
    BY <2>2, <2>3, <2>4
<1>8. PICK b \in Decoders : b = Sure(s, l) /\ b = Sure(s, u)
  BY <1>7, SureFacts DEF Sure
<1>9. PICK z \in Decoders : Runs(b, l, z) /\ Accounted(d, z.out, n)
  BY <1>8 DEF Accounts
<1>10. PICK w \in Decoders : Runs(z, e, w) /\ w.out = (z.out \o Ended(z)) \o Carried(f)
  BY <1>1, EncodeRuns
<1>11. PICK o \in Seq(Packets), y \in Seq(Packets), c \in Seq(Packets) :
         o = z.out /\ y = Ended(z) /\ c = Carried(f) /\ Len(c) \in 0..1
  BY DecoderParts, EndedOne, CarriedOne, FrameFacts
<1>12. PICK x \in Seq(Packets) : x = <<>> /\ Len(x) <= 0
  <2>1. \A w1 \in Seq(Packets) : Len(w1) = 0 => Len(w1) <= 0
    OBVIOUS
  <2> QED
    BY <2>1, NoPackets, Zenon
<1>13. (o \o x) \o x = o /\ (o \o y) \o x = o \o y /\ o \o y \in Seq(Packets)
  BY <1>12, ConcatEmptySeq, ConcatProperties
<1>14. Accounted(d, (o \o x) \o x, n)
  BY <1>9, <1>11, <1>13
<1>15. Accounted(d, (o \o y) \o x, n + 0)
  <2>1. 0 \in Nat
    OBVIOUS
  <2> QED
    BY <1>12, <1>14, <2>1, AccountedMoved
<1>16. PICK p \in Seq(Packets) : p = o \o y /\ Accounted(d, p, n)
  <2>1. n + 0 = n
    OBVIOUS
  <2> QED
    BY <1>13, <1>15, <2>1
<1>17. Accounted(d \o c, p \o c, n)
  BY <1>11, <1>16, AccountedMore
<1>18. w.out = p \o c
  BY <1>10, <1>11, <1>16
<1>19. Runs(b, u, w)
  BY <1>4, <1>9, <1>10, RunsJoin
<1>20. Accounts(u, b, d \o c, n)
  BY <1>17, <1>18, <1>19 DEF Accounts
<1> QED
  BY <1>1, <1>4, <1>8, <1>11, <1>20

-----------------------------------------------------------------------------
(* The reader, its line and its histories *)

\* With l taken, the decoder s will have put out d and hold nothing.
Exact(l, s, d) == \E z \in Decoders : Runs(s, l, z) /\ Quiet(z) /\ z.out = d

\* The line l and the decoder h: what h has put out is part of e, in order,
\* and what it will put out is d but for n packets.
Right(l, h, d, e, n) ==
    /\ Subsequence(h.out, e)
    /\ Spaced(l, h.mode)
    /\ Accounts(l, Sure(h, l), d, n)
    /\ n = 0 => Exact(l, h, d)

\* feed() takes a byte of the line.
LEMMA RightFeed ==
    ASSUME NEW l \in Seq(Bytes), l # <<>>, NEW h \in Decoders, NEW d \in Seq(Packets), NEW e \in Seq(Packets),
           NEW n \in Nat, NEW x \in Seq(Packets), Took(h, Head(l)).out = h.out \o x, Right(l, h, d, e, n)
    PROVE  Right(Tail(l), Took(h, Head(l)), d, e \o x, n)
<1>1. Subsequence(h.out, e) /\ Spaced(l, h.mode) /\ Accounts(l, Sure(h, l), d, n) /\ (n = 0 => Exact(l, h, d))
  BY DEF Right
<1>2. PICK b \in Bytes, q \in Decoders, o \in Seq(Packets) : b = Head(l) /\ q = Took(h, b) /\ o = h.out
  BY HeadAndTail, TookType, DecoderParts
<1>3. Subsequence(q.out, e \o x)
  <2>1. Subsequence(o \o x, e \o x)
    BY <1>1, <1>2, SubsequenceMore
  <2> QED
    BY <1>2, <2>1
<1>4. Spaced(Tail(l), q.mode)
  <2>1. ASSUME h.mode = "out", b # FEND PROVE q.mode = "out"
    BY <1>2, <2>1, TookParts DEF ModeAfter
  <2> QED
    BY <1>1, <1>2, <2>1, SpacedTail
<1>5. Accounts(Tail(l), Sure(q, Tail(l)), d, n)
  BY <1>1, <1>2, AccountsFeed
<1>6. ASSUME n = 0 PROVE Exact(Tail(l), q, d)
  <2>1. PICK z \in Decoders : Runs(h, l, z) /\ Quiet(z) /\ z.out = d
    BY <1>1, <1>6 DEF Exact
  <2>2. Runs(q, Tail(l), z)
    BY <1>2, <2>1, RunsHead
  <2> QED
    BY <2>1, <2>2 DEF Exact
<1> QED
  BY <1>2, <1>3, <1>4, <1>5, <1>6 DEF Right

\* The line loses a byte.
LEMMA RightLose ==
    ASSUME NEW l \in Seq(Bytes), l # <<>>, NEW h \in Decoders, NEW d \in Seq(Packets), NEW e \in Seq(Packets),
           NEW n \in Nat, Right(l, h, d, e, n)
    PROVE  Right(Tail(l), h, d, e, n + 1)
<1>1. Subsequence(h.out, e) /\ Spaced(l, h.mode) /\ Accounts(l, Sure(h, l), d, n)
  BY DEF Right
<1>2. Spaced(Tail(l), h.mode)
  BY <1>1, SpacedTail
<1>3. Accounts(Tail(l), Sure(h, Tail(l)), d, n + 1)
  BY <1>1, AccountsLose
<1>4. n + 1 # 0
  OBVIOUS
<1> QED
  BY <1>1, <1>2, <1>3, <1>4 DEF Right

\* The modem sends a frame.
LEMMA RightSend ==
    ASSUME NEW l \in Seq(Bytes), NEW h \in Decoders, NEW d \in Seq(Packets), NEW e \in Seq(Packets),
           NEW n \in Nat, NEW f \in Frames, Right(l, h, d, e, n)
    PROVE  Right(l \o Encode(f), h, d \o Carried(f), e, n)
<1>1. Subsequence(h.out, e) /\ Spaced(l, h.mode) /\ Accounts(l, Sure(h, l), d, n) /\ (n = 0 => Exact(l, h, d))
  BY DEF Right
<1>2. Spaced(l \o Encode(f), h.mode)
  BY <1>1, SpacedSend
<1>3. Accounts(l \o Encode(f), Sure(h, l \o Encode(f)), d \o Carried(f), n)
  BY <1>1, AccountsSend
<1>4. ASSUME n = 0 PROVE Exact(l \o Encode(f), h, d \o Carried(f))
  <2>1. PICK z \in Decoders : Runs(h, l, z) /\ Quiet(z) /\ z.out = d
    BY <1>1, <1>4 DEF Exact
  <2>2. Encode(f) \in Seq(Bytes)
    BY <2>1, EncodeRuns
  <2>3. PICK w \in Decoders : Runs(z, Encode(f), w) /\ w.out = (z.out \o Ended(z)) \o Carried(f) /\ Quiet(w)
    BY EncodeRuns
  <2>4. Ended(z) = <<>>
    BY <2>1 DEF Ended
  <2>5. d \o <<>> = d
    BY ConcatEmptySeq
  <2>6. w.out = d \o Carried(f)
    BY <2>1, <2>3, <2>4, <2>5, Zenon
  <2>7. Runs(h, l \o Encode(f), w)
    BY <2>1, <2>2, <2>3, RunsJoin
  <2> QED
    BY <2>3, <2>6, <2>7 DEF Exact
<1> QED
  BY <1>1, <1>2, <1>3, <1>4 DEF Right

\* A decoder is its parts.
LEMMA SameParts ==
    \A s, t \in Decoders : s.mode = t.mode /\ s.buf = t.buf /\ s.out = t.out => s = t
<1>1. \A A, B, C : \A s, t \in [mode : A, buf : B, out : C] : s.mode = t.mode /\ s.buf = t.buf /\ s.out = t.out => s = t
  OBVIOUS
<1> QED
  BY <1>1 DEF Decoders

\* Packets that were put out and not published go with their connection.
LEMMA RightDrop ==
    ASSUME NEW l \in Seq(Bytes), NEW h \in Decoders, NEW g \in Decoders, NEW d \in Seq(Packets), NEW e \in Seq(Packets),
           NEW n \in Nat, NEW y \in Seq(Packets), SameHold(h, g), h.out = g.out \o y, Right(l, h, d, e, n)
    PROVE  Right(l, g, d, e, n + Len(y))
<1>1. Subsequence(h.out, e) /\ Spaced(l, h.mode) /\ Accounts(l, Sure(h, l), d, n) /\ (n = 0 => Exact(l, h, d))
  BY DEF Right
<1>2. PICK o \in Seq(Packets), m \in Nat, x \in Seq(Packets) : o = g.out /\ m = Len(y) /\ x = <<>>
  BY DecoderParts, LenProperties, NoPackets
<1>3. Subsequence(g.out, e)
  BY <1>1, <1>2, SubsequenceCut
<1>4. Spaced(l, g.mode)
  BY <1>1 DEF SameHold
<1>5. PICK u \in Decoders, v \in Decoders :
        u = Sure(h, l) /\ v = Sure(g, l) /\ u.out = h.out /\ v.out = g.out /\ SameHold(u, v)
  <2>1. Pending(h, l) <=> Pending(g, l)
    BY DEF Pending, Quiet, SameHold
  <2>2. SameHold(InFrame(<<>>, h.out), InFrame(<<>>, g.out))
    BY DEF SameHold, InFrame
  <2>3. SameHold(Sure(h, l), Sure(g, l))
    BY <2>1, <2>2 DEF Sure
  <2> QED
    BY <2>3, SureFacts
<1>6. Close(u, v, m)
  <2>1. o \o x = o
    BY <1>2, ConcatEmptySeq
  <2>2. Len(y) <= m
    BY <1>2
  <2>3. u.out = o \o y /\ v.out = o \o x
    BY <1>2, <1>5, <2>1
  <2> QED
    BY <1>5, <2>2, <2>3, CloseSameHold
<1>7. Accounts(l, v, d, n + m)
  BY <1>1, <1>5, <1>6, AccountsClose
<1>8. ASSUME n + m = 0 PROVE Exact(l, g, d)
  <2>1. n = 0 /\ m = 0
    BY <1>8
  <2>2. y = <<>>
    BY <1>2, <2>1, EmptySeq
  <2>3. h.out = g.out
    <3>1. o \o <<>> = o
      BY ConcatEmptySeq
    <3> QED
      BY <1>2, <2>2, <3>1, Zenon
  <2>4. h = g
    BY <2>3, SameParts DEF SameHold
  <2> QED
    BY <1>1, <2>1, <2>4
<1> QED
  BY <1>2, <1>3, <1>4, <1>5, <1>7, <1>8 DEF Right

\* The decoder goes with its process, and so does what it held.
LEMMA RightRestart ==
    ASSUME NEW l \in Seq(Bytes), NEW h \in Decoders, NEW g \in Decoders, NEW d \in Seq(Packets), NEW e \in Seq(Packets),
           NEW n \in Nat, NEW y \in Seq(Packets), g.mode = "out", h.out = g.out \o y, Right(l, h, d, e, n)
    PROVE  Right(l, g, d, e, n + (Len(y) + 1))
<1>1. Subsequence(h.out, e) /\ Spaced(l, h.mode) /\ Accounts(l, Sure(h, l), d, n)
  BY DEF Right
<1>2. PICK o \in Seq(Packets), m \in Nat : o = g.out /\ m = Len(y)
  BY DecoderParts, LenProperties
<1>3. Subsequence(g.out, e)
  BY <1>1, <1>2, SubsequenceCut
<1>4. Spaced(l, g.mode)
  BY <1>1 DEF Spaced
<1>5. Sure(g, l) = g
  BY SureFacts DEF Quiet
<1>6. PICK u \in Decoders : u = Sure(h, l) /\ u.out = o \o y
  BY <1>2, SureFacts
<1>7. Close(u, g, m + 1)
  BY <1>2, <1>6, CloseShorter
<1>8. m + 1 \in Nat /\ n + (m + 1) # 0
  OBVIOUS
<1>9. Accounts(l, g, d, n + (m + 1))
  BY <1>1, <1>6, <1>7, <1>8, AccountsClose
<1> QED
  BY <1>2, <1>3, <1>4, <1>5, <1>8, <1>9 DEF Right

\* The end of an earlier frame is not heard.
LEMMA RightTail ==
    ASSUME NEW l \in Tails
    PROVE  Right(l, [mode |-> "out", buf |-> <<>>, out |-> <<>>], <<>>, <<>>, 0)
<1>1. l \in Seq(Bytes) /\ \A i \in 1..(Len(l) - 1) : l[i] # FEND
  BY TailsAssumption
<1>2. PICK h \in Decoders : h = [mode |-> "out", buf |-> <<>>, out |-> <<>>]
  <2>1. "out" \in Modes /\ <<>> \in Seq(Bytes)
    BY DEF Modes
  <2> QED
    BY <2>1, NoPackets, DecoderParts
<1>3. h.mode = "out" /\ h.out = <<>> /\ Quiet(h)
  BY <1>2 DEF Quiet
<1>4. PICK n \in Nat : n = Len(l)
  BY <1>1, LenProperties
<1>5. Spaced(l, h.mode)
  <2>1. ASSUME NEW i \in 2..(n - 1) PROVE ~Lonely(l, i)
    <3>1. i \in 1..(n - 1)
      BY <2>1
    <3> QED
      BY <1>1, <1>4, <3>1 DEF Lonely
  <2>2. ASSUME l # <<>>, l[n] # FEND PROVE Clear(l)
    <3>1. ASSUME NEW i \in 1..n PROVE l[i] # FEND
      <4>1. i = n \/ i \in 1..(n - 1)
        BY <3>1
      <4> QED
        BY <1>1, <1>4, <2>2, <4>1
    <3> QED
      BY <1>4, <3>1 DEF Clear
  <2> QED
    BY <1>3, <1>4, <2>1, <2>2 DEF Spaced
<1>6. PICK z \in Decoders : Runs(h, l, z) /\ Quiet(z) /\ z.out = <<>>
  <2>1. CASE Clear(l)
    <3>1. Runs(h, l, h)
      BY <1>1, <1>3, <2>1, SilentRuns DEF Clear
    <3> QED
      BY <1>3, <3>1
  <2>2. CASE ~Clear(l)
    <3>1. l # <<>> /\ l[n] = FEND /\ n >= 1
      BY <1>1, <1>4, <2>2, EmptySeq DEF Clear
    <3>2. PICK k \in Seq(Bytes) : l = Append(k, FEND) /\ Len(k) = n - 1 /\ \A i \in 1..(n - 1) : k[i] = l[i]
      <4> DEFINE k == [i \in 1..(n - 1) |-> l[i]]
      <4>1. n - 1 \in Nat /\ \A i \in 1..(n - 1) : i \in 1..n
        BY <3>1
      <4>2. \A i \in 1..(n - 1) : l[i] \in Bytes
        BY <1>1, <1>4, <4>1, ElementOfSeq
      <4>3. k \in Seq(Bytes) /\ Len(k) = n - 1
        BY <4>1, <4>2, SeqDef, LenProperties
      <4>4. \A i \in 1..(n - 1) : k[i] = l[i]
        OBVIOUS
      <4> HIDE DEF k
      <4>5. FEND \in Bytes
        BY DEF FEND, Bytes
      <4>6. PICK w \in Seq(Bytes) : w = Append(k, FEND) /\ Len(w) = n /\ w[n] = FEND /\ \A i \in 1..(n - 1) : w[i] = k[i]
        <5>1. Append(k, FEND) \in Seq(Bytes) /\ Len(Append(k, FEND)) = n
          BY <4>1, <4>3, <4>5, AppendProperties
        <5>2. \A i \in 1..n : Append(k, FEND)[i] = IF i = n THEN FEND ELSE k[i]
          <6>1. Len(k) + 1 = n
            BY <4>3
          <6> QED
            BY <4>3, <4>5, <6>1, AppendProperties
        <5>3. \A i \in 1..(n - 1) : i \in 1..n /\ i # n
          OBVIOUS
        <5>4. n \in 1..n
          BY <3>1
        <5> QED
          BY <5>1, <5>2, <5>3, <5>4, Zenon
      <4>7. \A i \in 1..n : w[i] = l[i]
        BY <3>1, <4>4, <4>6
      <4>8. w = l
        BY <1>1, <1>4, <4>6, <4>7, SeqEqual
      <4> QED
        BY <4>3, <4>4, <4>6, <4>8
    <3>3. \A i \in 1..Len(k) : k[i] # FEND
      BY <1>1, <1>4, <3>2
    <3>4. Runs(h, k, h)
      BY <1>3, <3>3, SilentRuns
    <3>5. FEND \in Bytes
      BY DEF FEND, Bytes
    <3>6. Runs(h, l, Took(h, FEND))
      BY <3>2, <3>4, <3>5, RunsAppend
    <3>7. Took(h, FEND) = InFrame(<<>>, <<>>)
      BY <1>3, QuietDelimiter
    <3>8. Took(h, FEND) \in Decoders
      BY <3>5, TookType
    <3>9. Quiet(Took(h, FEND)) /\ Took(h, FEND).out = <<>>
      BY <3>7 DEF Quiet, InFrame
    <3> QED
      BY <3>6, <3>8, <3>9
  <2> QED
    BY <2>1, <2>2
<1>7. Accounts(l, Sure(h, l), <<>>, 0)
  <2>1. Accounted(<<>>, z.out, 0)
    BY <1>6, AccountedNone
  <2>2. Sure(h, l) = h
    BY <1>3, SureFacts
  <2> QED
    BY <1>6, <2>1, <2>2 DEF Accounts
<1>8. Exact(l, h, <<>>)
  BY <1>6 DEF Exact
<1> QED
  BY <1>2, <1>3, <1>5, <1>7, <1>8, SubsequenceNone DEF Right

-----------------------------------------------------------------------------
(* GatewayRx *)

\* Where the decoder of the state is.
HeardMode == IF ~inFrame THEN "out" ELSE IF escaped THEN "esc" ELSE "in"

\* The decoder of the state, with what was published and what is to be.
Heard == [mode |-> HeardMode, buf |-> buf, out |-> bus \o DataOf(todo)]

\* The types of the variables.
RxTyped ==
    /\ line \in Seq(Bytes)
    /\ buf \in Seq(Bytes)
    /\ escaped \in BOOLEAN
    /\ inFrame \in BOOLEAN
    /\ sent \in Seq(Frames)
    /\ emitted \in Seq(AnyFrame)
    /\ todo \in Seq(AnyFrame)
    /\ bus \in Seq(Packets)
    /\ lost \in 0..MaxLost
    /\ dropped \in Nat
    /\ rx = "publish" => todo # <<>>

\* The inductive invariant of RxSpec.
RxInv == RxTyped /\ Right(line, Heard, DataOf(sent), DataOf(emitted), lost + dropped)

\* Frames that may be sent are frames.
LEMMA SentFrames == ASSUME NEW s \in Seq(Frames) PROVE s \in Seq(AnyFrame)
<1>1. Len(s) \in Nat /\ \A i \in 1..Len(s) : s[i] \in AnyFrame
  BY LenProperties, ElementOfSeq, FrameFacts
<1> QED
  BY <1>1, LenProperties, SeqDef

\* What the typed variables make up.
LEMMA HeardType ==
    ASSUME RxTyped
    PROVE  /\ Heard \in Decoders /\ Heard.mode = HeardMode /\ Heard.buf = buf /\ Heard.out = bus \o DataOf(todo)
           /\ DataOf(sent) \in Seq(Packets) /\ DataOf(emitted) \in Seq(Packets) /\ DataOf(todo) \in Seq(Packets)
           /\ lost + dropped \in Nat
<1>1. DataOf(sent) \in Seq(Packets) /\ DataOf(emitted) \in Seq(Packets) /\ DataOf(todo) \in Seq(Packets)
  BY SentFrames, DataType DEF RxTyped
<1>2. bus \o DataOf(todo) \in Seq(Packets)
  BY <1>1, ConcatProperties DEF RxTyped
<1>3. HeardMode \in Modes
  BY DEF HeardMode, Modes
<1>4. Heard \in Decoders
  BY <1>2, <1>3, DecoderParts DEF Heard, RxTyped
<1>5. lost + dropped \in Nat
  BY BoundsAssumption DEF RxTyped
<1>6. Heard.mode = HeardMode /\ Heard.buf = buf /\ Heard.out = bus \o DataOf(todo)
  BY DEF Heard
<1> QED
  BY <1>1, <1>4, <1>5, <1>6

\* A sequence in two parts.
LEMMA SplitAt ==
    ASSUME NEW S, NEW d \in Seq(S), NEW n \in 0..Len(d)
    PROVE  \E x, y \in Seq(S) : x = SubSeq(d, 1, n) /\ x \o y = d /\ Len(y) = Len(d) - n
<1>1. PICK l \in Nat : l = Len(d) /\ n \in 0..l
  BY LenProperties
<1>2. PICK x \in Seq(S) : x = SubSeq(d, 1, n) /\ Len(x) = n /\ \A i \in 1..n : x[i] = d[i]
  <2>1. \A i \in 1..n : i \in 1..l
    BY <1>1
  <2>2. \A i \in 1..n : d[i] \in S
    BY <1>1, <2>1, ElementOfSeq
  <2> DEFINE x == [i \in 1..n |-> d[i]]
  <2>3. SubSeq(d, 1, n) \in Seq(S)
    BY <1>1, <2>2, SubSeqProperties
  <2>4. Len(SubSeq(d, 1, n)) = n
    BY <1>1, SubSeqProperties
  <2>5. \A i \in 1..n : SubSeq(d, 1, n)[i] = d[i]
    BY <1>1, SubSeqProperties
  <2> QED
    BY <2>3, <2>4, <2>5
<1> DEFINE y == [i \in 1..(l - n) |-> d[i + n]]
<1>3. y \in Seq(S) /\ Len(y) = l - n
  <2>1. l - n \in Nat /\ \A i \in 1..(l - n) : i + n \in 1..l
    BY <1>1
  <2>2. \A i \in 1..(l - n) : d[i + n] \in S
    BY <1>1, <2>1, ElementOfSeq
  <2> QED
    BY <2>1, <2>2, SeqDef, LenProperties
<1>4. \A i \in 1..(l - n) : y[i] = d[i + n]
  OBVIOUS
<1> HIDE DEF y
<1>5. PICK w \in Seq(S) : w = x \o y
  BY <1>3, ConcatProperties
<1>6. Len(w) = l
  <2>1. Len(w) = n + (l - n)
    BY <1>2, <1>3, <1>5, ConcatProperties
  <2> QED
    BY <1>1, <2>1
<1>7. \A i \in 1..l : w[i] = d[i]
  <2>1. \A i \in 1..(n + (l - n)) : w[i] = IF i <= n THEN x[i] ELSE y[i - n]
    BY <1>2, <1>3, <1>5, ConcatProperties
  <2>2. ASSUME NEW i \in 1..l PROVE w[i] = d[i]
    <3>1. i \in 1..(n + (l - n))
      BY <1>1
    <3>2. CASE i <= n
      <4>1. i \in 1..n
        BY <3>2
      <4> QED
        BY <1>2, <2>1, <3>1, <3>2, <4>1
    <3>3. CASE ~(i <= n)
      <4>1. i - n \in 1..(l - n) /\ (i - n) + n = i
        BY <1>1, <3>3
      <4> QED
        BY <1>4, <2>1, <3>1, <3>3, <4>1
    <3> QED
      BY <3>2, <3>3
  <2> QED
    BY <2>2
<1>8. w = d
  BY <1>1, <1>6, <1>7, SeqEqual
<1> QED
  BY <1>1, <1>2, <1>3, <1>5, <1>8

\* The initial states.
LEMMA RxStart == RxInit => RxInv
<1> SUFFICES ASSUME RxInit PROVE RxInv
  OBVIOUS
<1>1. line \in Tails /\ buf = <<>> /\ escaped = FALSE /\ inFrame = FALSE /\ sent = <<>> /\ emitted = <<>> /\ lost = 0
  BY DEF RxInit, InitLine
<1>2. rx = "off" /\ todo = <<>> /\ bus = <<>> /\ dropped = 0
  BY DEF RxInit
<1>3. <<>> \in Seq(Bytes) /\ <<>> \in Seq(Frames) /\ <<>> \in Seq(AnyFrame) /\ <<>> \in Seq(Packets)
  OBVIOUS
<1>4. line \in Seq(Bytes)
  BY <1>1, TailsAssumption
<1>5. 0 \in 0..MaxLost /\ 0 \in Nat /\ 0 + 0 = 0
  BY BoundsAssumption
<1>6. RxTyped
  BY <1>1, <1>2, <1>3, <1>4, <1>5, Zenon DEF RxTyped
<1>7. <<>> \o <<>> = <<>>
  BY NoPackets, ConcatEmptySeq
<1>8. Heard = [mode |-> "out", buf |-> <<>>, out |-> <<>>]
  BY <1>1, <1>2, <1>7, DataNone DEF Heard, HeardMode
<1>9. Right(line, Heard, <<>>, <<>>, 0)
  BY <1>1, <1>8, RightTail
<1>10. lost + dropped = 0
  BY <1>1, <1>2
<1> QED
  BY <1>1, <1>6, <1>9, <1>10, DataNone DEF RxInv

\* A frame is sent.
LEMMA RxModem == ASSUME RxInv, NEW f \in Frames, Modem(f) PROVE RxInv'
<1>1. /\ line' = line \o Encode(f) /\ sent' = Append(sent, f)
      /\ UNCHANGED <<buf, escaped, inFrame, emitted, lost, rx, todo, bus, dropped>>
  BY DEF Modem, Send, decoder, task
<1>2. RxTyped /\ Right(line, Heard, DataOf(sent), DataOf(emitted), lost + dropped)
  BY DEF RxInv
<1>3. line' \in Seq(Bytes)
  <2>1. Encode(f) \in Seq(Bytes)
    BY <1>2, HeardType, EncodeRuns
  <2> QED
    BY <1>1, <1>2, <2>1, ConcatProperties DEF RxTyped
<1>4. sent' \in Seq(Frames)
  BY <1>1, <1>2, AppendProperties DEF RxTyped
<1>5. RxTyped'
  BY <1>1, <1>2, <1>3, <1>4, Zenon DEF RxTyped
<1>6. DataOf(sent') = DataOf(sent) \o Carried(f)
  <2>1. f \in AnyFrame
    BY FrameFacts
  <2>2. PICK s \in Seq(AnyFrame), r \in Seq(AnyFrame) : s = sent /\ r = <<f>>
    <3>1. <<f>> \in Seq(AnyFrame)
      BY <2>1
    <3> QED
      BY <1>2, <3>1, SentFrames DEF RxTyped
  <2>3. Append(s, f) = s \o <<f>>
    BY <2>1, <2>2, AppendIsConcat
  <2>4. DataOf(s \o r) = DataOf(s) \o DataOf(r)
    BY DataConcat
  <2>5. DataOf(<<f>>) = Carried(f)
    BY <2>1, DataOne
  <2> QED
    BY <1>1, <2>2, <2>3, <2>4, <2>5, Zenon
<1>7. Heard' = Heard
  BY <1>1, Zenon DEF Heard, HeardMode
<1>8. Right(line \o Encode(f), Heard, DataOf(sent) \o Carried(f), DataOf(emitted), lost + dropped)
  BY <1>2, HeardType, RightSend DEF RxTyped
<1>9. DataOf(emitted') = DataOf(emitted) /\ lost' + dropped' = lost + dropped
  BY <1>1, Zenon
<1> QED
  BY <1>1, <1>5, <1>6, <1>7, <1>8, <1>9, Zenon DEF RxInv

\* A byte is lost.
LEMMA RxLoses == ASSUME RxInv, LineLoses PROVE RxInv'
<1>1. /\ line # <<>> /\ lost < MaxLost /\ line' = Tail(line) /\ lost' = lost + 1
      /\ UNCHANGED <<buf, escaped, inFrame, sent, emitted, rx, todo, bus, dropped>>
  BY DEF LineLoses, Lose, decoder, task
<1>2. RxTyped /\ Right(line, Heard, DataOf(sent), DataOf(emitted), lost + dropped)
  BY DEF RxInv
<1>3. line' \in Seq(Bytes)
  BY <1>1, <1>2, HeadAndTail DEF RxTyped
<1>4. lost' \in 0..MaxLost /\ lost' + dropped' = (lost + dropped) + 1
  BY <1>1, <1>2, BoundsAssumption DEF RxTyped
<1>5. RxTyped'
  BY <1>1, <1>2, <1>3, <1>4, Zenon DEF RxTyped
<1>6. Heard' = Heard /\ DataOf(sent') = DataOf(sent) /\ DataOf(emitted') = DataOf(emitted)
  BY <1>1, Zenon DEF Heard, HeardMode
<1>7. Right(Tail(line), Heard, DataOf(sent), DataOf(emitted), (lost + dropped) + 1)
  BY <1>1, <1>2, HeardType, RightLose DEF RxTyped
<1> QED
  BY <1>1, <1>4, <1>5, <1>6, <1>7, Zenon DEF RxInv

\* A frame of the chunk is published.
LEMMA RxPublish == ASSUME RxInv, Publish PROVE RxInv'
<1>1. /\ rx = "publish" /\ bus' = bus \o DataOf(<<Head(todo)>>) /\ todo' = Tail(todo)
      /\ rx' = IF todo' = <<>> THEN "read" ELSE "publish"
      /\ UNCHANGED <<line, buf, escaped, inFrame, sent, emitted, lost, dropped>>
  BY DEF Publish, serial, decoder
<1>2. RxTyped /\ Right(line, Heard, DataOf(sent), DataOf(emitted), lost + dropped)
  BY DEF RxInv
<1>3. todo \in Seq(AnyFrame) /\ todo # <<>> /\ bus \in Seq(Packets)
  BY <1>1, <1>2 DEF RxTyped
<1>4. PICK h \in Seq(AnyFrame), t \in Seq(AnyFrame) : h = <<Head(todo)>> /\ t = Tail(todo) /\ h \o t = todo
  BY <1>3, HeadAndTail
<1>5. PICK b \in Seq(Packets), p \in Seq(Packets), q \in Seq(Packets) : b = bus /\ p = DataOf(h) /\ q = DataOf(t)
  BY <1>3, DataType
<1>6. DataOf(todo) = p \o q
  BY <1>4, <1>5, DataConcat
<1>7. bus' \in Seq(Packets)
  BY <1>1, <1>4, <1>5, ConcatProperties
<1>8. rx' = "publish" => todo' # <<>>
  BY <1>1
<1>9. RxTyped'
  BY <1>1, <1>2, <1>4, <1>7, <1>8, Zenon DEF RxTyped
<1>10. bus' \o DataOf(todo') = bus \o DataOf(todo)
  <2>1. (b \o p) \o q = b \o (p \o q)
    BY ConcatParts
  <2> QED
    BY <1>1, <1>4, <1>5, <1>6, <2>1, Zenon
<1>11. Heard' = Heard
  BY <1>1, <1>10, Zenon DEF Heard, HeardMode
<1>12. DataOf(sent') = DataOf(sent) /\ DataOf(emitted') = DataOf(emitted) /\ lost' + dropped' = lost + dropped
  BY <1>1, Zenon
<1> QED
  BY <1>1, <1>2, <1>9, <1>11, <1>12, Zenon DEF RxInv

\* What was added to a sequence.
LEMMA NewPart ==
    ASSUME NEW S, NEW a \in Seq(S), NEW g \in Seq(S)
    PROVE  SubSeq(a \o g, Len(a) + 1, Len(a \o g)) = g
<1>1. PICK m \in Nat, n \in Nat, w \in Seq(S) : m = Len(a) /\ n = Len(g) /\ w = a \o g
  BY LenProperties, ConcatProperties
<1>2. Len(w) = m + n /\ \A i \in 1..(m + n) : w[i] = IF i <= m THEN a[i] ELSE g[i - m]
  BY <1>1, ConcatProperties
<1>3. \A i \in (m + 1)..(m + n) : w[i] \in S
  <2>1. \A i \in (m + 1)..(m + n) : i \in 1..(m + n)
    OBVIOUS
  <2> QED
    BY <1>2, <2>1, ElementOfSeq
<1>4. PICK x : x = SubSeq(w, m + 1, m + n)
  OBVIOUS
<1>5. x \in Seq(S)
  BY <1>2, <1>3, <1>4, SubSeqProperties
<1>6. Len(x) = n
  <2>1. Len(x) = IF m + 1 <= m + n THEN (m + n) - (m + 1) + 1 ELSE 0
    BY <1>2, <1>4, SubSeqProperties
  <2> QED
    BY <2>1
<1>7. \A i \in 1..n : x[i] = g[i]
  <2>1. ASSUME NEW i \in 1..n PROVE x[i] = g[i]
    <3>1. i \in 1..((m + n) - (m + 1) + 1) /\ (m + 1) + i - 1 = m + i
      OBVIOUS
    <3>2. x[i] = w[m + i]
      BY <1>2, <1>4, <3>1, SubSeqProperties
    <3>3. m + i \in 1..(m + n) /\ ~(m + i <= m) /\ (m + i) - m = i
      OBVIOUS
    <3> QED
      BY <1>2, <3>2, <3>3
  <2> QED
    BY <2>1
<1>8. x = g
  BY <1>1, <1>5, <1>6, <1>7, SeqEqual
<1> QED
  BY <1>1, <1>2, <1>4, <1>8

\* What feed() adds to its result, and the decoder after it.
LEMMA FeedAdds ==
    ASSUME RxTyped, Feed
    PROVE  /\ line # <<>> /\ line' = Tail(line) /\ UNCHANGED <<sent, lost>>
           /\ buf' \in Seq(Bytes) /\ escaped' \in BOOLEAN /\ inFrame' \in BOOLEAN
           /\ \E g \in Seq(AnyFrame) :
                /\ emitted' = emitted \o g
                /\ Took(Heard, Head(line)) = [mode |-> HeardMode', buf |-> buf', out |-> Heard.out \o DataOf(g)]
<1>1. line # <<>> /\ line' = Tail(line) /\ UNCHANGED <<sent, lost>>
  BY DEF Feed
<1>2. PICK b \in Bytes : b = Head(line)
  BY <1>1, HeadAndTail DEF RxTyped
<1>3. PICK h \in Decoders : h = Heard /\ h.mode = HeardMode /\ h.buf = buf
  BY HeardType
<1>4. buf \in Seq(Bytes) /\ escaped \in BOOLEAN /\ inFrame \in BOOLEAN /\ emitted \in Seq(AnyFrame)
  BY DEF RxTyped
<1>5. h.out \in Seq(Packets)
  BY DecoderParts
<1>6. <<>> \in Seq(AnyFrame) /\ emitted \o <<>> = emitted /\ h.out \o <<>> = h.out
  BY <1>4, <1>5, ConcatEmptySeq
<1>7. CASE b = FEND
  <2>1. /\ emitted' = IF inFrame /\ buf # <<>> THEN Append(emitted, BuildFrame(buf)) ELSE emitted
        /\ buf' = <<>> /\ escaped' = FALSE /\ inFrame' = TRUE
    BY <1>2, <1>7 DEF Feed, Delimiter
  <2>2. HeardMode' = "in"
    BY <2>1 DEF HeardMode
  <2>3. buf' \in Seq(Bytes) /\ escaped' \in BOOLEAN /\ inFrame' \in BOOLEAN
    <3>1. <<>> \in Seq(Bytes)
      OBVIOUS
    <3> QED
      BY <2>1, <3>1, Zenon
  <2>4. Took(h, b) = [mode |-> "in", buf |-> <<>>, out |-> h.out \o Ended(h)]
    BY <1>7 DEF Took
  <2>5. CASE inFrame /\ buf # <<>>
    <3>1. PICK f \in AnyFrame : f = BuildFrame(buf)
      BY <1>4, <2>5, BuildType
    <3>2. PICK g \in Seq(AnyFrame) : g = <<f>>
      <4>1. <<f>> \in Seq(AnyFrame)
        BY <3>1
      <4> QED
        BY <4>1
    <3>3. ~Quiet(h)
      BY <1>3, <2>5 DEF Quiet, HeardMode
    <3>4. Ended(h) = DataOf(g)
      BY <1>3, <3>1, <3>2, <3>3 DEF Ended
    <3>5. emitted' = emitted \o g
      BY <1>4, <2>1, <2>5, <3>1, <3>2, AppendIsConcat
    <3> QED
      BY <1>1, <1>2, <1>3, <2>1, <2>2, <2>3, <2>4, <3>4, <3>5, Zenon
  <2>6. CASE ~(inFrame /\ buf # <<>>)
    <3>1. Quiet(h)
      BY <1>3, <2>6 DEF Quiet, HeardMode
    <3>2. Ended(h) = DataOf(<<>>)
      BY <3>1, DataNone DEF Ended
    <3>3. emitted' = emitted \o <<>>
      BY <1>6, <2>1, <2>6, Zenon
    <3> QED
      BY <1>1, <1>2, <1>3, <1>6, <2>1, <2>2, <2>3, <2>4, <3>2, <3>3, Zenon
  <2> QED
    BY <2>5, <2>6, Zenon
<1>8. CASE b # FEND
  <2>1. /\ \/ ~inFrame /\ buf' = buf /\ escaped' = escaped
           \/ inFrame /\ escaped /\ buf' = buf \o Unescaped(b) /\ escaped' = FALSE
           \/ inFrame /\ ~escaped /\ b = FESC /\ escaped' = TRUE /\ buf' = buf
           \/ inFrame /\ ~escaped /\ b # FESC /\ buf' = Append(buf, b) /\ escaped' = escaped
        /\ inFrame' = inFrame /\ emitted' = emitted
    BY <1>2, <1>8, Zenon DEF Feed, Content
  <2>2. HeardMode' = ModeAfter(HeardMode, b) /\ buf' = BufAfter(HeardMode, buf, b)
    <3>1. CASE ~inFrame /\ buf' = buf /\ escaped' = escaped
      <4>1. HeardMode = "out" /\ HeardMode' = "out"
        BY <2>1, <3>1 DEF HeardMode
      <4> QED
        BY <3>1, <4>1 DEF ModeAfter, BufAfter
    <3>2. CASE inFrame /\ escaped /\ buf' = buf \o Unescaped(b) /\ escaped' = FALSE
      <4>1. HeardMode = "esc" /\ HeardMode' = "in"
        BY <2>1, <3>2 DEF HeardMode
      <4> QED
        BY <3>2, <4>1 DEF ModeAfter, BufAfter
    <3>3. CASE inFrame /\ ~escaped /\ b = FESC /\ escaped' = TRUE /\ buf' = buf
      <4>1. HeardMode = "in" /\ HeardMode' = "esc"
        BY <2>1, <3>3 DEF HeardMode
      <4> QED
        BY <3>3, <4>1 DEF ModeAfter, BufAfter
    <3>4. CASE inFrame /\ ~escaped /\ b # FESC /\ buf' = Append(buf, b) /\ escaped' = escaped
      <4>1. HeardMode = "in" /\ HeardMode' = "in"
        BY <2>1, <3>4 DEF HeardMode
      <4> QED
        BY <3>4, <4>1 DEF ModeAfter, BufAfter
    <3> QED
      BY <2>1, <3>1, <3>2, <3>3, <3>4, Zenon
  <2>3. buf' \in Seq(Bytes)
    <3>1. HeardMode \in Modes
      BY <1>3, DecoderParts
    <3> QED
      BY <1>4, <2>2, <3>1, AfterType
  <2>4. escaped' \in BOOLEAN /\ inFrame' \in BOOLEAN
    BY <1>4, <2>1, Zenon
  <2>5. Took(h, b) = [mode |-> HeardMode', buf |-> buf', out |-> h.out]
    BY <1>3, <1>8, <2>2 DEF Took
  <2>6. emitted' = emitted \o <<>> /\ h.out \o DataOf(<<>>) = h.out
    BY <1>6, <2>1, DataNone, Zenon
  <2> QED
    BY <1>1, <1>2, <1>3, <1>6, <2>3, <2>4, <2>5, <2>6, Zenon
<1> QED
  BY <1>7, <1>8, Zenon

\* A byte of a chunk is read.
LEMMA RxReadByte == ASSUME RxInv, NEW last \in BOOLEAN, ReadByte(last) PROVE RxInv'
<1>1. /\ Feed /\ todo' = todo \o SubSeq(emitted', Len(emitted) + 1, Len(emitted'))
      /\ rx' = CASE ~last -> "feed" [] last /\ todo' = <<>> -> "read" [] OTHER -> "publish"
      /\ bus' = bus /\ dropped' = dropped
  BY DEF ReadByte
<1>2. RxTyped /\ Right(line, Heard, DataOf(sent), DataOf(emitted), lost + dropped)
  BY DEF RxInv
<1>3. /\ line # <<>> /\ line' = Tail(line) /\ UNCHANGED <<sent, lost>>
      /\ buf' \in Seq(Bytes) /\ escaped' \in BOOLEAN /\ inFrame' \in BOOLEAN
  BY <1>1, <1>2, FeedAdds
<1>4. PICK g \in Seq(AnyFrame) :
        /\ emitted' = emitted \o g
        /\ Took(Heard, Head(line)) = [mode |-> HeardMode', buf |-> buf', out |-> Heard.out \o DataOf(g)]
  BY <1>1, <1>2, FeedAdds
<1>5. PICK a \in Seq(AnyFrame), t \in Seq(AnyFrame), b \in Seq(Packets) : a = emitted /\ t = todo /\ b = bus
  BY <1>2 DEF RxTyped
<1>6. SubSeq(a \o g, Len(a) + 1, Len(a \o g)) = g
  BY NewPart
<1>7. emitted' = a \o g /\ todo' = t \o g
  BY <1>1, <1>4, <1>5, <1>6, Zenon
<1>8. emitted' \in Seq(AnyFrame) /\ todo' \in Seq(AnyFrame)
  BY <1>7, ConcatProperties
<1>9. rx' = "publish" => todo' # <<>>
  BY <1>1
<1>10. line' \in Seq(Bytes)
  BY <1>2, <1>3, HeadAndTail DEF RxTyped
<1>11. RxTyped'
  BY <1>1, <1>2, <1>3, <1>8, <1>9, <1>10, Zenon DEF RxTyped
<1>12. PICK x \in Seq(Packets), y \in Seq(Packets) : x = DataOf(g) /\ y = DataOf(t)
  BY DataType
<1>13. DataOf(emitted') = DataOf(emitted) \o x /\ DataOf(todo') = y \o x
  BY <1>5, <1>7, <1>12, DataConcat
<1>14. bus' \o DataOf(todo') = Heard.out \o x
  <2>1. (b \o y) \o x = b \o (y \o x)
    BY ConcatParts
  <2>2. Heard.out = bus \o DataOf(todo)
    BY <1>2, HeardType
  <2> QED
    BY <1>1, <1>5, <1>12, <1>13, <2>1, <2>2, Zenon
<1>15. Heard' = Took(Heard, Head(line))
  BY <1>4, <1>12, <1>14, Zenon DEF Heard
<1>16. Took(Heard, Head(line)).out = Heard.out \o x
  BY <1>4, <1>12
<1>17. Right(Tail(line), Took(Heard, Head(line)), DataOf(sent), DataOf(emitted) \o x, lost + dropped)
  <2>1. line \in Seq(Bytes)
    BY <1>2 DEF RxTyped
  <2> QED
    BY <1>2, <1>3, <1>16, <2>1, HeardType, RightFeed
<1>18. DataOf(sent') = DataOf(sent) /\ lost' + dropped' = lost + dropped
  BY <1>1, <1>3, Zenon
<1> QED
  BY <1>3, <1>11, <1>13, <1>15, <1>17, <1>18, Zenon DEF RxInv

\* What a task leaves behind.
LEMMA StopLeaves ==
    ASSUME RxTyped, Stop
    PROVE  /\ rx' = "off" /\ todo' = <<>> /\ bus' \in Seq(Packets) /\ bus' \o DataOf(todo') = bus'
           /\ \E y \in Seq(Packets) : Heard.out = bus' \o y /\ dropped' = dropped + Len(y)
<1>1. rx' = "off" /\ todo' = <<>>
  BY DEF Stop
<1>2. PICK t \in Seq(AnyFrame), b \in Seq(Packets), d \in Seq(Packets) : t = todo /\ b = bus /\ d = DataOf(t)
  BY DataType DEF RxTyped
<1>3. PICK n \in {0, IF t = <<>> THEN 0 ELSE Len(DataOf(<<Head(t)>>))} :
        bus' = b \o SubSeq(d, 1, n) /\ dropped' = dropped + Len(d) - n
  BY <1>2 DEF Stop
<1>4. n \in 0..Len(d)
  <2>1. 0 \in 0..Len(d)
    BY LenProperties
  <2>2. ASSUME t # <<>> PROVE Len(DataOf(<<Head(t)>>)) \in 0..Len(d)
    <3>1. PICK p \in Seq(AnyFrame), q \in Seq(AnyFrame) : p = <<Head(t)>> /\ q = Tail(t) /\ p \o q = t
      BY <2>2, HeadAndTail
    <3>2. PICK x \in Seq(Packets), y \in Seq(Packets) : x = DataOf(p) /\ y = DataOf(q)
      BY DataType
    <3>3. d = x \o y
      BY <1>2, <3>1, <3>2, DataConcat
    <3>4. Len(x) \in Nat /\ Len(y) \in Nat /\ Len(d) = Len(x) + Len(y)
      BY <3>3, LenProperties, ConcatProperties
    <3>5. Len(x) \in 0..Len(d)
      BY <3>4
    <3> QED
      BY <3>1, <3>2, <3>5
  <2> QED
    BY <1>3, <2>1, <2>2
<1>5. PICK x \in Seq(Packets), y \in Seq(Packets) : x = SubSeq(d, 1, n) /\ x \o y = d /\ Len(y) = Len(d) - n
  BY <1>4, SplitAt
<1>6. bus' \in Seq(Packets)
  BY <1>3, <1>5, ConcatProperties
<1>7. Heard.out = bus' \o y
  <2>1. (b \o x) \o y = b \o (x \o y)
    BY ConcatParts
  <2>2. Heard.out = bus \o DataOf(todo)
    BY HeardType
  <2> QED
    BY <1>2, <1>3, <1>5, <2>1, <2>2, Zenon
<1>8. dropped' = dropped + Len(y)
  <2>1. PICK l \in Nat, k \in Nat : l = Len(d) /\ k = Len(y) /\ k = l - n
    BY <1>5, LenProperties
  <2>2. dropped \in Nat /\ n \in 0..l
    BY <1>4, <2>1 DEF RxTyped
  <2>3. dropped' = dropped + l - n
    BY <1>3, <2>1
  <2>4. dropped + l - n = dropped + k
    BY <2>1, <2>2
  <2> QED
    BY <2>1, <2>3, <2>4
<1>9. bus' \o DataOf(todo') = bus'
  BY <1>1, <1>6, DataNone, ConcatEmptySeq
<1> QED
  BY <1>1, <1>6, <1>7, <1>8, <1>9

\* The first part of a sequence is a prefix of it.
LEMMA PrefixOfConcat == ASSUME NEW S, NEW a \in Seq(S), NEW x \in Seq(S) PROVE IsPrefix(a, a \o x)
<1>1. PICK m \in Nat, n \in Nat, w \in Seq(S) : m = Len(a) /\ n = Len(x) /\ w = a \o x
  BY LenProperties, ConcatProperties
<1>2. Len(w) = m + n /\ \A i \in 1..(m + n) : w[i] = IF i <= m THEN a[i] ELSE x[i - m]
  BY <1>1, ConcatProperties
<1>3. SubSeq(a, 1, m) = a
  BY <1>1, PrefixFacts
<1>4. PICK p \in Seq(S) : p = SubSeq(w, 1, m) /\ Len(p) = m
  <2>1. m \in 0..Len(w)
    BY <1>2
  <2>2. \A j \in 0..Len(w) : SubSeq(w, 1, j) \in Seq(S) /\ Len(SubSeq(w, 1, j)) = j
    BY PrefixFacts
  <2> QED
    BY <2>1, <2>2, Zenon
<1>5. \A i \in 1..m : p[i] = a[i]
  <2>1. ASSUME NEW i \in 1..m PROVE p[i] = a[i]
    <3>1. \A j \in 1..m : w[j] \in S
      <4>1. \A j \in 1..m : j \in 1..Len(w)
        BY <1>2
      <4> QED
        BY <4>1, ElementOfSeq
    <3>2. i \in 1..(m - 1 + 1) /\ 1 + i - 1 = i /\ i \in 1..(m + n) /\ i <= m
      OBVIOUS
    <3>3. p[i] = w[i]
      BY <1>4, <3>1, <3>2, SubSeqProperties
    <3> QED
      BY <1>2, <3>2, <3>3
  <2> QED
    BY <2>1
<1>6. p = a
  BY <1>1, <1>4, <1>5, SeqEqual
<1>7. m <= m + n
  OBVIOUS
<1> QED
  BY <1>1, <1>2, <1>3, <1>4, <1>6, <1>7 DEF IsPrefix

\* No more entries are common than a sequence has.
LEMMA CommonBound ==
    ASSUME NEW S, NEW s \in Seq(S), NEW t \in Seq(S), NEW k \in Nat, Common(s, t, k)
    PROVE  k <= Len(s)
<1>1. PICK l \in Nat, m \in Nat : l = Len(s) /\ m = Len(t)
  BY LenProperties
<1>2. PICK g \in [1..k -> 1..l] : Increasing(g)
  BY <1>1, CommonIs DEF Match
<1>3. CASE k = 0
  BY <1>1, <1>3
<1>4. CASE k # 0
  <2>1. 1 \in 1..k /\ k \in 1..k /\ 1 <= k
    BY <1>4
  <2>2. g \in [1..k -> Nat]
    BY <1>2
  <2>3. g[k] >= g[1] + (k - 1)
    BY <1>2, <2>1, <2>2, Gaps
  <2>4. g[k] \in 1..l /\ g[1] \in 1..l
    BY <1>2, <2>1
  <2> QED
    BY <1>1, <2>3, <2>4
<1> QED
  BY <1>3, <1>4

\* The connection is lost, and the decoder stays.
LEMMA RxMqttLost == ASSUME RxInv, MqttLost PROVE RxInv'
<1>1. Stop /\ UNCHANGED <<line, buf, escaped, inFrame, sent, emitted, lost>>
  BY DEF MqttLost, serial, decoder
<1>2. RxTyped /\ Right(line, Heard, DataOf(sent), DataOf(emitted), lost + dropped)
  BY DEF RxInv
<1>3. rx' = "off" /\ todo' = <<>> /\ bus' \in Seq(Packets) /\ bus' \o DataOf(todo') = bus'
  BY <1>1, <1>2, StopLeaves
<1>4. PICK y \in Seq(Packets) : Heard.out = bus' \o y /\ dropped' = dropped + Len(y)
  BY <1>1, <1>2, StopLeaves
<1>5. dropped' \in Nat /\ lost' + dropped' = (lost + dropped) + Len(y)
  <2>1. Len(y) \in Nat /\ dropped \in Nat /\ lost \in Nat
    BY <1>2, LenProperties, BoundsAssumption DEF RxTyped
  <2> QED
    BY <1>1, <1>4, <2>1
<1>6. todo' \in Seq(AnyFrame) /\ (rx' = "publish" => todo' # <<>>)
  BY <1>3
<1>7. RxTyped'
  BY <1>1, <1>2, <1>3, <1>5, <1>6, Zenon DEF RxTyped
<1>8. Heard' = [mode |-> HeardMode, buf |-> buf, out |-> bus']
  BY <1>1, <1>3, Zenon DEF Heard, HeardMode
<1>9. PICK h \in Decoders : h = Heard /\ h.mode = HeardMode /\ h.buf = buf
  BY <1>2, HeardType
<1>10. PICK g \in Decoders : g = Heard'
  <2>1. HeardMode \in Modes /\ buf \in Seq(Bytes)
    BY <1>9, DecoderParts
  <2> QED
    BY <1>3, <1>8, <2>1, DecoderParts
<1>11. SameHold(h, g) /\ h.out = g.out \o y
  BY <1>4, <1>8, <1>9, <1>10 DEF SameHold
<1>12. Right(line, g, DataOf(sent), DataOf(emitted), (lost + dropped) + Len(y))
  <2>1. line \in Seq(Bytes)
    BY <1>2 DEF RxTyped
  <2> QED
    BY <1>2, <1>9, <1>11, <2>1, HeardType, RightDrop
<1> QED
  BY <1>1, <1>5, <1>7, <1>10, <1>12, Zenon DEF RxInv

\* The process ends, and the decoder with it.
LEMMA RxFails == ASSUME RxInv, RxOperationFails PROVE RxInv'
<1>1. /\ Stop /\ lost < MaxLost /\ lost' = lost + 1 /\ buf' = <<>> /\ escaped' = FALSE /\ inFrame' = FALSE
      /\ UNCHANGED <<line, sent, emitted>>
  BY DEF RxOperationFails, NewDecoder
<1>2. RxTyped /\ Right(line, Heard, DataOf(sent), DataOf(emitted), lost + dropped)
  BY DEF RxInv
<1>3. rx' = "off" /\ todo' = <<>> /\ bus' \in Seq(Packets) /\ bus' \o DataOf(todo') = bus'
  BY <1>1, <1>2, StopLeaves
<1>4. PICK y \in Seq(Packets) : Heard.out = bus' \o y /\ dropped' = dropped + Len(y)
  BY <1>1, <1>2, StopLeaves
<1>5. dropped' \in Nat /\ lost' \in 0..MaxLost /\ lost' + dropped' = (lost + dropped) + (Len(y) + 1)
  <2>1. Len(y) \in Nat /\ dropped \in Nat /\ lost \in 0..MaxLost
    BY <1>2, LenProperties DEF RxTyped
  <2> QED
    BY <1>1, <1>4, <2>1, BoundsAssumption
<1>6. todo' \in Seq(AnyFrame) /\ (rx' = "publish" => todo' # <<>>) /\ buf' \in Seq(Bytes)
  BY <1>1, <1>3
<1>7. RxTyped'
  BY <1>1, <1>2, <1>3, <1>5, <1>6, Zenon DEF RxTyped
<1>8. Heard' = [mode |-> "out", buf |-> <<>>, out |-> bus']
  BY <1>1, <1>3, Zenon DEF Heard, HeardMode
<1>9. PICK g \in Decoders : g = Heard'
  <2>1. "out" \in Modes /\ <<>> \in Seq(Bytes)
    BY DEF Modes
  <2> QED
    BY <1>3, <1>8, <2>1, DecoderParts
<1>10. g.mode = "out" /\ Heard.out = g.out \o y
  BY <1>4, <1>8, <1>9
<1>11. Right(line, g, DataOf(sent), DataOf(emitted), (lost + dropped) + (Len(y) + 1))
  <2>1. line \in Seq(Bytes)
    BY <1>2 DEF RxTyped
  <2> QED
    BY <1>2, <1>10, <2>1, HeardType, RightRestart
<1> QED
  BY <1>1, <1>5, <1>7, <1>9, <1>11, Zenon DEF RxInv

\* Steps that only move the task.
LEMMA RxQuietStep ==
    ASSUME RxInv, UNCHANGED <<line, buf, escaped, inFrame, sent, emitted, lost, todo, bus, dropped>>,
           rx' = "publish" => rx = "publish"
    PROVE  RxInv'
<1>1. RxTyped /\ Right(line, Heard, DataOf(sent), DataOf(emitted), lost + dropped)
  BY DEF RxInv
<1>2. RxTyped'
  BY <1>1, Zenon DEF RxTyped
<1>3. Heard' = Heard
  BY Zenon DEF Heard, HeardMode
<1> QED
  BY <1>1, <1>2, <1>3, Zenon DEF RxInv

\* Every step preserves the invariant.
LEMMA RxStep == RxInv /\ [RxNext]_rxVars => RxInv'
<1> SUFFICES ASSUME RxInv, [RxNext]_rxVars PROVE RxInv'
  OBVIOUS
<1>1. ASSUME NEW f \in Frames, Modem(f) PROVE RxInv'
  BY <1>1, RxModem
<1>2. CASE LineLoses
  BY <1>2, RxLoses
<1>3. CASE RxConnects
  <2>1. rx' = "read" /\ UNCHANGED <<line, buf, escaped, inFrame, sent, emitted, lost, todo, bus, dropped>>
    BY <1>3 DEF RxConnects, serial, decoder
  <2> QED
    BY <2>1, RxQuietStep
<1>4. ASSUME NEW last \in BOOLEAN, ReadByte(last) PROVE RxInv'
  BY <1>4, RxReadByte
<1>5. CASE Publish
  BY <1>5, RxPublish
<1>6. CASE RxSerialEOF
  <2>1. rx' = "returned" /\ UNCHANGED <<line, buf, escaped, inFrame, sent, emitted, lost, todo, bus, dropped>>
    BY <1>6 DEF RxSerialEOF, serial, decoder
  <2> QED
    BY <2>1, RxQuietStep
<1>7. CASE MqttLost
  BY <1>7, RxMqttLost
<1>8. CASE RxOperationFails
  BY <1>8, RxFails
<1>9. CASE UNCHANGED rxVars
  <2>1. rx' = rx /\ UNCHANGED <<line, buf, escaped, inFrame, sent, emitted, lost, todo, bus, dropped>>
    BY <1>9 DEF rxVars, serial, decoder, task
  <2> QED
    BY <2>1, RxQuietStep
<1> QED
  BY <1>1, <1>2, <1>3, <1>4, <1>5, <1>6, <1>7, <1>8, <1>9 DEF RxNext

\* The invariant holds in every behaviour of the reader.
THEOREM RxInvariant == RxSpec => []RxInv
<1> QED
  BY RxStart, RxStep, PTL DEF RxSpec

\* The line and the buffer hold bytes, and what feed() returns is a frame
\* that encode() accepts.
THEOREM KissTypeCorrect == RxSpec => []KissTypeOK
<1>1. RxInv => KissTypeOK
  <2> SUFFICES ASSUME RxInv PROVE KissTypeOK
    OBVIOUS
  <2>1. RxTyped
    BY DEF RxInv
  <2>2. ASSUME NEW i \in DOMAIN emitted PROVE TypeByte(emitted[i]) \in Bytes /\ emitted[i].data \in Seq(Bytes)
    <3>1. PICK f \in AnyFrame : f = emitted[i]
      <4>1. emitted \in Seq(AnyFrame) /\ i \in 1..Len(emitted)
        BY <2>1, LenProperties DEF RxTyped
      <4> QED
        BY <4>1, ElementOfSeq
    <3>2. f.port \in 0..15 /\ f.command \in (0..15) \cup {RETURN} /\ f.data \in Seq(Bytes)
      BY DEF AnyFrame
    <3>3. TypeByte(f) \in 0..255
      <4>1. \A p, c \in 0..15 : p * 16 + c \in 0..255
        OBVIOUS
      <4>2. CASE f.command = RETURN
        <5>1. TypeByte(f) = 255
          BY <4>2 DEF TypeByte
        <5> QED
          BY <5>1
      <4>3. CASE f.command # RETURN
        <5>1. TypeByte(f) = f.port * 16 + f.command
          BY <4>3 DEF TypeByte
        <5>2. f.command \in 0..15
          BY <3>2, <4>3
        <5> QED
          BY <3>2, <4>1, <5>1, <5>2, Zenon
      <4> QED
        BY <4>2, <4>3
    <3> QED
      BY <3>1, <3>2, <3>3 DEF Bytes
  <2> QED
    BY <2>1, <2>2, Zenon DEF RxTyped, KissTypeOK
<1> QED
  BY <1>1, RxInvariant, PTL

\* The bus carries what the decoder returned, in order and each packet once.
THEOREM BusOrdered == RxSpec => []BusInOrder
<1>1. RxInv => BusInOrder
  <2> SUFFICES ASSUME RxInv PROVE BusInOrder
    OBVIOUS
  <2>1. RxTyped /\ Right(line, Heard, DataOf(sent), DataOf(emitted), lost + dropped)
    BY DEF RxInv
  <2>2. PICK b \in Seq(Packets), t \in Seq(Packets), e \in Seq(Packets) :
          b = bus /\ t = DataOf(todo) /\ e = DataOf(emitted) /\ Heard.out = b \o t
    BY <2>1, HeardType DEF RxTyped
  <2>3. Subsequence(b \o t, e)
    BY <2>1, <2>2 DEF Right
  <2>4. Subsequence(b, e)
    BY <2>3, SubsequenceCut
  <2> QED
    BY <2>2, <2>4 DEF BusInOrder
<1> QED
  BY <1>1, RxInvariant, PTL

\* Without a lost byte and a failed publish the bus gets exactly what the
\* modem sent, however often the gateway connects again.
THEOREM ReconnectFree == RxSpec => []ReconnectCostsNothing
<1>1. RxInv => ReconnectCostsNothing
  <2> SUFFICES ASSUME RxInv, lost = 0, dropped = 0
               PROVE  /\ IsPrefix(bus, DataOf(sent))
                      /\ line = <<>> /\ todo = <<>> => bus = DataOf(sent)
    BY DEF ReconnectCostsNothing
  <2>1. RxTyped /\ Right(line, Heard, DataOf(sent), DataOf(emitted), lost + dropped)
    BY DEF RxInv
  <2>2. lost + dropped = 0
    OBVIOUS
  <2>3. PICK b \in Seq(Packets), t \in Seq(Packets), d \in Seq(Packets), h \in Decoders :
          b = bus /\ t = DataOf(todo) /\ d = DataOf(sent) /\ h = Heard /\ h.out = b \o t
    BY <2>1, HeardType DEF RxTyped
  <2>4. PICK z \in Decoders : Runs(h, line, z) /\ z.out = d
    BY <2>1, <2>2, <2>3 DEF Right, Exact
  <2>5. IsPrefix(b, d)
    <3>1. line \in Seq(Bytes)
      BY <2>1 DEF RxTyped
    <3>2. PICK w \in Seq(Packets) : z.out = h.out \o w
      BY <2>4, <3>1, RunsGrow
    <3>3. PICK x \in Seq(Packets) : x = t \o w
      BY ConcatProperties
    <3>4. (b \o t) \o w = b \o (t \o w)
      BY ConcatParts
    <3>5. d = b \o x
      BY <2>3, <2>4, <3>2, <3>3, <3>4, Zenon
    <3> QED
      BY <3>5, PrefixOfConcat
  <2>6. ASSUME line = <<>>, todo = <<>> PROVE b = d
    <3>1. z = h
      BY <2>4, <2>6, RunsNone
    <3>2. b \o <<>> = b
      BY ConcatEmptySeq
    <3> QED
      BY <2>3, <2>4, <2>6, <3>1, <3>2, DataNone, Zenon
  <2> QED
    BY <2>3, <2>5, <2>6
<1> QED
  BY <1>1, RxInvariant, PTL

\* Every packet that does not reach the bus is paid for: by a byte that the
\* line lost, a decoder that went with its process, or a publish that failed.
THEOREM LossIsAccounted == RxSpec => []LossAccounted
<1>1. RxInv => LossAccounted
  <2> SUFFICES ASSUME RxInv, line = <<>>, todo = <<>>
               PROVE  \E k \in 0..Len(DataOf(sent)) :
                        Common(DataOf(sent), bus, k) /\ k + lost + dropped >= Len(DataOf(sent))
    BY DEF LossAccounted
  <2>1. RxTyped /\ Right(line, Heard, DataOf(sent), DataOf(emitted), lost + dropped)
    BY DEF RxInv
  <2>2. PICK b \in Seq(Packets), d \in Seq(Packets), h \in Decoders :
          b = bus /\ d = DataOf(sent) /\ h = Heard /\ h.out = b
    <3>1. bus \o DataOf(todo) = bus
      BY <2>1, DataNone, ConcatEmptySeq DEF RxTyped
    <3> QED
      BY <2>1, <3>1, HeardType DEF RxTyped
  <2>3. PICK n \in Nat, l \in Nat, p \in Nat : n = lost + dropped /\ l = lost /\ p = dropped
    BY <2>1, HeardType, BoundsAssumption DEF RxTyped
  <2>4. PICK v \in Decoders : v = Sure(h, line) /\ v.out = b
    BY <2>2, SureFacts
  <2>5. PICK z \in Decoders : Runs(v, <<>>, z) /\ Accounted(d, z.out, n)
    BY <2>1, <2>2, <2>3, <2>4 DEF Right, Accounts
  <2>6. z = v
    BY <2>5, RunsNone
  <2>7. PICK k \in Nat : Common(d, b, k) /\ k + n >= Len(d)
    BY <2>4, <2>5, <2>6 DEF Accounted
  <2>8. k <= Len(d)
    BY <2>7, CommonBound
  <2>9. k \in 0..Len(d) /\ k + l + p >= Len(d)
    BY <2>3, <2>7, <2>8, LenProperties
  <2> QED
    BY <2>2, <2>3, <2>7, <2>9
<1> QED
  BY <1>1, RxInvariant, PTL
=============================================================================
