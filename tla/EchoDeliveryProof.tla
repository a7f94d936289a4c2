------------------------- MODULE EchoDeliveryProof -------------------------
(***************************************************************************)
(* Proofs about EchoDelivery, for every number of replies, nodes and       *)
(* attempts.                                                               *)
(***************************************************************************)
EXTENDS EchoDelivery, TLAPS

-----------------------------------------------------------------------------
(* Facts about the attempts and their hashes. *)

\* The attempts are numbers; the first is one, and so is a further one that a
\* task goes on to.
LEMMA AttemptFacts ==
    /\ Attempts \subseteq Nat
    /\ 0 \in Attempts
    /\ \A p \in Replies : \A n \in Attempts : n + 1 < AttemptCount(p) => n + 1 \in Attempts
BY ReplyAssumption DEF Attempts, AttemptCount, FirstFlood

\* No two attempts of one reply have the same hash: where the attempt number
\* wraps around, the timestamp moves on.
LEMMA AttemptsDiffer ==
    ASSUME NEW p \in Replies, NEW m \in Nat, NEW n \in Nat, AckHash(p, m) = AckHash(p, n)
    PROVE  m = n
<1>1. Stamp[p] \in Nat
  BY ReplyAssumption
<1>2. Stamp[p] + m \div 4 = Stamp[p] + n \div 4 /\ m % 4 = n % 4
  BY DEF AckHash, WireStamp
<1>3. m \div 4 \in Nat /\ n \div 4 \in Nat
  OBVIOUS
<1>4. m \div 4 = n \div 4
  BY <1>1, <1>2, <1>3
<1> QED
  BY <1>2, <1>4

-----------------------------------------------------------------------------
(* The inductive invariant. *)

\* Only replies are sent and answered, and an answer tells of an attempt that
\* its node has received.
AirSound ==
    /\ \A m \in down : m.type = "txt" => m.task \in Replies /\ m.n \in Attempts
    /\ \A m \in up : /\ m.task \in Replies /\ m.n \in Attempts
                     /\ <<m.task, m.n>> \in received

\* A task is listed under the hash of its current attempt only, and only while
\* it waits.
WaiterSound ==
    \A h \in AllHashes : \A p \in waiters[h] : pc[p] = "waiting" /\ CurrentHash(p) = h

\* Some attempt with this hash has been received by its node.
HashReceived(h) ==
    \E q \in Replies : \E n \in Attempts : AckHash(q, n) = h /\ <<q, n>> \in received

\* A task whose future has a result, or that has ended acked, was told so by
\* the node that received an attempt with the same hash.
ResultSound ==
    \A p \in Replies : fut[p] = "set" \/ pc[p] = "acked" => HashReceived(CurrentHash(p))

IInv == TypeOK /\ AirSound /\ WaiterSound /\ ResultSound

\* The hash that a task waits for is a key of _ack_waiters.
LEMMA CurrentHashType == ASSUME TypeOK, NEW p \in Replies PROVE CurrentHash(p) \in AllHashes
BY DEF TypeOK, CurrentHash, AllHashes

\* A server that has just started is sound.
LEMMA InitSound == Init => IInv
BY AttemptFacts DEF Init, IInv, TypeOK, AirSound, WaiterSound, ResultSound

\* Every step of a reply keeps the invariant.
LEMMA ReplyStepSound == ASSUME IInv, NEW p \in Replies, ReplyStep(p) PROVE IInv'
<1> USE DEF Active, Ended
<1>a. TypeOK /\ AirSound /\ WaiterSound /\ ResultSound
  BY DEF IInv
<1>b. CurrentHash(p) \in AllHashes
  BY <1>a, CurrentHashType
<1>c. attempt[p] \in Attempts
  BY <1>a DEF TypeOK
<1>1. CASE Start(p)
  BY <1>1, <1>a DEF Start, IInv, TypeOK, AirSound, WaiterSound, ResultSound, HashReceived, CurrentHash
<1>2. CASE Transmit(p)
  <2>1. down' = down \cup {[type |-> "txt", task |-> p, n |-> attempt[p],
                            flood |-> attempt[p] >= FirstFlood(p)]}
    BY <1>2 DEF Transmit
  <2>2. AirSound'
    BY <1>2, <1>a, <1>c, <2>1 DEF AirSound, Transmit
  <2> QED
    BY <1>2, <1>a, <2>2 DEF Transmit, IInv, TypeOK, WaiterSound, ResultSound, HashReceived, CurrentHash
<1>3. CASE PublishFails(p)
  BY <1>3, <1>a
  DEF PublishFails, IInv, TypeOK, AirSound, WaiterSound, ResultSound, HashReceived, CurrentHash
<1>4. CASE RegisterWaiter(p)
  <2>1. TypeOK'
    BY <1>4, <1>a, <1>b DEF RegisterWaiter, TypeOK
  <2>2. WaiterSound'
    BY <1>4, <1>a, <1>b DEF RegisterWaiter, TypeOK, WaiterSound, CurrentHash
  <2>3. ResultSound'
    BY <1>4, <1>a DEF RegisterWaiter, TypeOK, ResultSound, HashReceived, CurrentHash
  <2> QED
    BY <1>4, <1>a, <2>1, <2>2, <2>3 DEF RegisterWaiter, IInv, AirSound
<1>5. CASE Timeout(p)
  BY <1>5, <1>a
  DEF Timeout, IInv, TypeOK, AirSound, WaiterSound, ResultSound, HashReceived, CurrentHash
<1>6. CASE Resume(p)
  <2> DEFINE retry == fut[p] # "set" /\ NextAttempt(p) < AttemptCount(p)
  <2>1. retry => NextAttempt(p) \in Attempts
    BY <1>c, AttemptFacts DEF NextAttempt
  <2>2. TypeOK'
    <3>1. waiters' \in [AllHashes -> SUBSET Replies]
      BY <1>6, <1>a, <1>b DEF Resume, TypeOK
    <3>2. attempt' \in [Replies -> Attempts]
      BY <1>6, <1>a, <1>c, <2>1 DEF Resume, TypeOK
    <3>3. pc' \in [Replies -> {"idle"} \cup Active \cup Ended]
      BY <1>6, <1>a DEF Resume, TypeOK
    <3> QED
      BY <1>6, <1>a, <3>1, <3>2, <3>3 DEF Resume, TypeOK
  <2>3. \A q \in Replies \ {p} : pc'[q] = pc[q] /\ attempt'[q] = attempt[q] /\ fut'[q] = fut[q]
    BY <1>6, <1>a DEF Resume, TypeOK
  <2>4. \A q \in Replies \ {p} : CurrentHash(q)' = CurrentHash(q)
    BY <2>3 DEF CurrentHash
  <2>5. WaiterSound'
    <3>1. SUFFICES ASSUME NEW h \in AllHashes, NEW q \in waiters'[h]
                   PROVE  pc'[q] = "waiting" /\ CurrentHash(q)' = h
      BY DEF WaiterSound
    <3>2. q \in waiters[h] /\ (h = CurrentHash(p) => q # p)
      BY <1>6, <1>a, <1>b DEF Resume, TypeOK
    <3>3. pc[q] = "waiting" /\ CurrentHash(q) = h /\ q \in Replies
      BY <3>2, <1>a DEF WaiterSound, TypeOK
    <3>4. q # p
      BY <3>2, <3>3
    <3> QED
      BY <2>3, <2>4, <3>3, <3>4
  <2>6. ResultSound'
    <3>1. received' = received /\ fut'[p] = "none"
      BY <1>6, <1>a DEF Resume, TypeOK
    <3>2. ASSUME pc'[p] = "acked" PROVE fut[p] = "set" /\ CurrentHash(p)' = CurrentHash(p)
      <4>1. fut[p] = "set"
        BY <1>6, <1>a, <3>2 DEF Resume, TypeOK
      <4>2. attempt'[p] = attempt[p]
        BY <1>6, <1>a, <4>1 DEF Resume, TypeOK
      <4> QED
        BY <4>1, <4>2 DEF CurrentHash
    <3> QED
      BY <1>a, <2>3, <2>4, <3>1, <3>2 DEF ResultSound, HashReceived
  <2> QED
    BY <1>6, <1>a, <2>2, <2>5, <2>6 DEF Resume, IInv, AirSound
<1> QED
  BY <1>1, <1>2, <1>3, <1>4, <1>5, <1>6 DEF ReplyStep

\* So does every answer that arrives, on either side, and a crash.
LEMMA NextSound == IInv /\ [Next]_vars => IInv'
<1> SUFFICES ASSUME IInv, [Next]_vars PROVE IInv'
  OBVIOUS
<1>a. TypeOK /\ AirSound /\ WaiterSound /\ ResultSound
  BY DEF IInv
<1>1. ASSUME NEW p \in Replies, ReplyStep(p) PROVE IInv'
  BY <1>1, ReplyStepSound
<1>2. ASSUME NEW m \in up, HandleAck(m) PROVE IInv'
  <2> DEFINE h == AckHash(m.task, m.n)
  <2>1. m.task \in Replies /\ m.n \in Attempts /\ <<m.task, m.n>> \in received
    BY <1>a DEF AirSound
  <2>2. h \in AllHashes /\ HashReceived(h)
    BY <2>1 DEF AllHashes, HashReceived
  <2>3. TypeOK'
    BY <1>2, <1>a, <2>2 DEF HandleAck, TypeOK
  <2>4. WaiterSound'
    BY <1>2, <1>a, <2>2 DEF HandleAck, TypeOK, WaiterSound, CurrentHash
  <2>5. ResultSound'
    <3>1. SUFFICES ASSUME NEW p \in Replies, fut'[p] = "set" \/ pc'[p] = "acked"
                   PROVE  HashReceived(CurrentHash(p))
      BY <1>2 DEF HandleAck, ResultSound, HashReceived, CurrentHash
    <3>2. CASE fut[p] = "set" \/ pc[p] = "acked"
      BY <3>2, <1>a DEF ResultSound
    <3>3. CASE ~(fut[p] = "set" \/ pc[p] = "acked")
      <4>1. p \in waiters[h]
        BY <1>2, <3>1, <3>3 DEF HandleAck
      <4>2. CurrentHash(p) = h
        BY <4>1, <2>2, <1>a DEF WaiterSound
      <4> QED
        BY <4>2, <2>2
    <3> QED
      BY <3>2, <3>3
  <2> QED
    BY <1>2, <1>a, <2>3, <2>4, <2>5 DEF HandleAck, IInv, AirSound
<1>3. ASSUME NEW m \in up, HandlePath(m) PROVE IInv'
  <2>1. AirSound'
    BY <1>3, <1>a DEF HandlePath, AirSound
  <2> QED
    BY <1>3, <1>a, <2>1
    DEF HandlePath, task, IInv, TypeOK, WaiterSound, ResultSound, HashReceived, CurrentHash
<1>4. ASSUME NEW m \in down, NodeReceives(m) PROVE IInv'
  <2>1. m.task \in Replies /\ m.n \in Attempts
    BY <1>4, <1>a DEF NodeReceives, AirSound
  <2>2. \A x \in up' : x \in up \/ (x.task = m.task /\ x.n = m.n)
    BY <1>4 DEF NodeReceives
  <2>3. received' = received \cup {<<m.task, m.n>>} /\ down' = down
    BY <1>4 DEF NodeReceives
  <2>4. AirSound'
    BY <1>a, <2>1, <2>2, <2>3 DEF AirSound
  <2>5. ResultSound'
    BY <1>4, <1>a, <2>3 DEF NodeReceives, task, ResultSound, HashReceived, CurrentHash
  <2> QED
    BY <1>4, <1>a, <2>4, <2>5 DEF NodeReceives, task, IInv, TypeOK, WaiterSound, CurrentHash
<1>5. CASE Crash
  BY <1>5, <1>a
  DEF Crash, IInv, TypeOK, AirSound, WaiterSound, ResultSound, HashReceived, CurrentHash, Active, Ended
<1>6. CASE UNCHANGED vars
  BY <1>6, <1>a
  DEF vars, task, IInv, TypeOK, AirSound, WaiterSound, ResultSound, HashReceived, CurrentHash
<1> QED
  BY <1>1, <1>2, <1>3, <1>4, <1>5, <1>6 DEF Next

\* The invariant holds.
LEMMA Invariance == Spec => []IInv
BY InitSound, NextSound, PTL DEF Spec

-----------------------------------------------------------------------------
\* The variables keep their types; every hash a task can wait for is a key.
THEOREM TypeCorrect == Spec => []TypeOK
<1>1. IInv => TypeOK
  BY DEF IInv
<1> QED
  BY <1>1, Invariance, PTL

\* If the node of an acked task has not received the attempt, another node has
\* received an attempt with the same hash.
LEMMA WhoseAck ==
    ASSUME IInv, NEW p \in Replies, pc[p] = "acked", <<p, attempt[p]>> \notin received
    PROVE  \E q \in Replies : \E n \in Attempts :
               q # p /\ AckHash(q, n) = CurrentHash(p) /\ <<q, n>> \in received
<1>1. PICK q \in Replies, n \in Attempts : AckHash(q, n) = CurrentHash(p) /\ <<q, n>> \in received
  BY DEF IInv, ResultSound, HashReceived
<1>2. attempt[p] \in Attempts
  BY DEF IInv, TypeOK
<1>3. q = p => n = attempt[p]
  BY <1>1, <1>2, AttemptFacts, AttemptsDiffer DEF CurrentHash
<1> QED
  BY <1>1, <1>3

\* The attempt reported as acked is one that its node received, or one whose
\* hash a reply of another task had, which that task's node received.
THEOREM AckedAttemptIsReceived == Spec => []AckedAttemptReceived
<1>1. IInv => AckedAttemptReceived
  <2> SUFFICES ASSUME IInv, NEW p \in Replies, pc[p] = "acked", <<p, attempt[p]>> \notin received
               PROVE  Confused(p, attempt[p]) # {}
    BY DEF AckedAttemptReceived
  <2>1. PICK q \in Replies, n \in Attempts :
            q # p /\ AckHash(q, n) = CurrentHash(p) /\ <<q, n>> \in received
    BY WhoseAck
  <2>2. <<q, n>> \in Confused(p, attempt[p])
    BY <2>1 DEF Confused, CurrentHash
  <2> QED
    BY <2>2
<1> QED
  BY <1>1, Invariance, PTL

\* The attempt reported as acked is one that its own node received.
OwnAttemptReceived == \A p \in Replies : pc[p] = "acked" => <<p, attempt[p]>> \in received

\* This holds where no two replies share a hash: where their texts differ, or
\* their deliveries begin far enough apart.
THEOREM OwnAttemptIsReceived ==
    ASSUME \A p, q \in Replies : \A m, n \in Attempts : AckHash(p, m) = AckHash(q, n) => p = q
    PROVE  Spec => []OwnAttemptReceived
<1>1. IInv => OwnAttemptReceived
  <2> SUFFICES ASSUME IInv, NEW p \in Replies, pc[p] = "acked", <<p, attempt[p]>> \notin received
               PROVE  FALSE
    BY DEF OwnAttemptReceived
  <2>1. attempt[p] \in Attempts
    BY DEF IInv, TypeOK
  <2>2. PICK q \in Replies, n \in Attempts : q # p /\ AckHash(q, n) = CurrentHash(p)
    BY WhoseAck
  <2> QED
    BY <2>1, <2>2 DEF CurrentHash
<1> QED
  BY <1>1, Invariance, PTL
=============================================================================
