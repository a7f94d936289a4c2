--------------------------- MODULE RoomPushProof ---------------------------
(***************************************************************************)
(* Proofs about RoomPush, for every number of clients, posts, push tasks,  *)
(* routes and attempts.                                                    *)
(***************************************************************************)
EXTENDS RoomPush, TLAPS

-----------------------------------------------------------------------------
(* Facts about the operators. *)

\* A wire attempt fits the two bits it is sent in.
LEMMA WireAttemptType == \A n \in Nat : WireAttempt(n) \in WireAttempts
BY DEF WireAttempt, WireAttempts

\* Turning a path around gives a path.
LEMMA ReverseType == \A s \in Seq(Hops) : Reverse(s) \in Seq(Hops)
<1>1. SUFFICES ASSUME NEW s \in Seq(Hops) PROVE Reverse(s) \in Seq(Hops)
  OBVIOUS
<1>2. \A i \in 1..Len(s) : (Len(s) - i) + 1 \in 1..Len(s)
  OBVIOUS
<1>3. \A i \in 1..Len(s) : s[(Len(s) - i) + 1] \in Hops
  BY <1>2
<1> QED
  BY <1>3 DEF Reverse

\* Turned around twice, a path is itself: what _return_route makes of the path
\* a flooded packet recorded is the way back.
LEMMA ReverseReverse == \A s \in Seq(Hops) : Reverse(Reverse(s)) = s
<1>1. SUFFICES ASSUME NEW s \in Seq(Hops) PROVE Reverse(Reverse(s)) = s
  OBVIOUS
<1> DEFINE r == Reverse(s)
<1>2. r \in Seq(Hops)
  BY ReverseType
<1>3. Len(r) = Len(s) /\ \A i \in 1..Len(s) : r[i] = s[(Len(s) - i) + 1]
  BY DEF Reverse
<1>4. \A i \in 1..Len(s) : r[(Len(s) - i) + 1] = s[i]
  <2>1. TAKE i \in 1..Len(s)
  <2>2. (Len(s) - i) + 1 \in 1..Len(s) /\ (Len(s) - ((Len(s) - i) + 1)) + 1 = i
    OBVIOUS
  <2> QED
    BY <1>3, <2>2
<1>5. Reverse(r) = [i \in 1..Len(s) |-> s[i]]
  BY <1>3, <1>4 DEF Reverse
<1> QED
  BY <1>5

\* The hash a task waits for is a hash.
LEMMA CurrentHashType ==
    ASSUME TypeOK, NEW p \in Pushes PROVE CurrentHash(p) \in Hashes
BY PushAssumption, WireAttemptType DEF TypeOK, CurrentHash, AckHash, Hashes

-----------------------------------------------------------------------------
(* Type correctness. *)

\* A server that has just started has well-typed state.
LEMMA InitTypeOK == Init => TypeOK
<1> SUFFICES ASSUME Init PROVE TypeOK
  OBVIOUS
<1>1. link \in [Clients -> Seq(Hops)]
  BY RouteAssumption DEF Init
<1> QED
  BY <1>1 DEF Init, TypeOK, NoPath, Active, Ended

\* Every step keeps the types.
LEMMA NextTypeOK == TypeOK /\ [Next]_vars => TypeOK'
<1> SUFFICES ASSUME TypeOK, [Next]_vars PROVE TypeOK'
  OBVIOUS
<1> USE PushAssumption, RouteAssumption
<1>1. ASSUME NEW p \in Pushes, StartPush(p) PROVE TypeOK'
  BY <1>1 DEF TypeOK, StartPush, air, Active, Ended
<1>2. ASSUME NEW p \in Pushes, Transmit(p) PROVE TypeOK'
  <2>1. WireAttempt(attempt[p]) \in WireAttempts
    BY WireAttemptType DEF TypeOK
  <2>2. AttemptPath(p) \in Seq(Hops)
    BY DEF AttemptPath, NoPath, TypeOK
  <2>3. down' \subseteq PushPacket
    BY <1>2, <2>1, <2>2 DEF TypeOK, Transmit, PushPacket
  <2> QED
    BY <1>2, <2>3 DEF TypeOK, Transmit, Active
<1>3. ASSUME NEW p \in Pushes, PublishFails(p) PROVE TypeOK'
  BY <1>3 DEF TypeOK, PublishFails, air, Ended
<1>4. ASSUME NEW p \in Pushes, RegisterWaiter(p) PROVE TypeOK'
  BY <1>4, CurrentHashType DEF TypeOK, RegisterWaiter, air, Active
<1>5. ASSUME NEW p \in Pushes, Timeout(p) PROVE TypeOK'
  BY <1>5 DEF TypeOK, Timeout, air
<1>6. ASSUME NEW p \in Pushes, Resume(p) PROVE TypeOK'
  BY <1>6, CurrentHashType DEF TypeOK, Resume, DropWaiter, air, Active, Ended
<1>7. ASSUME NEW m \in up, HandleAck(m) PROVE TypeOK'
  BY <1>7 DEF TypeOK, HandleAck, ResolveAck, ReplyPacket, air
<1>8. ASSUME NEW m \in up, HandlePath(m) PROVE TypeOK'
  BY <1>8 DEF TypeOK, HandlePath, ResolveAck, ReplyPacket, air
<1>9. ASSUME NEW c \in Clients, NEW observed \in Observable(c), TrackSession(c, observed)
      PROVE TypeOK'
  <2>1. observed \in Seq(Hops)
    <3>1. link[c] \in Seq(Hops)
      BY DEF TypeOK
    <3>2. Reverse(link[c]) \in Seq(Hops)
      BY <3>1, ReverseType
    <3>3. NoPath \in Seq(Hops)
      BY DEF NoPath
    <3> QED
      BY <3>2, <3>3 DEF Observable
  <2> QED
    BY <1>9, <2>1, ReverseType DEF TypeOK, TrackSession, ReturnRoute, task, air
<1>10. ASSUME NEW m \in down, ClientReceives(m) PROVE TypeOK'
  <2>1. m \in PushPacket
    BY DEF TypeOK
  <2>2. AckHash(m.dest, m.content, m.attempt) \in Hashes
    BY <2>1 DEF PushPacket, AckHash, Hashes
  <2>3. link[m.dest] \in Seq(Hops) /\ m.dest \in Clients /\ m.content \in Contents
    BY <2>1 DEF TypeOK, PushPacket
  <2>4. up' \subseteq ReplyPacket
    <3> DEFINE reply == [type |-> IF m.path = NoPath THEN "path" ELSE "ack",
                         src  |-> m.dest,
                         path |-> IF m.path = NoPath THEN link[m.dest] ELSE NoPath,
                         hash |-> AckHash(m.dest, m.content, m.attempt)]
    <3>1. NoPath \in Seq(Hops)
      BY DEF NoPath
    <3>2. reply \in ReplyPacket
      BY <2>2, <2>3, <3>1 DEF ReplyPacket
    <3> QED
      BY <1>10, <3>2 DEF TypeOK, ClientReceives
  <2>5. received' \subseteq Clients \X Contents
    BY <1>10, <2>3 DEF TypeOK, ClientReceives
  <2> QED
    BY <1>10, <2>4, <2>5 DEF TypeOK, ClientReceives, task
<1>11. ASSUME NEW c \in Clients, Move(c) PROVE TypeOK'
  BY <1>11 DEF TypeOK, Move, task, air
<1>12. ASSUME Crash PROVE TypeOK'
  BY <1>12 DEF TypeOK, Crash, air, NoPath, Active, Ended
<1>13. CASE UNCHANGED vars
  BY <1>13 DEF TypeOK, vars, task, air
<1> QED
  BY <1>1, <1>2, <1>3, <1>4, <1>5, <1>6, <1>7, <1>8, <1>9, <1>10, <1>11, <1>12, <1>13
  DEF Next, PushStep

\* The variables keep their types, whatever the tasks, the network and the
\* clients do.
THEOREM TypeCorrect == Spec => []TypeOK
BY InitTypeOK, NextTypeOK, PTL DEF Spec

-----------------------------------------------------------------------------
(* The inductive invariant.  Its conjuncts are handled in three groups: what *)
(* ties futures, tasks and _ack_waiters together, what ties ACKs to what the *)
(* clients have received, and what is known of routes and packets.           *)

Registry  == FutureWhileWaiting /\ WaiterRegistered /\ NoStaleWaiter
AckTruth  == ReplySound /\ ResultSound
RouteFact == ReplyRouteSound /\ RouteSound

\* The inductive invariant holds before anything has been pushed.
LEMMA InitIInv == Init => IInv
<1> SUFFICES ASSUME Init PROVE IInv
  OBVIOUS
<1>1. TypeOK
  BY InitTypeOK
<1>2. Registry
  BY <1>1 DEF Init, Registry, FutureWhileWaiting, WaiterRegistered, NoStaleWaiter
<1>3. AckTruth
  BY DEF Init, AckTruth, ReplySound, ResultSound
<1>4. RouteFact
  BY RouteAssumption DEF Init, RouteFact, ReplyRouteSound, RouteSound
<1>5. PushBegun
  BY DEF Init, PushBegun
<1>6. FloodsSent
  BY AttemptAssumption DEF Init, FloodsSent, FirstFlood
<1> QED
  BY <1>1, <1>2, <1>3, <1>4, <1>5, <1>6 DEF IInv, Registry, AckTruth, RouteFact

\* No step drops a pending future from _ack_waiters or leaves a stale one in it.
LEMMA NextRegistry == IInv /\ [Next]_vars => Registry'
<1> SUFFICES ASSUME IInv, [Next]_vars PROVE Registry'
  OBVIOUS
<1> USE DEF IInv
<1>1. ASSUME NEW p \in Pushes, StartPush(p) PROVE Registry'
  BY <1>1 DEF TypeOK, StartPush, Registry, FutureWhileWaiting, WaiterRegistered, NoStaleWaiter,
              CurrentHash
<1>2. ASSUME NEW p \in Pushes, Transmit(p) PROVE Registry'
  BY <1>2 DEF TypeOK, Transmit, Registry, FutureWhileWaiting, WaiterRegistered, NoStaleWaiter,
              CurrentHash
<1>3. ASSUME NEW p \in Pushes, PublishFails(p) PROVE Registry'
  BY <1>3 DEF TypeOK, PublishFails, Registry, FutureWhileWaiting, WaiterRegistered, NoStaleWaiter,
              CurrentHash
<1>4. ASSUME NEW p \in Pushes, RegisterWaiter(p) PROVE Registry'
  <2>1. CurrentHash(p) \in Hashes
    BY CurrentHashType
  <2>2. \A q \in Pushes : CurrentHash(q)' = CurrentHash(q)
    BY <1>4 DEF RegisterWaiter, CurrentHash
  <2>3. FutureWhileWaiting'
    BY <1>4 DEF TypeOK, RegisterWaiter, FutureWhileWaiting
  <2>4. WaiterRegistered'
    BY <1>4, <2>1, <2>2 DEF TypeOK, RegisterWaiter, WaiterRegistered
  <2>5. NoStaleWaiter'
    BY <1>4, <2>1, <2>2 DEF TypeOK, RegisterWaiter, NoStaleWaiter
  <2> QED
    BY <2>3, <2>4, <2>5 DEF Registry
<1>5. ASSUME NEW p \in Pushes, Timeout(p) PROVE Registry'
  BY <1>5 DEF TypeOK, Timeout, Registry, FutureWhileWaiting, WaiterRegistered, NoStaleWaiter,
              CurrentHash
<1>6. ASSUME NEW p \in Pushes, Resume(p) PROVE Registry'
  <2>1. CurrentHash(p) \in Hashes
    BY CurrentHashType
  <2>2. \A q \in Pushes \ {p} : CurrentHash(q)' = CurrentHash(q)
    BY <1>6 DEF TypeOK, Resume, CurrentHash
  <2>3. FutureWhileWaiting'
    BY <1>6 DEF TypeOK, Resume, FutureWhileWaiting
  <2>4. WaiterRegistered'
    BY <1>6, <2>1, <2>2 DEF TypeOK, Resume, DropWaiter, WaiterRegistered
  <2>5. \A h \in Hashes : p \notin waiters'[h]
    BY <1>6, <2>1 DEF TypeOK, Resume, DropWaiter, NoStaleWaiter
  <2>6. NoStaleWaiter'
    BY <1>6, <2>1, <2>2, <2>5 DEF TypeOK, Resume, DropWaiter, NoStaleWaiter
  <2> QED
    BY <2>3, <2>4, <2>6 DEF Registry
<1>7. ASSUME NEW h \in Hashes, ResolveAck(h), UNCHANGED <<pc, attempt>> PROVE Registry'
  <2>1. \A q \in Pushes : CurrentHash(q)' = CurrentHash(q)
    BY <1>7 DEF CurrentHash
  <2>2. FutureWhileWaiting'
    BY <1>7 DEF TypeOK, ResolveAck, FutureWhileWaiting
  <2>3. WaiterRegistered'
    BY <1>7, <2>1, CurrentHashType DEF TypeOK, ResolveAck, WaiterRegistered, NoStaleWaiter
  <2>4. NoStaleWaiter'
    BY <1>7, <2>1 DEF TypeOK, ResolveAck, NoStaleWaiter
  <2> QED
    BY <2>2, <2>3, <2>4 DEF Registry
<1>8. ASSUME NEW m \in up, HandleAck(m) \/ HandlePath(m) PROVE Registry'
  BY <1>7, <1>8 DEF HandleAck, HandlePath, TypeOK, ReplyPacket
<1>9. ASSUME NEW c \in Clients, NEW observed \in Observable(c), TrackSession(c, observed)
      PROVE Registry'
  BY <1>9 DEF TrackSession, task, Registry, FutureWhileWaiting, WaiterRegistered, NoStaleWaiter,
              CurrentHash
<1>10. ASSUME NEW m \in down, ClientReceives(m) PROVE Registry'
  BY <1>10 DEF ClientReceives, task, Registry, FutureWhileWaiting, WaiterRegistered, NoStaleWaiter,
               CurrentHash
<1>11. ASSUME NEW c \in Clients, Move(c) PROVE Registry'
  BY <1>11 DEF Move, task, Registry, FutureWhileWaiting, WaiterRegistered, NoStaleWaiter,
               CurrentHash
<1>12. ASSUME Crash PROVE Registry'
  BY <1>12, CurrentHashType
  DEF Crash, TypeOK, Active, Ended, Registry, FutureWhileWaiting, WaiterRegistered, NoStaleWaiter
<1>13. CASE UNCHANGED vars
  BY <1>13 DEF vars, task, Registry, FutureWhileWaiting, WaiterRegistered, NoStaleWaiter,
               CurrentHash
<1> QED
  BY <1>1, <1>2, <1>3, <1>4, <1>5, <1>6, <1>8, <1>9, <1>10, <1>11, <1>12, <1>13
  DEF Next, PushStep

\* No step sets or reports a result for a post its client has not received.
LEMMA NextAckTruth == IInv /\ [Next]_vars => AckTruth'
<1> SUFFICES ASSUME IInv, [Next]_vars PROVE AckTruth'
  OBVIOUS
<1> USE PushAssumption DEF IInv, AckTruth
<1>1. ASSUME NEW p \in Pushes, StartPush(p) PROVE AckTruth'
  BY <1>1 DEF TypeOK, StartPush, air, ReplySound, ResultSound
<1>2. ASSUME NEW p \in Pushes, Transmit(p) PROVE AckTruth'
  BY <1>2 DEF TypeOK, Transmit, ReplySound, ResultSound
<1>3. ASSUME NEW p \in Pushes, PublishFails(p) PROVE AckTruth'
  BY <1>3 DEF TypeOK, PublishFails, air, ReplySound, ResultSound
<1>4. ASSUME NEW p \in Pushes, RegisterWaiter(p) PROVE AckTruth'
  BY <1>4 DEF TypeOK, RegisterWaiter, air, ReplySound, ResultSound
<1>5. ASSUME NEW p \in Pushes, Timeout(p) PROVE AckTruth'
  BY <1>5 DEF TypeOK, Timeout, air, ReplySound, ResultSound
<1>6. ASSUME NEW p \in Pushes, Resume(p) PROVE AckTruth'
  BY <1>6 DEF TypeOK, Resume, air, ReplySound, ResultSound
<1>7. ASSUME NEW m \in up, ResolveAck(m.hash), UNCHANGED <<pc, attempt, air>> PROVE AckTruth'
  <2>1. ReplySound'
    BY <1>7 DEF air, ReplySound
  <2>2. m.hash \in Hashes
    BY DEF TypeOK, ReplyPacket
  <2>3. \A p \in waiters[m.hash] : <<Dest[p], Content[p]>> \in received
    <3>1. TAKE p \in waiters[m.hash]
    <3>2. p \in Pushes /\ m.hash = CurrentHash(p)
      BY <2>2 DEF TypeOK, NoStaleWaiter
    <3>3. WireAttempt(attempt[p]) \in WireAttempts
      BY <3>2, WireAttemptType DEF TypeOK
    <3> QED
      BY <3>2, <3>3 DEF ReplySound, CurrentHash
  <2>4. ResultSound'
    BY <1>7, <2>2, <2>3 DEF TypeOK, ResolveAck, ResultSound, air
  <2> QED
    BY <2>1, <2>4
<1>8. ASSUME NEW m \in up, HandleAck(m) \/ HandlePath(m) PROVE AckTruth'
  BY <1>7, <1>8 DEF HandleAck, HandlePath
<1>9. ASSUME NEW c \in Clients, NEW observed \in Observable(c), TrackSession(c, observed)
      PROVE AckTruth'
  BY <1>9 DEF TrackSession, task, air, ReplySound, ResultSound
<1>10. ASSUME NEW m \in down, ClientReceives(m) PROVE AckTruth'
  <2>1. ResultSound'
    BY <1>10 DEF ClientReceives, task, ResultSound
  <2>2. ReplySound'
    BY <1>10 DEF ClientReceives, ReplySound, AckHash
  <2> QED
    BY <2>1, <2>2
<1>11. ASSUME NEW c \in Clients, Move(c) PROVE AckTruth'
  BY <1>11 DEF Move, task, air, ReplySound, ResultSound
<1>12. ASSUME Crash PROVE AckTruth'
  BY <1>12 DEF Crash, TypeOK, Active, air, ReplySound, ResultSound
<1>13. CASE UNCHANGED vars
  BY <1>13 DEF vars, task, air, ReplySound, ResultSound
<1> QED
  BY <1>1, <1>2, <1>3, <1>4, <1>5, <1>6, <1>8, <1>9, <1>10, <1>11, <1>12, <1>13
  DEF Next, PushStep

\* No step teaches the server a route that never led to the client.
LEMMA NextRouteFact == IInv /\ [Next]_vars => RouteFact'
<1> SUFFICES ASSUME IInv, [Next]_vars PROVE RouteFact'
  OBVIOUS
<1> USE PushAssumption, RouteAssumption DEF IInv, RouteFact
<1>1. ASSUME NEW p \in Pushes, PushStep(p) PROVE RouteFact'
  BY <1>1 DEF PushStep, StartPush, Transmit, PublishFails, RegisterWaiter, Timeout, Resume, air,
              ReplyRouteSound, RouteSound
<1>2. ASSUME NEW m \in up, HandleAck(m) PROVE RouteFact'
  BY <1>2 DEF HandleAck, air, ReplyRouteSound, RouteSound
<1>3. ASSUME NEW m \in up, HandlePath(m) PROVE RouteFact'
  BY <1>3 DEF HandlePath, air, TypeOK, ReplyPacket, ReplyRouteSound, RouteSound
<1>4. ASSUME NEW c \in Clients, NEW observed \in Observable(c), TrackSession(c, observed)
      PROVE RouteFact'
  <2>1. observed # NoPath => ReturnRoute(observed) \in Routes[c]
    <3>1. link[c] \in Seq(Hops) /\ link[c] \in Routes[c]
      BY DEF TypeOK, ReplyRouteSound
    <3>2. Reverse(Reverse(link[c])) = link[c]
      BY <3>1, ReverseReverse
    <3> QED
      BY <3>1, <3>2 DEF Observable, ReturnRoute
  <2> QED
    BY <1>4, <2>1 DEF TrackSession, task, air, TypeOK, ReplyRouteSound, RouteSound
<1>5. ASSUME NEW m \in down, ClientReceives(m) PROVE RouteFact'
  <2>1. m.dest \in Clients
    BY DEF TypeOK, PushPacket
  <2> QED
    BY <1>5, <2>1 DEF ClientReceives, ReplyRouteSound, RouteSound
<1>6. ASSUME NEW c \in Clients, Move(c) PROVE RouteFact'
  BY <1>6 DEF Move, air, TypeOK, ReplyRouteSound, RouteSound
<1>7. ASSUME Crash PROVE RouteFact'
  BY <1>7 DEF Crash, air, ReplyRouteSound, RouteSound
<1>8. CASE UNCHANGED vars
  BY <1>8 DEF vars, air, ReplyRouteSound, RouteSound
<1> QED
  BY <1>1, <1>2, <1>3, <1>4, <1>5, <1>6, <1>7, <1>8 DEF Next

\* A step never takes a task back to idle.
LEMMA NextNotIdle ==
    TypeOK /\ [Next]_vars => \A p \in Pushes : pc[p] # "idle" => pc'[p] # "idle"
<1> SUFFICES ASSUME TypeOK, [Next]_vars PROVE \A q \in Pushes : pc[q] # "idle" => pc'[q] # "idle"
  OBVIOUS
<1>1. ASSUME NEW p \in Pushes, PushStep(p)
      PROVE \A q \in Pushes : pc[q] # "idle" => pc'[q] # "idle"
  BY <1>1 DEF TypeOK, PushStep, StartPush, Transmit, PublishFails, RegisterWaiter, Timeout, Resume
<1>2. CASE UNCHANGED pc
  BY <1>2
<1>3. CASE Crash
  BY <1>3 DEF Crash
<1> QED
  BY <1>1, <1>2, <1>3 DEF Next, HandleAck, HandlePath, TrackSession, ClientReceives, Move, vars, task

\* What is on the air belongs to a push that has begun.
LEMMA NextPushBegun == IInv /\ [Next]_vars => PushBegun'
<1> SUFFICES ASSUME IInv, [Next]_vars PROVE PushBegun'
  OBVIOUS
<1> USE DEF IInv
<1>1. CASE UNCHANGED down
  BY <1>1, NextNotIdle DEF PushBegun
<1>2. ASSUME NEW p \in Pushes, Transmit(p) PROVE PushBegun'
  BY <1>2, NextNotIdle DEF PushBegun, Transmit
<1> QED
  BY <1>1, <1>2 DEF Next, PushStep, StartPush, PublishFails, RegisterWaiter, Timeout, Resume,
                    HandleAck, HandlePath, TrackSession, ClientReceives, Move, Crash, vars, air

\* The delivery loop goes through its attempts in order and skips no flood.
LEMMA NextFloodsSent == IInv /\ [Next]_vars => FloodsSent'
<1> SUFFICES ASSUME IInv, [Next]_vars PROVE FloodsSent'
  OBVIOUS
<1> USE AttemptAssumption DEF IInv
<1>1. ASSUME NEW p \in Pushes, StartPush(p) PROVE FloodsSent'
  BY <1>1 DEF TypeOK, StartPush, air, FloodsSent, FirstFlood, AttemptCount, FloodPacket
<1>2. ASSUME NEW p \in Pushes, Transmit(p) PROVE FloodsSent'
  <2>1. FirstFlood(p) \in Nat /\ attempt[p] \in Nat
    BY DEF FirstFlood, TypeOK
  <2>2. FirstFlood(p) <= attempt[p] => FloodPacket(p, attempt[p]) \in down'
    BY <1>2, <2>1 DEF Transmit, AttemptPath, FloodPacket
  <2>3. \A q \in Pushes : /\ FirstFlood(q)' = FirstFlood(q) /\ AttemptCount(q)' = AttemptCount(q)
                          /\ attempt'[q] = attempt[q]
                          /\ \A n : FloodPacket(q, n)' = FloodPacket(q, n)
    BY <1>2 DEF Transmit, FirstFlood, AttemptCount, FloodPacket
  <2>4. pc'[p] = "published" /\ \A q \in Pushes \ {p} : pc'[q] = pc[q]
    BY <1>2 DEF Transmit, TypeOK
  <2>5. down \subseteq down'
    BY <1>2 DEF Transmit
  <2>6. \A n \in FirstFlood(p)..attempt[p] : FloodPacket(p, n) \in down'
    <3>1. TAKE n \in FirstFlood(p)..attempt[p]
    <3>2. CASE n < attempt[p]
      BY <2>5, <3>2 DEF FloodsSent
    <3>3. CASE n = attempt[p]
      BY <2>1, <2>2, <3>3
    <3> QED
      BY <2>1, <3>2, <3>3
  <2> QED
    BY <2>3, <2>4, <2>5, <2>6 DEF FloodsSent
<1>3. ASSUME NEW p \in Pushes, PublishFails(p) \/ RegisterWaiter(p) \/ Timeout(p)
      PROVE FloodsSent'
  BY <1>3 DEF TypeOK, PublishFails, RegisterWaiter, Timeout, air, FloodsSent, FirstFlood,
              AttemptCount, FloodPacket
<1>4. ASSUME NEW p \in Pushes, Resume(p) PROVE FloodsSent'
  <2>1. \A q \in Pushes : /\ FirstFlood(q) \in Nat /\ attempt[q] \in Nat /\ attempt'[q] \in Nat
                          /\ FirstFlood(q)' = FirstFlood(q) /\ AttemptCount(q)' = AttemptCount(q)
                          /\ \A n : FloodPacket(q, n)' = FloodPacket(q, n)
    BY <1>4 DEF Resume, FirstFlood, AttemptCount, FloodPacket, TypeOK
  <2>2. \A q \in Pushes \ {p} : pc'[q] = pc[q] /\ attempt'[q] = attempt[q]
    BY <1>4 DEF Resume, TypeOK
  <2>3. down' = down
    BY <1>4 DEF Resume, air
  <2>4. CASE fut[p] # "set" /\ attempt[p] + 1 < AttemptCount(p)
    <3>1. pc'[p] = "publishing" /\ attempt'[p] = attempt[p] + 1
      BY <1>4, <2>4 DEF Resume, TypeOK
    <3> QED
      BY <1>4, <2>1, <2>2, <2>3, <3>1 DEF Resume, FloodsSent
  <2>5. CASE ~(fut[p] # "set" /\ attempt[p] + 1 < AttemptCount(p))
    <3>1. /\ attempt'[p] = attempt[p] /\ pc'[p] \in {"acked", "unacked"}
          /\ pc'[p] = "unacked" => ~(attempt[p] + 1 < AttemptCount(p))
      BY <1>4, <2>5 DEF Resume, TypeOK
    <3>2. AttemptCount(p) \in Nat
      BY <2>1 DEF AttemptCount
    <3> QED
      BY <1>4, <2>1, <2>2, <2>3, <3>1, <3>2 DEF Resume, FloodsSent
  <2> QED
    BY <2>4, <2>5
<1>5. ASSUME Crash PROVE FloodsSent'
  BY <1>5 DEF TypeOK, Crash, Active, Ended, air, FloodsSent, FirstFlood, AttemptCount, FloodPacket
<1>6. CASE UNCHANGED <<pc, attempt, direct, down>>
  BY <1>6 DEF FloodsSent, FirstFlood, AttemptCount, FloodPacket
<1> QED
  BY <1>1, <1>2, <1>3, <1>4, <1>5, <1>6
  DEF Next, PushStep, HandleAck, HandlePath, TrackSession, ClientReceives, Move, vars, task, air

\* Every step preserves the inductive invariant.
LEMMA NextIInv == IInv /\ [Next]_vars => IInv'
BY NextTypeOK, NextRegistry, NextAckTruth, NextRouteFact, NextPushBegun, NextFloodsSent
DEF IInv, Registry, AckTruth, RouteFact

\* The inductive invariant holds in every reachable state.
LEMMA Invariance == Spec => []IInv
BY InitIInv, NextIInv, PTL DEF Spec

-----------------------------------------------------------------------------
(* The safety properties. *)

\* A push reported as acked was received by its own client (deliver_room_push_with_ack
\* with the shared table _ack_waiters), however many tasks wait for the same hash.
THEOREM AckedIsReceived == Spec => []AckedImpliesReceived
<1>1. IInv => AckedImpliesReceived
  BY DEF IInv, ResultSound, AckedImpliesReceived
<1> QED
  BY <1>1, Invariance, PTL

\* The cleanup in wait_for_ack never unregisters a task that is still waiting, and
\* _ack_waiters never lists a task that does not wait for that hash.
THEOREM WaitersAreExact == Spec => []WaitersExact
<1>1. IInv => WaitersExact
  BY DEF IInv, WaitersExact
<1> QED
  BY <1>1, Invariance, PTL

\* A session's path has led from the room to that client.
THEOREM RoutesAreSound == Spec => []RouteSound
<1>1. IInv => RouteSound
  BY DEF IInv
<1> QED
  BY <1>1, Invariance, PTL

\* A push is given up only after all its floods have been on the air.
THEOREM GivenUpAfterFloods == Spec => []GaveUpAfterFlooding
<1>1. IInv => GaveUpAfterFlooding
  <2> SUFFICES ASSUME IInv, NEW p \in Pushes, pc[p] = "unacked",
                      NEW n \in FirstFlood(p)..(AttemptCount(p) - 1)
               PROVE FloodPacket(p, n) \in down
    BY DEF GaveUpAfterFlooding
  <2>1. FirstFlood(p) \in Nat /\ attempt[p] \in Nat /\ AttemptCount(p) \in Nat
    BY AttemptAssumption DEF FirstFlood, AttemptCount, IInv, TypeOK
  <2>2. n \in FirstFlood(p)..attempt[p]
    BY <2>1 DEF IInv, FloodsSent
  <2> QED
    BY <2>2 DEF IInv, FloodsSent
<1> QED
  BY <1>1, Invariance, PTL

\* One ACK resolves every task that waits for its hash.
THEOREM AckReachesAllWaiters == Spec => AckWakesAllWaiters
<1> DEFINE Woken == \A p, q \in Pushes :
          (/\ fut[p] = "pending" /\ fut'[p] = "set"
           /\ fut[q] = "pending" /\ CurrentHash(q) = CurrentHash(p)) => fut'[q] = "set"
<1>1. IInv /\ [Next]_vars => [Woken]_vars
  <2> SUFFICES ASSUME IInv, Next, NEW p \in Pushes, NEW q \in Pushes,
                      fut[p] = "pending", fut'[p] = "set",
                      fut[q] = "pending", CurrentHash(q) = CurrentHash(p)
               PROVE fut'[q] = "set"
    OBVIOUS
  <2>1. PICK m \in up : ResolveAck(m.hash)
    BY DEF Next, PushStep, StartPush, Transmit, PublishFails, RegisterWaiter, Timeout, Resume,
           HandleAck, HandlePath, TrackSession, ClientReceives, Move, Crash, task, IInv, TypeOK
  <2>2. m.hash \in Hashes
    BY DEF IInv, TypeOK, ReplyPacket
  <2>3. p \in waiters[m.hash]
    BY <2>1 DEF ResolveAck
  <2>4. CurrentHash(p) = m.hash
    BY <2>2, <2>3 DEF IInv, NoStaleWaiter
  <2>5. q \in waiters[m.hash]
    BY <2>4 DEF IInv, WaiterRegistered
  <2> QED
    BY <2>1, <2>5 DEF ResolveAck
<1> QED
  BY <1>1, Invariance, PTL DEF Spec, AckWakesAllWaiters

-----------------------------------------------------------------------------
(* Refinement. *)

\* A server that has pushed nothing maps to the abstract initial state.
LEMMA InitRefines == Init => Outcome!Init
BY DEF Init, Outcome!Init, AbstractState, Active

\* Every step maps to a step of PushOutcome or to a stutter.
LEMMA NextRefines == IInv /\ [Next]_vars => [Outcome!Next]_(Outcome!vars)
<1> SUFFICES ASSUME IInv, [Next]_vars PROVE [Outcome!Next]_(Outcome!vars)
  OBVIOUS
<1> USE DEF IInv, Active
<1>1. ASSUME NEW p \in Pushes, StartPush(p) PROVE Outcome!Begin(p) \/ Outcome!Refuse(p)
  BY <1>1 DEF StartPush, TypeOK, air, AbstractState, Outcome!Begin, Outcome!Refuse
<1>2. ASSUME NEW p \in Pushes, Transmit(p) PROVE UNCHANGED Outcome!vars
  BY <1>2 DEF Transmit, TypeOK, AbstractState, Outcome!vars
<1>3. ASSUME NEW p \in Pushes, PublishFails(p) PROVE Outcome!End(p, "failed")
  BY <1>3 DEF PublishFails, TypeOK, air, AbstractState, Outcome!End
<1>4. ASSUME NEW p \in Pushes, RegisterWaiter(p) PROVE UNCHANGED Outcome!vars
  BY <1>4 DEF RegisterWaiter, TypeOK, air, AbstractState, Outcome!vars
<1>5. ASSUME NEW p \in Pushes, Resume(p)
      PROVE Outcome!End(p, "acked") \/ Outcome!End(p, "unacked") \/ UNCHANGED Outcome!vars
  BY <1>5 DEF Resume, TypeOK, air, AbstractState, ResultSound, Outcome!End, Outcome!vars
<1>6. ASSUME NEW m \in down, ClientReceives(m) PROVE Outcome!Receive(m.dest, m.content)
  <2>1. PICK p \in Pushes : pc[p] # "idle" /\ Dest[p] = m.dest /\ Content[p] = m.content
    BY DEF PushBegun
  <2>2. AbstractState[p] # "idle"
    BY <2>1 DEF AbstractState
  <2> QED
    BY <1>6, <2>1, <2>2 DEF ClientReceives, task, AbstractState, Outcome!Receive
<1>7. \A m \in down : m.dest \in Clients /\ m.content \in Contents
  BY DEF TypeOK, PushPacket
<1>8. ASSUME Crash PROVE Outcome!Crash
  BY <1>8 DEF Crash, TypeOK, Ended, air, AbstractState, Outcome!Crash
<1>9. CASE UNCHANGED <<pc, received>>
  BY <1>9 DEF AbstractState, Outcome!vars
<1> QED
  BY <1>1, <1>2, <1>3, <1>4, <1>5, <1>6, <1>7, <1>8, <1>9
  DEF Next, PushStep, Timeout, HandleAck, HandlePath, TrackSession, Move, vars, task, air,
      Outcome!Next, Outcome!Outcomes

\* The retransmission protocol implements the abstract push: its steps begin
\* pushes, deliver posts and end pushes with a truthful outcome, or change
\* nothing that a caller of push_post can tell.
THEOREM Refinement == Spec => ImplementsPushOutcome
BY InitRefines, NextRefines, Invariance, PTL DEF Spec, ImplementsPushOutcome, Outcome!Spec
============================================================================
