---------------------------- MODULE EchoDelivery ----------------------------
(***************************************************************************)
(* How the echo server delivers its replies: deliver_txt_msg_with_ack      *)
(* (softmesh_stack/messaging.py) with wait_for_ack, handle_ack and         *)
(* handle_path_msg of home_auto_client/echo_server.py.                     *)
(*                                                                         *)
(* It resembles the push of the room server (RoomPush) but for three       *)
(* things: the timestamp moves on when the attempt number wraps around,    *)
(* the ACK hash does not cover the recipient, and a PATH answer is not     *)
(* searched for an ACK.  A packet stays on the air for ever: it is         *)
(* delivered any number of times, or never.                                *)
(***************************************************************************)
EXTENDS Naturals, FiniteSets

CONSTANTS
    Nodes,           \* the nodes that are replied to
    Texts,           \* texts of replies
    Replies,         \* deliver_echo tasks
    Dest,            \* Dest[p]: whom task p replies to
    Text,            \* Text[p]: the text of the reply, path information included
    Stamp,           \* Stamp[p]: int(time.time()) when delivery began
    HasPath,         \* the tasks that know a direct path
    DirectAttempts,  \* config.reply_direct_attempts
    FloodAttempts    \* config.reply_flood_attempts

ASSUME ReplyAssumption ==
    /\ Dest \in [Replies -> Nodes]
    /\ Text \in [Replies -> Texts]
    /\ Stamp \in [Replies -> Nat]
    /\ HasPath \subseteq Replies
    /\ DirectAttempts \in Nat /\ FloodAttempts \in Nat

VARIABLES
    pc,        \* pc[p]: where task p is suspended, or its outcome
    attempt,   \* attempt[p]: index of the current attempt
    fut,       \* fut[p]: the future task p awaits
    waiters,   \* _ack_waiters
    down,      \* packets put on the air by the server
    up,        \* answers put on the air by the nodes
    received   \* history: <<p, n>>, attempt n of p was received by its node

task == <<pc, attempt, fut>>
vars == <<task, waiters, down, up, received>>

Active == {"publishing", "published", "waiting"}
Ended  == {"acked", "unacked", "failed"}

-----------------------------------------------------------------------------
\* Mutant: the timestamp stays.
FixedStamp(p, n) == Stamp[p]

\* wire_timestamp = timestamp + attempt // 4
WireStamp(p, n) == Stamp[p] + n \div 4

\* ack_hash_for(wire_timestamp, attempt & 0x03, text, own key): no recipient in it.
AckHash(p, n) == <<WireStamp(p, n), n % 4, Text[p]>>

CurrentHash(p) == AckHash(p, attempt[p])

FirstFlood(p) == IF p \in HasPath THEN DirectAttempts ELSE 0

\* Direct attempts only when a path is known, then floods.
AttemptCount(p) == FirstFlood(p) + FloodAttempts

\* Every attempt that some task may make, and the hashes they wait for.
Attempts  == {n \in 0..(DirectAttempts + FloodAttempts) : n = 0 \/ n < DirectAttempts + FloodAttempts}
AllHashes == {AckHash(p, n) : p \in Replies, n \in Attempts}

-----------------------------------------------------------------------------
Init ==
    /\ pc = [p \in Replies |-> "idle"]
    /\ attempt = [p \in Replies |-> 0]
    /\ fut = [p \in Replies |-> "none"]
    /\ waiters = [h \in AllHashes |-> {}]
    /\ down = {}
    /\ up = {}
    /\ received = {}

\* Without a single attempt deliver_txt_msg_with_ack raises ValueError.
Start(p) ==
    /\ pc[p] = "idle"
    /\ pc' = [pc EXCEPT ![p] = IF AttemptCount(p) = 0 THEN "failed" ELSE "publishing"]
    /\ UNCHANGED <<attempt, fut, waiters, down, up, received>>

\* The packet leaves while the task awaits publish(): direct first, then floods.
Transmit(p) ==
    /\ pc[p] = "publishing"
    /\ pc' = [pc EXCEPT ![p] = "published"]
    /\ down' = down \cup {[type |-> "txt", task |-> p, n |-> attempt[p],
                           flood |-> attempt[p] >= FirstFlood(p)]}
    /\ UNCHANGED <<attempt, fut, waiters, up, received>>

\* publish() raises, before or after the packet left.
PublishFails(p) ==
    /\ pc[p] \in {"publishing", "published"}
    /\ pc' = [pc EXCEPT ![p] = "failed"]
    /\ UNCHANGED <<attempt, fut, waiters, down, up, received>>

\* publish() returns and wait_for_ack lists a new future.
RegisterWaiter(p) ==
    /\ pc[p] = "published"
    /\ pc' = [pc EXCEPT ![p] = "waiting"]
    /\ fut' = [fut EXCEPT ![p] = "pending"]
    /\ waiters' = [waiters EXCEPT ![CurrentHash(p)] = @ \cup {p}]
    /\ UNCHANGED <<attempt, down, up, received>>

\* The timer of asyncio.wait_for; a result already set is overtaken.
Timeout(p) ==
    /\ pc[p] = "waiting"
    /\ fut[p] \in {"pending", "set"}
    /\ fut' = [fut EXCEPT ![p] = IF @ = "pending" THEN "cancelled" ELSE "overtaken"]
    /\ UNCHANGED <<pc, attempt, waiters, down, up, received>>

\* Mutant: the attempt number does not move on.
SameAttempt(p) == attempt[p]

NextAttempt(p) == attempt[p] + 1

\* The task resumes: clean-up of wait_for_ack, then return or the next attempt.
Resume(p) ==
    /\ pc[p] = "waiting"
    /\ fut[p] # "pending"
    /\ waiters' = [waiters EXCEPT ![CurrentHash(p)] = @ \ {p}]
    /\ fut' = [fut EXCEPT ![p] = "none"]
    /\ LET retry == fut[p] # "set" /\ NextAttempt(p) < AttemptCount(p)
       IN  /\ pc' = [pc EXCEPT ![p] = IF fut[p] = "set" THEN "acked"
                                      ELSE IF retry THEN "publishing" ELSE "unacked"]
           /\ attempt' = [attempt EXCEPT ![p] = IF retry THEN NextAttempt(p) ELSE @]
    /\ UNCHANGED <<down, up, received>>

-----------------------------------------------------------------------------
(* The receive loop. *)

HandleAck(m) ==
    /\ m.type = "ack"
    /\ LET h == AckHash(m.task, m.n)
       IN  /\ fut' = [p \in Replies |-> IF p \in waiters[h] /\ fut[p] = "pending" THEN "set" ELSE fut[p]]
           /\ waiters' = [waiters EXCEPT ![h] = {}]
    /\ UNCHANGED <<pc, attempt, down, up, received>>

\* handle_path_msg returns a PATH over the path it was told, if any.  The ACK
\* that comes with it is not looked at.
HandlePath(m) ==
    /\ m.type = "path"
    /\ down' = IF m.hops > 0 THEN down \cup {[type |-> "path", dest |-> Dest[m.task]]} ELSE down
    /\ UNCHANGED <<task, waiters, up, received>>

-----------------------------------------------------------------------------
(* The nodes: a flood is answered with a PATH that bundles the ACK, a direct *)
(* packet with a plain ACK.                                                  *)

NodeReceives(m) ==
    /\ m.type = "txt"
    /\ received' = received \cup {<<m.task, m.n>>}
    /\ up' = up \cup IF m.flood
                     THEN {[type |-> "path", task |-> m.task, n |-> m.n,
                            hops |-> IF m.task \in HasPath THEN 1 ELSE 0]}
                     ELSE {[type |-> "ack", task |-> m.task, n |-> m.n, hops |-> 0]}
    /\ UNCHANGED <<task, waiters, down>>

\* The process dies, or run() ends with the MQTT connection: its tasks end.
Crash ==
    /\ pc' = [p \in Replies |-> IF pc[p] \in Active THEN "failed" ELSE pc[p]]
    /\ fut' = [p \in Replies |-> "none"]
    /\ waiters' = [h \in AllHashes |-> {}]
    /\ UNCHANGED <<attempt, down, up, received>>

ReplyStep(p) ==
    \/ Start(p)
    \/ Transmit(p)
    \/ PublishFails(p)
    \/ RegisterWaiter(p)
    \/ Timeout(p)
    \/ Resume(p)

Next ==
    \/ \E p \in Replies : ReplyStep(p)
    \/ \E m \in up : HandleAck(m) \/ HandlePath(m)
    \/ \E m \in down : NodeReceives(m)
    \/ Crash

Spec == Init /\ [][Next]_vars

\* The event loop runs what is ready, publish() comes back, timers fire.
Fairness == \A p \in Replies : WF_vars(Transmit(p)) /\ WF_vars(RegisterWaiter(p))
                               /\ WF_vars(Timeout(p)) /\ WF_vars(Resume(p))

FairSpec == Spec /\ Fairness
-----------------------------------------------------------------------------
(* Properties *)

\* The variables have their types; every hash a task can wait for is a key.
TypeOK ==
    /\ pc \in [Replies -> {"idle"} \cup Active \cup Ended]
    /\ attempt \in [Replies -> Attempts]
    /\ fut \in [Replies -> {"none", "pending", "set", "cancelled", "overtaken"}]
    /\ waiters \in [AllHashes -> SUBSET Replies]

\* The reply of another task whose ACK is taken for that of attempt n of p: the
\* same text, at the same wire time and with the same attempt number.
Confused(p, n) == {e \in received : e[1] # p /\ AckHash(e[1], e[2]) = AckHash(p, n)}

\* "Returns the first ACKed attempt": the attempt reported as acked is one that
\* its node received, not an earlier one with the same attempt number.  The
\* only ACK that can stand in for its own is that of a reply with its hash.
AckedAttemptReceived ==
    \A p \in Replies : pc[p] = "acked" => <<p, attempt[p]>> \in received \/ Confused(p, attempt[p]) # {}

\* Delivery ends, whether or not anybody answers.
ReplyEnds == \A p \in Replies : pc[p] \in Active ~> pc[p] \in Ended
=============================================================================
