------------------------------ MODULE RoomPush ------------------------------
(***************************************************************************)
(* How the room server pushes stored posts to its clients                  *)
(* (room_server/protocol.py and deliver_room_push_with_ack in              *)
(* softmesh_stack/room.py): push tasks of one asyncio event loop           *)
(* retransmit a post until its ACK arrives or the attempts run out, and    *)
(* share the table _ack_waiters with each other and with the receive loop. *)
(*                                                                         *)
(* An action is what the event loop runs between two awaits.  The radio    *)
(* network loses, delays, duplicates and reorders packets: what was sent   *)
(* stays in `down` or `up` and is delivered any number of times, or never. *)
(***************************************************************************)
EXTENDS Naturals, Sequences, SequencesExt

CONSTANTS
    Clients,         \* clients, identified by their public keys
    Contents,        \* what a push carries: (post_ts, author, text)
    Pushes,          \* push tasks (one per call of push_post)
    Dest,            \* Dest[p]: the client that task p pushes to
    Content,         \* Content[p]: what task p pushes
    Hops,            \* repeaters, as they appear in a packet's path
    Routes,          \* Routes[c]: the repeater paths that can lead from the room to c
    DirectAttempts,  \* config.push_direct_attempts
    FloodAttempts    \* config.push_flood_attempts

NoPath == <<>>

ASSUME PushAssumption ==
    /\ Dest \in [Pushes -> Clients]
    /\ Content \in [Pushes -> Contents]

ASSUME RouteAssumption ==
    /\ DOMAIN Routes = Clients
    /\ \A c \in Clients : Routes[c] # {} /\ Routes[c] \subseteq Seq(Hops)

ASSUME AttemptAssumption == DirectAttempts \in Nat /\ FloodAttempts \in Nat

VARIABLES
    pc,        \* pc[p]: where push task p is suspended, or its outcome
    attempt,   \* attempt[p]: index of the current delivery attempt
    direct,    \* direct[p]: the direct_path the task was started with
    fut,       \* fut[p]: the future task p awaits in wait_for_ack
    waiters,   \* _ack_waiters: the tasks whose futures are listed under a hash
    sessions,  \* the clients with a ClientSession
    path,      \* path[c]: session.path, NoPath when no route is known
    link,      \* link[c]: the repeater path that leads to c at present
    down,      \* push packets put on the air by the room
    up,        \* ACK and PATH packets put on the air by the clients
    received   \* <<c, x>>: client c has received content x

task == <<pc, attempt, direct, fut>>
air  == <<down, up, received>>
vars == <<task, waiters, sessions, path, link, air>>

Active == {"publishing", "published", "waiting"}
Ended  == {"acked", "unacked", "failed"}

-----------------------------------------------------------------------------
(* What goes over the air.  The 4-byte ACK hash is modelled as injective.  *)

WireAttempts == 0..3

\* Mutant: the attempt number is not wrapped into its two bits.
UnwrappedAttempt(n) == n

\* wire_attempt = attempt & 0x03
WireAttempt(n) == n % 4

Hashes == Clients \X Contents \X WireAttempts

\* Mutant: keyed by one key for all recipients, as the ACK of a plain message is.
SharedAckHash(c, x, n) == <<CHOOSE k \in Clients : TRUE, x, n>>

\* room_push_ack_hash: keyed by the recipient, unlike the ACK of a plain message.
AckHash(c, x, n) == <<c, x, n>>

PushPacket == [dest : Clients, content : Contents, attempt : WireAttempts, path : Seq(Hops)]

\* A PATH packet is sealed for one client's session; a plain ACK is the bare hash.
ReplyPacket == [type : {"ack", "path"}, src : Clients, path : Seq(Hops), hash : Hashes]

-----------------------------------------------------------------------------
(* One task's view of its own delivery loop. *)

\* The list of attempts: direct ones only when a path is known, then floods.
FirstFlood(p)   == IF direct[p] # NoPath THEN DirectAttempts ELSE 0
AttemptCount(p) == FirstFlood(p) + FloodAttempts

\* Mutant: a known path is used for every attempt.
NeverFlood(p) == direct[p]

\* The path of the current attempt; floods carry none.
AttemptPath(p) == IF attempt[p] < FirstFlood(p) THEN direct[p] ELSE NoPath

CurrentHash(p) == AckHash(Dest[p], Content[p], WireAttempt(attempt[p]))

-----------------------------------------------------------------------------
Init ==
    /\ pc = [p \in Pushes |-> "idle"]
    /\ attempt = [p \in Pushes |-> 0]
    /\ direct = [p \in Pushes |-> NoPath]
    /\ fut = [p \in Pushes |-> "none"]
    /\ waiters = [h \in Hashes |-> {}]
    /\ sessions = {}
    /\ path = [c \in Clients |-> NoPath]
    /\ link \in {f \in [Clients -> UNION {Routes[c] : c \in Clients}] :
                    \A c \in Clients : f[c] \in Routes[c]}
    /\ down = {}
    /\ up = {}
    /\ received = {}

\* push_post calls deliver_room_push_with_ack with the session's path of this
\* moment; without a single attempt that raises ValueError.
StartPush(p) ==
    /\ pc[p] = "idle"
    /\ Dest[p] \in sessions
    /\ direct' = [direct EXCEPT ![p] = path[Dest[p]]]
    /\ pc' = [pc EXCEPT ![p] =
          IF FloodAttempts = 0 /\ (path[Dest[p]] = NoPath \/ DirectAttempts = 0)
             THEN "failed" ELSE "publishing"]
    /\ UNCHANGED <<attempt, fut, waiters, sessions, path, link, air>>

\* The packet leaves while the task still awaits publish().
Transmit(p) ==
    /\ pc[p] = "publishing"
    /\ pc' = [pc EXCEPT ![p] = "published"]
    /\ down' = down \cup {[dest |-> Dest[p], content |-> Content[p],
                           attempt |-> WireAttempt(attempt[p]), path |-> AttemptPath(p)]}
    /\ UNCHANGED <<attempt, direct, fut, waiters, sessions, path, link, up, received>>

\* Mutant: the exception is swallowed and the push counted as delivered.
SwallowedFailure(p) ==
    /\ pc[p] \in {"publishing", "published"}
    /\ pc' = [pc EXCEPT ![p] = "acked"]
    /\ UNCHANGED <<attempt, direct, fut, waiters, sessions, path, link, air>>

\* publish() raises, before or after the packet left: the task ends with the exception.
PublishFails(p) ==
    /\ pc[p] \in {"publishing", "published"}
    /\ pc' = [pc EXCEPT ![p] = "failed"]
    /\ UNCHANGED <<attempt, direct, fut, waiters, sessions, path, link, air>>

\* publish() returns and wait_for_ack lists a new future under the hash.
RegisterWaiter(p) ==
    /\ pc[p] = "published"
    /\ pc' = [pc EXCEPT ![p] = "waiting"]
    /\ fut' = [fut EXCEPT ![p] = "pending"]
    /\ waiters' = [waiters EXCEPT ![CurrentHash(p)] = @ \cup {p}]
    /\ UNCHANGED <<attempt, direct, sessions, path, link, air>>

\* The timer of asyncio.wait_for cancels the task: a pending future is
\* cancelled, a result already set is overtaken by the cancellation.
Timeout(p) ==
    /\ pc[p] = "waiting"
    /\ fut[p] \in {"pending", "set"}
    /\ fut' = [fut EXCEPT ![p] = IF @ = "pending" THEN "cancelled" ELSE "overtaken"]
    /\ UNCHANGED <<pc, attempt, direct, waiters, sessions, path, link, air>>

\* Mutant: the whole list goes, with the futures of other tasks.
DropAllWaiters(p) == [waiters EXCEPT ![CurrentHash(p)] = {}]

\* The `finally` of wait_for_ack: take the own future off the list, if any.
DropWaiter(p) == [waiters EXCEPT ![CurrentHash(p)] = @ \ {p}]

\* Mutant: the attempt counter is not advanced.
ResumeSameAttempt(p) ==
    /\ pc[p] = "waiting"
    /\ fut[p] # "pending"
    /\ waiters' = DropWaiter(p)
    /\ fut' = [fut EXCEPT ![p] = "none"]
    /\ pc' = [pc EXCEPT ![p] = IF fut[p] = "set" THEN "acked" ELSE "publishing"]
    /\ UNCHANGED <<attempt, direct, sessions, path, link, air>>

\* The event loop resumes the task: wait_for_ack returns, and the delivery
\* loop returns or goes on to its next attempt.
Resume(p) ==
    /\ pc[p] = "waiting"
    /\ fut[p] # "pending"
    /\ waiters' = DropWaiter(p)
    /\ fut' = [fut EXCEPT ![p] = "none"]
    /\ LET retry == fut[p] # "set" /\ attempt[p] + 1 < AttemptCount(p)
       IN  /\ pc' = [pc EXCEPT ![p] = IF fut[p] = "set" THEN "acked"
                                      ELSE IF retry THEN "publishing" ELSE "unacked"]
           /\ attempt' = [attempt EXCEPT ![p] = IF retry THEN @ + 1 ELSE @]
    /\ UNCHANGED <<direct, sessions, path, link, air>>

-----------------------------------------------------------------------------
(* The receive loop. *)

\* Mutant: the list is popped but only one future is resolved.
ResolveOneWaiter(h) ==
    /\ waiters' = [waiters EXCEPT ![h] = {}]
    /\ fut' = IF waiters[h] = {} THEN fut
              ELSE [fut EXCEPT ![CHOOSE p \in waiters[h] : TRUE] = IF @ = "pending" THEN "set" ELSE @]

\* _resolve_ack: pop the list, set the result of every future not yet done.
ResolveAck(h) ==
    /\ waiters' = [waiters EXCEPT ![h] = {}]
    /\ fut' = [p \in Pushes |-> IF p \in waiters[h] /\ fut[p] = "pending" THEN "set" ELSE fut[p]]

HandleAck(m) ==
    /\ m.type = "ack"
    /\ ResolveAck(m.hash)
    /\ UNCHANGED <<pc, attempt, direct, sessions, path, link, air>>

\* A PATH answer to a flooded push: learn the route, then resolve the bundled
\* ACK.  Only the session whose secret opens the packet takes it.
HandlePath(m) ==
    /\ m.type = "path"
    /\ m.src \in sessions
    /\ path' = IF m.path # NoPath THEN [path EXCEPT ![m.src] = m.path] ELSE path
    /\ ResolveAck(m.hash)
    /\ UNCHANGED <<pc, attempt, direct, sessions, link, air>>

\* Mutant: the inbound path is used as it came.
InboundRoute(observed) == observed

\* _return_route: the path a packet recorded on its way in, turned around.
ReturnRoute(observed) == Reverse(observed)

\* A login or a post of client c arrives with the path it recorded on its way
\* (_track_session); a packet that recorded none leaves the known route alone.
TrackSession(c, observed) ==
    /\ sessions' = sessions \cup {c}
    /\ path' = IF observed # NoPath THEN [path EXCEPT ![c] = ReturnRoute(observed)] ELSE path
    /\ UNCHANGED <<task, waiters, link, air>>

-----------------------------------------------------------------------------
(* The world outside the server. *)

\* What a packet from c has recorded when it arrives: the way it was flooded,
\* from c to the room, or nothing (sent direct).
Observable(c) == {NoPath, Reverse(link[c])}

\* A client hears a push and answers it: a flood with a PATH that tells the
\* route it took and bundles the ACK, a direct packet with a plain ACK.  A
\* direct packet arrives only along a path that exists.
ClientReceives(m) ==
    /\ m.path \in {NoPath, link[m.dest]}
    /\ received' = received \cup {<<m.dest, m.content>>}
    /\ up' = up \cup {[type |-> IF m.path = NoPath THEN "path" ELSE "ack",
                       src  |-> m.dest,
                       path |-> IF m.path = NoPath THEN link[m.dest] ELSE NoPath,
                       hash |-> AckHash(m.dest, m.content, m.attempt)]}
    /\ UNCHANGED <<task, waiters, sessions, path, link, down>>

\* A client or a repeater moves.
Move(c) ==
    /\ \E r \in Routes[c] : link' = [link EXCEPT ![c] = r]
    /\ UNCHANGED <<task, waiters, sessions, path, air>>

\* The process dies (the loss of the MQTT connection ends run()) and is
\* started again with an empty RoomServer.
Crash ==
    /\ pc' = [p \in Pushes |-> IF pc[p] \in Active THEN "failed" ELSE pc[p]]
    /\ fut' = [p \in Pushes |-> "none"]
    /\ waiters' = [h \in Hashes |-> {}]
    /\ sessions' = {}
    /\ path' = [c \in Clients |-> NoPath]
    /\ UNCHANGED <<attempt, direct, link, air>>

-----------------------------------------------------------------------------
PushStep(p) ==
    \/ StartPush(p)
    \/ Transmit(p)
    \/ PublishFails(p)
    \/ RegisterWaiter(p)
    \/ Timeout(p)
    \/ Resume(p)

Next ==
    \/ \E p \in Pushes : PushStep(p)
    \/ \E m \in up : HandleAck(m) \/ HandlePath(m)
    \/ \E c \in Clients : \E observed \in Observable(c) : TrackSession(c, observed)
    \/ \E m \in down : ClientReceives(m)
    \/ \E c \in Clients : Move(c)
    \/ Crash

Spec == Init /\ [][Next]_vars

\* The event loop runs every task that is ready, every publish() comes back
\* and every timer fires.  Nothing is asked of the network or the clients.
Fairness == \A p \in Pushes : WF_vars(Transmit(p)) /\ WF_vars(RegisterWaiter(p))
                              /\ WF_vars(Timeout(p)) /\ WF_vars(Resume(p))

FairSpec == Spec /\ Fairness
-----------------------------------------------------------------------------
(* Properties *)

\* The variables have their types; in particular the attempt number of every
\* packet and of every key of _ack_waiters fits the two bits of the wire.
TypeOK ==
    /\ pc \in [Pushes -> {"idle"} \cup Active \cup Ended]
    /\ attempt \in [Pushes -> Nat]
    /\ direct \in [Pushes -> Seq(Hops)]
    /\ fut \in [Pushes -> {"none", "pending", "set", "cancelled", "overtaken"}]
    /\ waiters \in [Hashes -> SUBSET Pushes]
    /\ sessions \in SUBSET Clients
    /\ path \in [Clients -> Seq(Hops)]
    /\ link \in [Clients -> Seq(Hops)]
    /\ down \subseteq PushPacket
    /\ up \subseteq ReplyPacket
    /\ received \subseteq Clients \X Contents

\* Whatever is lost, late or duplicated, and whichever task an ACK was meant
\* for: a push reported as acked was received by its own client.  push_post
\* moves that client's sync cursor on the strength of it.
AckedImpliesReceived ==
    \A p \in Pushes : pc[p] = "acked" => <<Dest[p], Content[p]>> \in received

\* A task still waiting for an ACK can be found under its hash: neither the
\* cleanup of another task that waits for the same hash nor an ACK that
\* raced with it has dropped it from _ack_waiters.
WaiterRegistered ==
    \A p \in Pushes : fut[p] = "pending" => p \in waiters[CurrentHash(p)]

\* _ack_waiters lists nothing but tasks that are waiting for that very hash:
\* no entry survives a timeout, an ACK or the end of its task.
NoStaleWaiter ==
    \A h \in Hashes : \A p \in waiters[h] : pc[p] = "waiting" /\ CurrentHash(p) = h

\* Both at once: however timers, ACKs and cleanups of tasks that share a hash
\* interleave, _ack_waiters lists the tasks that wait, and no other.
WaitersExact == WaiterRegistered /\ NoStaleWaiter

\* A route the server would send direct packets over has led from the room to
\* that client: it was taken from the client's own packets, the right way round.
RouteSound ==
    \A c \in Clients : path[c] \in Routes[c] \cup {NoPath}

FloodPacket(p, n) == [dest |-> Dest[p], content |-> Content[p],
                      attempt |-> WireAttempt(n), path |-> NoPath]

\* A push is given up only after every flood attempt has been on the air, so a
\* stale direct route alone never costs a client its post.
GaveUpAfterFlooding ==
    \A p \in Pushes : pc[p] = "unacked" =>
        \A n \in FirstFlood(p)..(AttemptCount(p) - 1) : FloodPacket(p, n) \in down

\* One ACK serves every task that waits for it: the fan-out and the sync of
\* the same post to the same client are not left to time out one by one.
AckWakesAllWaiters ==
    [][\A p, q \in Pushes :
          (/\ fut[p] = "pending" /\ fut'[p] = "set"
           /\ fut[q] = "pending" /\ CurrentHash(q) = CurrentHash(p)) => fut'[q] = "set"]_vars

\* Every push ends, whatever the client and the network do.
PushEnds == \A p \in Pushes : pc[p] \in Active ~> pc[p] \in Ended

-----------------------------------------------------------------------------
(* The inductive invariant behind the safety properties. *)

\* A future exists exactly while its task waits for it.
FutureWhileWaiting == \A p \in Pushes : fut[p] # "none" <=> pc[p] = "waiting"

\* An ACK on the air is for something its client has received.
ReplySound ==
    \A m \in up : \A c \in Clients, x \in Contents, n \in WireAttempts :
        m.hash = AckHash(c, x, n) => <<c, x>> \in received

\* A result is set, and reported, only for what the client has received.
ResultSound ==
    \A p \in Pushes : (fut[p] = "set" \/ pc[p] = "acked") => <<Dest[p], Content[p]>> \in received

\* The routes clients report are theirs.
ReplyRouteSound ==
    /\ \A c \in Clients : link[c] \in Routes[c]
    /\ \A m \in up : m.path \in Routes[m.src] \cup {NoPath}

\* Whatever is on the air was put there by a task that has begun.
PushBegun ==
    \A m \in down : \E p \in Pushes : pc[p] # "idle" /\ Dest[p] = m.dest /\ Content[p] = m.content

\* The floods up to the current attempt are on the air, and only the last
\* attempt leads to giving up.
FloodsSent ==
    \A p \in Pushes :
        /\ pc[p] = "idle" => attempt[p] = 0
        /\ pc[p] = "unacked" => attempt[p] + 1 >= AttemptCount(p)
        /\ \A n \in FirstFlood(p)..attempt[p] :
              (n < attempt[p] \/ pc[p] \in {"published", "waiting", "unacked"})
                  => FloodPacket(p, n) \in down

IInv ==
    /\ TypeOK
    /\ FutureWhileWaiting
    /\ WaiterRegistered
    /\ NoStaleWaiter
    /\ ReplySound
    /\ ResultSound
    /\ ReplyRouteSound
    /\ RouteSound
    /\ PushBegun
    /\ FloodsSent

-----------------------------------------------------------------------------
(* Refinement: the retransmission protocol implements PushOutcome. *)

AbstractState == [p \in Pushes |-> IF pc[p] \in Active THEN "pushing" ELSE pc[p]]

Outcome == INSTANCE PushOutcome WITH state <- AbstractState

\* The protocol does nothing but begin pushes, deliver posts to clients and
\* end pushes with a truthful outcome.
ImplementsPushOutcome == Outcome!Spec
=============================================================================
