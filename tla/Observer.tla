------------------------------ MODULE Observer ------------------------------
(***************************************************************************)
(* The observer (observer/reporter.py): it takes packets from the local    *)
(* bus and forwards each, as an event, to every target broker.             *)
(*                                                                         *)
(* forward_loop waits for the publish() of all targets before it takes the *)
(* next packet, so the state of one event is enough; how many came before  *)
(* makes no difference.  A connection is known to the observer and to the  *)
(* broker, and either may learn late that it is gone.  The identity comes  *)
(* from Identity.                                                          *)
(***************************************************************************)
EXTENDS Packet, FiniteSets

CONSTANTS
    Targets,     \* the forward targets, in the order in which they are closed
    Raws,        \* what may come over the bus
    MaxBackoff,  \* the cap of the back-off, in units of its first value
    Seeds,       \* see Identity
    Envs

ASSUME ObserverAssumption == MaxBackoff \in Nat \ {0}

\* The bus carries bytes.
ASSUME RawsAssumption == Raws \subseteq Seq(0..255)

\* "none" stands for no seed.
ASSUME SeedsAssumption == Seeds # {} /\ "none" \notin Seeds \cup Envs

VARIABLES
    env, file, ident, boot, used,   \* see Identity
    loop,       \* where run() is: "off", "recv", "gather" or "close"
    closing,    \* the next target that the finally clause closes
    event,      \* the packet being forwarded
    target,     \* per target: client, where its publish() is, _backoff, time to _next_retry
    link,       \* per target, the connection as aiomqtt knows it
    live,       \* per target, whether the broker has its end of the connection
    stale,      \* per target, whether the broker holds one that is dead
    status,     \* per target, the retained status
    left,       \* history, per target: the last connection was closed properly
    copies      \* history, per target: how often the broker got the event

Id == INSTANCE Identity

T        == 1..Len(Targets)
identity == <<env, file, ident, boot, used>>
broker   == <<live, stale, status, left, copies>>
vars     == <<identity, loop, closing, event, target, link, broker>>

Fresh == [client |-> FALSE, pc |-> "idle", backoff |-> 1, retry |-> 0]

Doubled(b) == IF 2 * b < MaxBackoff THEN 2 * b ELSE MaxBackoff

-----------------------------------------------------------------------------
(* build_event *)

\* The type is decoded, or guessed when the packet cannot be decoded.
PayloadTypeOf(raw) == DecodeHeader(raw[1]).type

NoHash == <<>>

\* Mutant: the path is taken for part of the payload.
PacketHashWithPath(raw) ==
    IF Len(raw) < PathLenAt(raw) THEN NoHash ELSE <<PayloadTypeOf(raw)>> \o From(raw, PathLenAt(raw) + 1)

\* calculate_packet_hash, as what it takes the SHA-256 of.  It parses the
\* packet by itself and knows no longest path.
PacketHash(raw) ==
    LET at    == PathLenAt(raw)
        start == at + PathBytes(raw)
    IN  IF Len(raw) < at \/ start > Len(raw) THEN NoHash
        ELSE <<PayloadTypeOf(raw)>>
                 \o (IF PayloadTypeOf(raw) = TRACE THEN <<raw[at], 0>> ELSE <<>>) \o From(raw, start + 1)

\* _ROUTE_MAP, for packets that can be decoded.
Route(raw) ==
    IF ~Decodable(raw) THEN "U"
    ELSE CASE DecodePacket(raw).route = DIRECT           -> "D"
           [] DecodePacket(raw).route = TRANSPORT_DIRECT -> "T"
           [] OTHER                                      -> "F"

\* The event: what it says of the packet, and whom it is from.
BuildEvent(raw) ==
    [raw |-> raw, hash |-> PacketHash(raw), type |-> PayloadTypeOf(raw), route |-> Route(raw),
     path |-> IF Route(raw) = "D" THEN DecodePacket(raw).path ELSE <<>>, origin |-> ident]

NoEvent == [raw |-> <<>>, hash |-> <<>>, type |-> 0, route |-> "U", path |-> <<>>, origin |-> "none"]

-----------------------------------------------------------------------------
(* run() *)

Init ==
    /\ Id!InitIdentity
    /\ loop = "off"
    /\ closing = 1
    /\ event = NoEvent
    /\ target = [t \in T |-> Fresh]
    /\ link = [t \in T |-> "none"]
    /\ live = [t \in T |-> FALSE]
    /\ stale = [t \in T |-> FALSE]
    /\ status = [t \in T |-> "none"]
    /\ left = [t \in T |-> FALSE]
    /\ copies = [t \in T |-> 0]

\* resolve_identity.
Resolve ==
    /\ loop = "off"
    /\ Id!Boot
    /\ UNCHANGED <<loop, closing, event, target, link, broker>>

\* The local broker is there, and the loops begin.
Begin ==
    /\ loop = "off" /\ boot = "up"
    /\ Id!Show
    /\ loop' = "recv"
    /\ UNCHANGED <<closing, event, target, link, broker>>

\* Mutant: a target is tried again only while it is too early.
StartsWhileEarly(t) ==
    [target[t] EXCEPT !.pc = CASE target[t].client                         -> "publishing"
                               [] ~target[t].client /\ target[t].retry = 0 -> "done"
                               [] OTHER                                    -> "connecting"]

\* publish() up to its first await.
Starts(t) ==
    [target[t] EXCEPT !.pc = CASE target[t].client                         -> "publishing"
                               [] ~target[t].client /\ target[t].retry > 0 -> "done"
                               [] OTHER                                    -> "connecting",
                      \* _next_retry counts from before the attempt; it is read only if that fails
                      !.retry = IF ~target[t].client /\ @ = 0 THEN target[t].backoff ELSE @]

\* forward_loop takes a packet and starts a publish() for every target.
Take(raw) ==
    /\ loop = "recv"
    /\ raw # <<>>
    /\ event' = BuildEvent(raw)
    /\ target' = [t \in T |-> Starts(t)]
    /\ copies' = [t \in T |-> 0]
    /\ loop' = "gather"
    /\ UNCHANGED <<identity, closing, link, live, stale, status, left>>

\* gather() returns when all have.
Gathered ==
    /\ loop = "gather"
    /\ \A t \in T : target[t].pc = "done"
    /\ loop' = "recv"
    /\ event' = NoEvent
    /\ target' = [t \in T |-> [target[t] EXCEPT !.pc = "idle"]]
    /\ copies' = [t \in T |-> 0]
    /\ UNCHANGED <<identity, closing, link, live, stale, status, left>>

-----------------------------------------------------------------------------
(* _ForwardTarget *)

Set(t, r) == target' = [target EXCEPT ![t] = r]

\* A task that gather() has left behind goes on until the process ends.
Running(t, pc) == loop \in {"gather", "close"} /\ target[t].pc = pc

\* Mutant: the event that made it connect is not published.
AnnounceOnly(t) ==
    /\ Running(t, "announcing")
    /\ Set(t, [target[t] EXCEPT !.pc = "done"])
    /\ \/ link[t] = "up" /\ status' = [status EXCEPT ![t] = "online"]
       \/ UNCHANGED status
    /\ UNCHANGED <<identity, loop, closing, event, link, live, stale, left, copies>>

ConnectSucceeds(t) ==
    /\ Running(t, "connecting")
    /\ Set(t, [client |-> TRUE, pc |-> "announcing", backoff |-> 1, retry |-> 0])
    /\ link' = [link EXCEPT ![t] = "up"]
    /\ live' = [live EXCEPT ![t] = TRUE]
    /\ left' = [left EXCEPT ![t] = FALSE]
    /\ UNCHANGED <<identity, loop, closing, event, stale, status, copies>>

\* The broker may have taken the connection all the same, as when the answer
\* came too late or not at all.
ConnectFails(t) ==
    /\ Running(t, "connecting")
    /\ Set(t, [target[t] EXCEPT !.pc = "done", !.backoff = Doubled(@)])
    /\ stale' \in {stale, [stale EXCEPT ![t] = TRUE]}
    /\ UNCHANGED <<identity, loop, closing, event, link, live, status, left, copies>>

\* The announcement, which may fail or get lost: that is at most logged.
Announce(t) ==
    /\ Running(t, "announcing")
    /\ Set(t, [target[t] EXCEPT !.pc = "publishing"])
    /\ \/ link[t] = "up" /\ status' = [status EXCEPT ![t] = "online"]
       \/ UNCHANGED status
    /\ UNCHANGED <<identity, loop, closing, event, link, live, stale, left, copies>>

Delivered(t) == copies' = [copies EXCEPT ![t] = @ + 1]

\* QoS 0: publish() returns, and the event is lost if the broker is gone.
Publish(t) ==
    /\ Running(t, "publishing")
    /\ link[t] \in {"up", "dead"}
    /\ Set(t, [target[t] EXCEPT !.pc = "done"])
    /\ IF link[t] = "up" THEN Delivered(t) ELSE UNCHANGED copies
    /\ UNCHANGED <<identity, loop, closing, event, link, live, stale, status, left>>

\* What a clean disconnect does to the connection.
Disconnect(t) ==
    /\ link' = [link EXCEPT ![t] = "none"]
    /\ live' = [live EXCEPT ![t] = FALSE]
    /\ left' = [left EXCEPT ![t] = live[t]]
    /\ UNCHANGED <<stale, status>>

\* publish() times out, whether or not the event got through; close() then
\* disconnects and the next event connects again.
TimesOut(t) ==
    /\ Running(t, "publishing")
    /\ link[t] \in {"up", "dead"}
    /\ Disconnect(t)
    /\ Set(t, [target[t] EXCEPT !.client = FALSE, !.pc = "done"])
    /\ IF link[t] = "up" THEN Delivered(t) \/ UNCHANGED copies ELSE UNCHANGED copies
    /\ UNCHANGED <<identity, loop, closing, event>>

\* publish() raises since the connection is lost, or times out on one that is
\* dead, and then the __aexit__ of close() raises too: gather() passes it on,
\* and run() ends.
Raises(t) ==
    /\ Running(t, "publishing")
    /\ link[t] \in {"dead", "lost"}
    /\ Set(t, [target[t] EXCEPT !.pc = "done"])
    /\ loop' = "close"
    /\ UNCHANGED <<identity, closing, event, link, broker>>

-----------------------------------------------------------------------------
(* The end of run() *)

\* The brokers keep the connections `gone`, and maybe those that were being made.
LeaveBehind(gone) ==
    \E half \in SUBSET {t \in T : target[t].pc = "connecting"} :
        stale' = [t \in T |-> stale[t] \/ t \in gone \cup half]

\* local.messages or the publish() of an advert raises: the bus is gone.  The
\* tasks are cancelled, and with them what forward_loop waits for.
BusLost ==
    /\ loop \in {"recv", "gather"}
    /\ loop' = "close"
    /\ LeaveBehind({})
    /\ target' = [t \in T |-> [target[t] EXCEPT !.pc = "done"]]
    /\ UNCHANGED <<identity, closing, event, link, live, status, left, copies>>

\* What is left when the process is gone: brokers have to notice.
Abandon ==
    /\ Id!Die
    /\ LeaveBehind({t \in T : live[t]})
    /\ loop' = "off"
    /\ closing' = 1
    /\ target' = [t \in T |-> Fresh]
    /\ link' = [t \in T |-> "none"]
    /\ live' = [t \in T |-> FALSE]
    /\ event' = NoEvent
    /\ copies' = [t \in T |-> 0]
    /\ UNCHANGED <<status, left>>

\* finally: the targets are closed one after the other ...
Close(t) ==
    /\ loop = "close" /\ closing = t
    /\ target[t].client => link[t] # "lost"
    /\ IF target[t].client THEN Disconnect(t) /\ Set(t, [target[t] EXCEPT !.client = FALSE])
                           ELSE UNCHANGED <<link, live, left, stale, status, target>>
    /\ closing' = t + 1
    /\ UNCHANGED <<identity, loop, event, copies>>

\* ... until all are, or one of them raises.
Exit ==
    /\ loop = "close"
    /\ closing \in T => target[closing].client /\ link[closing] \in {"dead", "lost"}
    /\ Abandon

Kill ==
    /\ loop # "off"
    /\ Abandon

-----------------------------------------------------------------------------
(* Brokers and time *)

\* Mutant: the client has no will.
WillUnset(s) == s

\* The will that _connect registers, retained.
Will(s) == "offline"

\* A connection dies; neither side knows yet.
Sever(t) ==
    /\ link[t] = "up"
    /\ link' = [link EXCEPT ![t] = "dead"]
    /\ live' = [live EXCEPT ![t] = FALSE]
    /\ stale' = [stale EXCEPT ![t] = TRUE]
    /\ UNCHANGED <<identity, loop, closing, event, target, status, left, copies>>

ClientNotices(t) ==
    /\ link[t] = "dead"
    /\ link' = [link EXCEPT ![t] = "lost"]
    /\ UNCHANGED <<identity, loop, closing, event, target, broker>>

BrokerNotices(t) ==
    /\ stale[t]
    /\ stale' = [stale EXCEPT ![t] = FALSE]
    /\ status' = [status EXCEPT ![t] = Will(@)]
    /\ UNCHANGED <<identity, loop, closing, event, target, link, live, left, copies>>

Tick ==
    /\ \E t \in T : target[t].retry > 0
    /\ target' = [t \in T |-> [target[t] EXCEPT !.retry = IF @ > 0 THEN @ - 1 ELSE 0]]
    /\ UNCHANGED <<identity, loop, closing, event, link, broker>>

Task(t) ==
    \/ ConnectSucceeds(t) \/ ConnectFails(t) \/ Announce(t)
    \/ Publish(t) \/ TimesOut(t) \/ Raises(t)

Next ==
    \/ Resolve \/ Begin
    \/ \E raw \in Raws : Take(raw)
    \/ Gathered
    \/ \E t \in T : Task(t) \/ Close(t)
    \/ BusLost \/ Exit \/ Kill \/ Tick
    \/ \E t \in T : Sever(t) \/ ClientNotices(t) \/ BrokerNotices(t)

\* An operation of aiomqtt comes to an end, the event loop runs what is ready,
\* and time passes.
Fairness ==
    /\ \A t \in T : WF_vars(Task(t)) /\ WF_vars(ClientNotices(t)) /\ WF_vars(BrokerNotices(t))
    /\ WF_vars(Gathered)
    /\ WF_vars(Tick)

Spec == Init /\ [][Next]_vars /\ Fairness
-----------------------------------------------------------------------------
(* Properties *)

TypeOK ==
    /\ Id!IdentityTypeOK
    /\ loop \in {"off", "recv", "gather", "close"}
    /\ loop # "off" => boot = "up"
    /\ \A t \in T :
        /\ target[t].backoff \in 1..MaxBackoff
        /\ target[t].retry \in 0..MaxBackoff
        /\ link[t] = "none" <=> ~target[t].client
        /\ live[t] <=> link[t] = "up"

\* See Identity: across failures, restarts and repairs, brokers and mesh see
\* the observer under one key.
OriginKept == Id!IdentityKept

\* Copies of one packet that came over different paths are reported under one
\* hash, other packets under others, and none that can be decoded under the
\* hash that stands for none.  A TRACE is left out: its hash covers the length
\* of the path, which grows from hop to hop.
HashIdentifiesPacket ==
    event.raw # <<>> /\ Decodable(event.raw) =>
        /\ event.hash # NoHash
        /\ \A raw \in Raws \ {<<>>} :
            LET p == DecodePacket(event.raw)  q == DecodePacket(raw)
            IN  Decodable(raw) /\ p.type # TRACE =>
                    (BuildEvent(raw).hash = event.hash <=> p.type = q.type /\ p.payload = q.payload)

\* While the observer goes on, a target that is down, hangs or times out costs
\* the others nothing, and no event is doubled: when the loop takes the next
\* packet, every target that is connected has got this one once, and no broker
\* has got it twice.  Of the event in which a target raises it says nothing:
\* run() ends with it.
ConnectedGetEvery ==
    [][loop = "gather" /\ loop' = "recv" =>
          \A t \in T : copies[t] <= 1 /\ (live[t] => copies[t] = 1)]_vars

\* A status of "online" without a connection is on its way to "offline", or
\* belongs to an observer that said goodbye.
OnlineIsTrue == \A t \in T : status[t] = "online" => live[t] \/ stale[t] \/ left[t]

\* The back-off of a target is a pause and never the end: while the observer
\* runs and packets come, a target that is not connected is tried again.
TargetRetried ==
    \A t \in T :
        <>[](loop \in {"recv", "gather"}) /\ []<>(loop = "recv") /\ []<>(loop = "gather")
            => []<>(live[t] \/ target[t].pc = "connecting")
=============================================================================
