------------------------------ MODULE GatewayRx ------------------------------
(***************************************************************************)
(* The gateway's way from the modem to the bus: serial_to_mqtt in          *)
(* mesh_gateway/gateway.py, behind the decoder of Kiss.                    *)
(*                                                                         *)
(* A chunk of bytes goes through feed() without an await; then the frames  *)
(* that it completed are published one by one, and each publish may fail.  *)
(* The decoder is older than the MQTT connection and outlives it.          *)
(***************************************************************************)
EXTENDS Kiss

DATA == 0

VARIABLES
    rx,       \* serial_to_mqtt: "off", at its "read", in "feed", at a "publish" or "returned"
    eof,      \* whether the modem's stream has ended
    todo,     \* the frames of the chunk that are not yet published
    bus,      \* history: what was published on the RX topic
    dropped   \* history: data frames that a failure kept from being published

task == <<rx, eof, todo, bus, dropped>>
rxVars == <<serial, task>>

DataOf(frames) ==
    FlattenSeq([i \in DOMAIN frames |-> IF frames[i].command = DATA THEN <<frames[i].data>> ELSE <<>>])

RxInit ==
    /\ InitLine
    /\ rx = "off"
    /\ eof = FALSE
    /\ todo = <<>>
    /\ bus = <<>>
    /\ dropped = 0

\* Mutant: every connection gets a decoder of its own.
ConnectsAfresh ==
    /\ rx = "off"
    /\ rx' = "read"
    /\ NewDecoder
    /\ UNCHANGED <<line, sent, emitted, lost, eof, todo, bus, dropped>>

\* The connection is there and the bridge tasks start.
RxConnects ==
    /\ rx = "off"
    /\ rx' = "read"
    /\ UNCHANGED <<serial, eof, todo, bus, dropped>>

\* One byte of a chunk, which goes on or ends with it.
ReadByte(last) ==
    /\ rx \in {"read", "feed"}
    /\ Feed
    /\ line' = <<>> => last
    /\ todo' = todo \o SubSeq(emitted', Len(emitted) + 1, Len(emitted'))
    /\ rx' = CASE ~last -> "feed" [] last /\ todo' = <<>> -> "read" [] OTHER -> "publish"
    /\ UNCHANGED <<eof, bus, dropped>>

\* Mutant: what is not data ends the loop over the frames.
PublishUntilOther ==
    /\ rx = "publish"
    /\ bus' = bus \o DataOf(<<Head(todo)>>)
    /\ todo' = IF Head(todo).command = DATA THEN Tail(todo) ELSE <<>>
    /\ rx' = IF todo' = <<>> THEN "read" ELSE "publish"
    /\ UNCHANGED <<serial, eof, dropped>>

\* The next frame of the chunk; only data is published.
Publish ==
    /\ rx = "publish"
    /\ bus' = bus \o DataOf(<<Head(todo)>>)
    /\ todo' = Tail(todo)
    /\ rx' = IF todo' = <<>> THEN "read" ELSE "publish"
    /\ UNCHANGED <<serial, eof, dropped>>

\* The end of the stream: serial_to_mqtt returns, and the gateway stays up.
RxSerialEOF ==
    /\ rx = "read" /\ line = <<>>
    /\ eof' = TRUE
    /\ rx' = "returned"
    /\ UNCHANGED <<serial, todo, bus, dropped>>

\* Mutant: the frames of the chunk are kept for the next connection.
StopAndKeep ==
    /\ rx \in {"read", "publish", "returned"}
    /\ rx' = "off"
    /\ \E n \in {0, IF todo = <<>> THEN 0 ELSE Len(DataOf(<<Head(todo)>>))} :
        /\ bus' = bus \o SubSeq(DataOf(todo), 1, n)
        /\ dropped' = dropped + Len(DataOf(todo)) - n
    /\ UNCHANGED todo

\* A publish raises or is cancelled, having reached the broker or not, and
\* what is left of the chunk goes with the task.
Stop ==
    /\ rx \in {"read", "publish", "returned"}
    /\ rx' = "off"
    /\ \E n \in {0, IF todo = <<>> THEN 0 ELSE Len(DataOf(<<Head(todo)>>))} :
        /\ bus' = bus \o SubSeq(DataOf(todo), 1, n)
        /\ dropped' = dropped + Len(DataOf(todo)) - n
    /\ todo' = <<>>

\* The broker is gone; run() connects again.
MqttLost ==
    /\ Stop
    /\ UNCHANGED <<serial, eof>>

\* An operation fails on a live connection: the process ends.  The next opens
\* the modem again with a new decoder, which misses the frame that is under way.
\* Bytes of `line` that the process had in its StreamReader are gone too: that
\* is any number of LineLoses, each counted.
RxOperationFails ==
    /\ Stop
    /\ eof' = FALSE
    /\ lost < MaxLost
    /\ lost' = lost + 1
    /\ NewDecoder
    /\ UNCHANGED <<line, sent, emitted>>

Modem(f) ==
    /\ ~eof
    /\ Send(f)
    /\ UNCHANGED task

\* A chunk that has been read is safe.
LineLoses ==
    /\ rx # "feed"
    /\ Lose
    /\ UNCHANGED task

RxNext ==
    \/ \E f \in Frames : Modem(f)
    \/ LineLoses
    \/ RxConnects
    \/ \E last \in BOOLEAN : ReadByte(last)
    \/ Publish
    \/ RxSerialEOF
    \/ MqttLost
    \/ RxOperationFails

RxSpec == RxInit /\ [][RxNext]_rxVars
-----------------------------------------------------------------------------
(* Properties *)

Increasing(f) == \A i, j \in DOMAIN f : i < j => f[i] < f[j]

\* s is t without some of its entries.
Subsequence(s, t) ==
    \E f \in [DOMAIN s -> DOMAIN t] : Increasing(f) /\ \A i \in DOMAIN s : s[i] = t[f[i]]

\* s and t have k entries in common, in the same order.
Common(s, t, k) ==
    \E g \in [1..k -> DOMAIN s], h \in [1..k -> DOMAIN t] :
        Increasing(g) /\ Increasing(h) /\ \A i \in 1..k : s[g[i]] = t[h[i]]

\* The bus carries what was decoded, in order, each packet once, whatever
\* fails and however often the gateway connects again.
BusInOrder == Subsequence(bus, DataOf(emitted))

\* A reconnect costs nothing while no publish is under way, although it may
\* come in the middle of a frame: without a lost byte and a failed publish
\* the bus gets exactly the packets that the modem sent.
ReconnectCostsNothing ==
    lost = 0 /\ dropped = 0 =>
        /\ IsPrefix(bus, DataOf(sent))
        /\ line = <<>> /\ todo = <<>> => bus = DataOf(sent)

\* A packet that does not reach the bus was damaged on the line, or it was in
\* a chunk whose publish failed; all others pass, whatever is between them.
LossAccounted ==
    line = <<>> /\ todo = <<>> =>
        \E k \in 0..Len(DataOf(sent)) : Common(DataOf(sent), bus, k) /\ k + lost + dropped >= Len(DataOf(sent))
=============================================================================
