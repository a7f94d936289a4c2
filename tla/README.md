# softmesh: a TLA+ verification project

softmesh runs MeshCore services in Python. A gateway bridges a LoRa modem (KISS over a serial
line) and an MQTT broker; services on the broker (a room server, an echo server, an observer)
speak the MeshCore protocol. This directory holds TLA+ models of the parts whose correctness
depends on interleaving, loss, time-outs and crashes, and of the formats that everything travels in,
the TLC configurations that check them and TLAPS proofs of their safety.

## 1. Inventory

| part | state | operations | talks to |
|---|---|---|---|
| room server, `room_server/protocol.py` | `_sessions` (client, route), `_recent_messages`, `_ack_waiters`, names, background tasks | `handle_login`, `handle_post`, `handle_ack`, `handle_path`, `handle_advert`, `sync_client`, `fan_out`, `push_post`, `wait_for_ack` | MQTT (rx/tx topics), the store, clients over the radio |
| room push delivery, `deliver_room_push_with_ack` in `softmesh_stack/room.py` | attempt counter, path of the push | direct attempts, then floods, until an ACK | `publish`, `wait_for_ack` |
| room store, `room_server/db.py` | tables `posts`, `clients` in one SQLite connection | `add_post`, `posts_since`, `upsert_client`, `set_client_cursor` | all tasks of the room server |
| mesh gateway, `mesh_gateway/gateway.py` | back-off, airtime used in the window, transmit queue, a decoder older than the connection | open the modem, connect, announce, `serial_to_mqtt`, `mqtt_to_serial` within the duty cycle | modem, broker |
| KISS framing, `softmesh_stack/kiss.py` | decoder buffer, escape flag, in-frame flag | `encode`, `feed` | serial line |
| echo server, `home_auto_client/echo_server.py` | contacts and their cache file, recent messages and paths, `_ack_waiters` | `handle_txt_msg`, `handle_path_msg`, `handle_req_msg`, `handle_advert`, `deliver_echo` | MQTT, senders over the radio |
| message, packet and advert codecs, `messaging.py`, `room.py`, `packet.py`, `advert.py` | none | build and parse | everyone |
| identity store, `identity.py` | a file | from the environment, load, generate, save | all services |
| observer, `observer/reporter.py` | per forward target a client, `_backoff`, `_next_retry`; retained statuses at the brokers | `forward_loop`, `publish`, `_connect`, `close` | broker, remote brokers |
| cryptography, `crypto.py` | none | AES, HMAC, SHA-256, Ed25519, X25519 | everyone |
| configuration, presets, tools | none | parse the environment | everyone |

What is hard in this code, and what makes each part correct:

* **Shared ACK waiters.** All push tasks of the room share one table from ACK hash to futures, and
  two tasks may wait for the same hash. Time-outs, late ACKs and clean-up race with each other.
  A push must be reported as acknowledged only if its own client received it, no waiting task may
  drop out of the table, nothing stale may stay in it, and every push must end.
* **Routes.** A route is learned from the path of inbound floods (to be reversed) and from PATH
  answers (not to be reversed); it goes stale when a client moves. A stale route must never cost a
  client its post: floods have to follow.
* **Store and forward.** A post becomes visible in several steps (ACK, INSERT, commit, fan-out)
  interleaved with logins, syncs and pushes over one database connection; each step may raise and
  the process may die between any two. Nobody may fall between sync and fan-out, the cursor must
  never go back or run ahead of what is on disk, and a repeated message must be stored once.
* **Duty cycle.** Airtime is counted after the fact and forgotten when the connection is made
  anew. The cap must hold in every window, and a message that fits must eventually be sent.
* **Framing and the receive path.** The decoder starts anywhere, bytes get lost, and the MQTT connection may
  go in the middle of a frame or between the frames of one chunk. What reaches the bus must be what the
  modem sent, in order and once, and every loss must have its cause.
* **Formats.** Texts end at a NUL, at the end of a cipher block or in padding; ACK hashes may end in
  zeros; paths have hashes of one to four bytes and a limit that the encoder does not know; several
  nodes share a one-byte address; KISS has no checksum. A message must be understood as it was meant, a
  damaged one ignored, and the answer must find its way and be recognised.
* **Forwarding.** One `gather()` waits for all targets. A target that is down, hangs or times out
  must not cost the others an event (one whose lost connection raises does: it ends `run()`, section 4);
  nothing may be sent twice; a retained "online" must not outlive its reason; the back-off must end.
* **Identity.** The identity file is written in place. Whatever fails or dies, nobody may see a service
  under a second key.

The hazards, with the source line where each bites and the properties that cover it, are listed in
`PROJECT.json`.

## 2. Modules

| module | models |
|---|---|
| `PushOutcome` | the abstract promise of a push: it begins, may be received, and ends with a truthful outcome |
| `RoomPush` | push tasks, `_ack_waiters`, sessions and routes, over an unreliable network |
| `RoomPushProof` | TLAPS proofs about `RoomPush`, with its refinement of `PushOutcome` |
| `Room` | handlers, background tasks and the database; a push is what `PushOutcome` promises |
| `Gateway` | life cycle, back-off and duty-cycled transmission |
| `Echo` | the echo server's contacts and cache file, deduplication, best path and delayed replies |
| `EchoDelivery` | `deliver_txt_msg_with_ack` over the echo server's `_ack_waiters` |
| `Kiss` | `encode` and the streaming decoder on a lossy line |
| `GatewayRx` | `serial_to_mqtt` behind the decoder of `Kiss`, across reconnects and restarts |
| `Packet` | the packet format on bytes: header, path length, transport codes, path, payload |
| `Wire` | the payload formats on bytes: text, PATH, ACK, request, login and its response, room push, advert; sealing and signing, symbolically |
| `Exchange` | one message from its sender to its receiver and the answer back, through `Packet`, `Wire` and the handlers of the room and the echo server |
| `Identity` | how a service comes by its key: environment, file, generated and saved |
| `Observer` | events, forward targets, their brokers, the end of `run()`; on top of `Identity` and `Packet` |
| `RoomProof`, `EchoProof`, `EchoDeliveryProof` | TLAPS proofs about the module they are named after |
| `GatewayProof` | TLAPS proofs about both halves of the gateway: `Gateway`, and `GatewayRx` with `Kiss` |
| `PacketProof` | induction and joined sequences, lemmas about the packet format, and that it survives its bytes |
| `ObserverProof`, `ExchangeProof` | TLAPS proofs about `Observer` (with `Identity`) and `Exchange` (with `Wire`), on top of `PacketProof` |
| `MCRoomPush`, `MCRoom`, `MCEcho`, `MCEchoDelivery`, `MCKiss`, `MCExchange`, `MCObserver` | instances for TLC; `MCKiss` is one of `GatewayRx` |

Definitions whose comment begins with "Mutant" are not part of any specification. They are plausible
bugs in the code they stand next to, and each property is known to catch one of them.

**Grain.** In `RoomPush`, `Room`, `Echo` and `EchoDelivery` an action is what the asyncio event loop runs between two
awaits, and so in `Observer`. In `Gateway` it is a step of `run()` or of `flush()`; in `Kiss` and `GatewayRx` one
byte, or one `publish()`; in `Exchange` one leg of the journey of a message.

**RoomPush.** `pc[p]` says where a task is: `publishing` (in `publish()`), `published` (the packet
has left, `publish()` has not returned), `waiting` (in `wait_for_ack`), or how it ended. `fut[p]` is
the future of `wait_for_ack`. `asyncio.wait_for` may time out while the future is pending
(`cancelled`) or after its result was set but before the task ran (`overtaken`; since Python 3.12
the time-out wins). `down` and `up` hold every packet ever put on the air; delivery does not remove
it, so loss, delay, duplication and reordering need no action of their own. A PATH answer is opened
by the session whose key fits; other sessions ignore it. `Move` changes the route that leads to a
client. `Crash` ends all tasks: the room server does not reconnect, `run()` ends with the connection
and a supervisor starts it again.

**Room.** `handler` is the receive loop, which finishes one packet before it takes the next; `fans`,
`syncs` and `pushes` are background tasks. `posts`, `clients` and `cursor` are the tables as the
connection sees them and `disk` is what is committed. `commit()` by any task commits what all tasks
have executed, since they share the connection. `HandlerFails`, `SyncFails` and `PushFails` let any await raise;
`Crash` loses everything but `disk`. `begun`, `synced`, `skipped` and the `at`/`run` fields of a row
are history variables.

**Echo.** `handler` is the receive loop; `tasks` are the `deliver_echo` tasks asleep in their delay. The
cache file is missing, torn (a write was cut short) or holds the contacts of the last save; `Down` is
the time between a death and the next start, which may itself die while it saves. Times kept in
`paths`, `tasks` and `echoed`, and the `longest` and `again` of a task, are history; so are `unsaved` (the last
write of the cache failed) and `failed` (the messages whose handling an exception ended), which let
`CacheCurrent` and `AckedIsEchoed` say precisely what a fault may cost.

**EchoDelivery.** As `RoomPush`, without routes that change; three things differ in the code and so in
the model: the timestamp moves on when the attempt number wraps around, the ACK hash has no recipient in it,
and `handle_path_msg` does not look at a bundled ACK.

**Gateway.** Time is kept as ages (`usage`, `onAir`, `earlier`) and remaining waits, so the state space is
finite. The queue never holds more than one message, because `flush()` empties it before the next
message is taken, so it is one field of `tx`. `onAir` is a history of what the radio sent for this
connection in the last window, and `earlier` of what it sent for the connections before. `Expired` is the number
of entries that the inner loop of `flush()` pops from the front: it stops at the first that is young enough.

**Kiss and GatewayRx.** `line` holds bytes under way. The initial line may be the end of an earlier frame. A chunk
is fed byte by byte without an await in between (`feed`); the frames that it completed are then published
one by one (`todo`). A failing publish may have reached the broker or not; it takes the rest of the chunk with
it. `MqttLost` ends the bridge and keeps modem and decoder; `RxOperationFails` ends the process, since the
ExceptionGroup of a failed operation passes by `except MqttError`, and the next process has a new decoder, so
it is counted as a loss on the line. What the process had read into its StreamReader dies with it; in the model these
are bytes of `line` that `LineLoses` takes, each counted in `lost`. After `RxSerialEOF` the task has returned and nothing reads any more.
`sent`, `emitted`, `bus`, `lost` and `dropped` are history. The names of `GatewayRx` that `Gateway` has too
begin with `Rx`, so that `GatewayProof` can speak of both.

**Packet, Wire and Exchange.** Packets and payloads are sequences of bytes, laid out field by field as the code
does it. Only cryptography is symbolic: a sealed byte, a byte of a MAC or of a signature is a tuple that
names its key (and, for a MAC or a signature, what it covers), and the preimage of a hash stands for the
hash, until it becomes the four bytes of `digest` on the wire, which the run chooses, zeros among them. `Pub` gives the client and a
neighbour the same address byte and every key a zero byte. An exchange is `Send`, `Relay` (repeaters add
their hashes to a flood), `Receive` (the serial line may have cut the end off), `Answer`, `Return`. The
client's side is MeshCore firmware, modelled from the code that builds and parses the same formats and marked external in
`PROJECT.json`. One message per exchange is enough: the formats keep no state, and the only state a
receiver consults here is `known`, the newest advert of the client. The assumptions say what the fields have room
for: a time is four bytes, a coordinate four with a sign, a feature two, a digest four; a text or a name is any
sequence of bytes. `Unrelated` is what the hash of anything but the expected preimage looks like, so no digest is equal to it.
A channel message names its sender by the address byte in the payload (`sender_hash`), not by a key, and
`Sender` compares that. A text is `Clean` when it has no NUL and is UTF-8; only such a text can come back from decoding, and the properties say
what holds of the others too.

**Identity and Observer.** `file` is missing, a part (shorter than seed and key) or whole. `SaveFails` stands for a
raising write and for a death in it. An operator may remove a file that cannot be loaded. `used` records the
keys under which the service has begun to work. In `Observer` a connection has two ends: `link` is what
aiomqtt knows ("up", "dead" but not noticed, "lost") and `live`/`stale` what the broker has. QoS 0 lets a
publish on a dead connection return as if all were well. A time-out may come after the event got through;
`close()` then disconnects, or raises on a connection that is dead, as it does on one that is lost. A connect that
fails, is cancelled or dies half-way may leave a connection at the broker (`LeaveBehind`), with its will.
The retained `status` becomes "online" by the announcement and "offline" by a will, when the broker
notices. Since `forward_loop` finishes an event before it takes the next, the state of one is enough.

## 3. Runs

| run | instance | shows |
|---|---|---|
| `push_shared_waiters` | 3 tasks (two for the same post and client), 2 clients, 1 direct + 2 floods | the safety of the waiter table, routes and outcomes, and the refinement of `PushOutcome` |
| `push_attempt_wrap` | 1 task, 2 direct + 3 floods, a client with two routes, fair | five attempts, so that attempt number 4 is sent as 0 again; the number on the wire keeps its two bits, and the push ends |
| `room_posts` | 2 clients, 2 posts with timestamps out of order and a message that is no post, 2 logins, 1 exception, 1 crash | sync/fan-out gap, durability, a cursor that never goes back |
| `room_repeats` | 1 post, TTL 0 and a clock of one tick, 3 logins, sync limit 1, fair | deduplication at its boundary, every sync ends |
| `gateway_duty_cycle` | window 4, budget 3, airtimes 1, 2 and 4, fair | the cap per connection; a fitting message is sent |
| `echo_server` | 1 configured sender that changes its name, 2 messages, one in copies of 0 and 1 hops; TTL 1, 2 ticks, 1 exception, 2 deaths | the cache is what a restart needs; names never revert; deduplication; paths that are fresh and longest; every ACKed message echoed |
| `echo_reply` | 2 replies with one text to 2 nodes, the second begun a second later, 4 direct + 1 flood, fair | the attempt reported is one that was received, or one whose hash the other reply had; delivery ends |
| `kiss_line` | 2 frames of up to 2 special bytes, data or not, chunks of any size, 2 lost bytes or restarts, 4 starting points | the bus carries what the modem sent, in order, once; a reconnect costs nothing; every missing packet has a lost byte, a restart or a failed publish to answer for it |
| `exchange_formats` | seven kinds of messages, texts at the ends of cipher blocks or with a NUL, paths of up to 64 bytes with hashes of 1 to 4 bytes, ACK hashes that end in zeros, ends cut off | whole messages are understood as meant, shortened ones ignored, ACKs recognised, answers find their way and can be encoded, names never revert |
| `observer_forward` | 2 targets, 4 packets (two copies of one, one that cannot be decoded), back-off up to 2, identity from the environment or the file, fair | one key for good; hashes; while the observer goes on, no target costs another an event and none is sent twice; truthful statuses; every target is tried again |
| `room_ack_before_store` | violation | finding 1 |
| `gateway_duty_cycle_reconnect` | violation | finding 2 |

The type invariants of `RoomPush` and `Room` are part of a run; those of `Echo`, `EchoDelivery`, `Gateway`,
`GatewayRx`, `Exchange` and `Observer` are proved, and no run lists them.

**Why the bounds are enough.** Two tasks on one hash are the least that share an entry of
`_ack_waiters`, and the third, with another client, shows that the hash keeps clients apart. Five
attempts are the least that reuse a wire attempt number. In `echo_reply` the fifth is a flood, which no plain ACK
confirms, so only the ACK of another attempt can; and with it, since the wire timestamp moves on, the
first reply shares a hash with the first attempt of the second. A route of two repeaters is the least that
differs from its reverse. Two posts with clocks out of order are the least for which the order by
timestamp differs from the order of insertion. One exception and one crash can strike between any two
steps. With a TTL of 0 the tick of the first copy is its whole lifetime and the next
tick lies beyond. `Reply` of `Echo` is never urgent, so a delay of 0 still lets copies arrive
while a reply waits. Paths of 16 hashes of 4 bytes, and of 32 of 2, have exactly the 64 bytes that firmware accepts, and 63
is the highest count that the byte can hold; texts of 6, 7, 10, 11 and 12 bytes make the plaintext of a push or
of a text end just before, at and after a block, with and without the NUL; a cut of 1, 16 or 40 bytes breaks the block, removes a
whole block, or reaches into header and MAC. Two targets are the least for which one can hold up the other, and a
back-off of 2 is the least that is doubled and capped. Two frames are the least for which one chunk holds several, and for
which a loss can run two frames into one. Airtimes 1 and 2 fill a budget of 3 exactly and overfill it; 4 never fits. The safety results
that section 5 lists do not depend on the bounds: they are proved.

**Deadlock** is checked except in `Room` and `GatewayRx`, where the bounds on logins, messages and frames
let the model run out of input, and in `Exchange`, which is over when the answer has come. There the server
simply waits.

**Fairness.** `RoomPush` and `EchoDelivery`: `publish()` comes back (or raises), a timer fires, and the event loop resumes
a ready task. Nothing is asked of the network or of the clients, which may never answer. `Room`: the
handler, `fan_out` and the syncs run when ready, and a push comes to an end, which is `PushEnds` of
`RoomPush`. `Gateway`: time passes and `mqtt_to_serial` runs when it is ready; the broker and the modem
may fail for ever. `Observer`: every connect and publish of a target ends, in whatever way (aiomqtt has time-outs for both);
keep-alives let both ends notice a dead connection; `gather()` returns when its tasks have; time passes.
Brokers may refuse for ever, and no packet has to come: `TargetRetried` is stated for runs in which packets
do.

## 4. Findings

1. **A post is acknowledged before it is stored** (`protocol.py:317`). The module docstring says "stores
   it, ACKs it". When the process dies in between, the client holds an ACK for a post that no longer
   exists. After a mere exception in `add_post` a repetition is even acknowledged again, as a
   duplicate, without being stored. `AckedPostKept` shows that all is well while nothing fails.
2. **The duty-cycle count is lost on reconnect** (`gateway.py:147`). `usage` and `used` are locals of
   `mqtt_to_serial` and start from nothing on each connection, so one 60-second window can hold
   more than the budget. The README says the setting "caps transmit airtime as a fraction of each
   60-second window". `DutyCyclePerConnection` shows the cap within one connection.

**Observations** that have no run of their own. The first two are at odds with what the repository says:

* When a target's connection is known to be lost, `publish()` raises, and so does the `__aexit__` in `close()`:
  the exception leaves `gather()` and ends the observer, although the log says "reconnecting"
  (`reporter.py:289`). The other targets may lose the event, and the bus is not heard until the supervisor has started
  the observer again. `ConnectedGetEvery` holds of every event but that one. The same may happen after a time-out
  on a dead connection.
* The echo server remembers a message before it ACKs it (`echo_server.py:292`). When `publish()` raises in
  between, no echo is spawned, and repetitions are ACKed as duplicates until the TTL is over: the sender holds an ACK and
  gets no echo, although the README of the repository calls this "an echo server that replies to every direct message"
  (`README.md:18`). `AckedIsEchoed` shows that this happens only to the message whose own handling raised.
* The ACK hash of a text message does not cover the recipient (`messaging.py:467`). When two nodes send the same text
  in the same second over the same path, or some seconds apart with retries, attempts of the echo server's replies share a
  hash and one node's ACK confirms both. `AckedAttemptReceived` shows that the confusion goes no further. `RoomPush`
  shows that a hash keyed by the recipient, as for room pushes, rules it out.
* A message whose airtime alone exceeds the duty-cycle budget is never sent, and `flush()` waits with it
  and with everything behind it until the connection is lost (`gateway.py:168`).
* The contact cache is written in place (`echo_server.py:138`). A write that is cut short leaves a file that does
  not parse, and the next start knows the configured contacts only.
* Clients answer a flood with a PATH that bundles the ACK. The room server uses it; `handle_path_msg` of the echo
  server (`echo_server.py:397`) does not, so a flooded reply is never confirmed.
* A client that repeats a post with the next attempt number changes its ACK hash, and the room stores the
  post again (`protocol.py:313`).
* A text with a NUL inside, or that is not UTF-8, is decoded to another text, and the ACK hash is taken of
  that; its sender never recognises the ACK. `AckKnown` says that this is the only reason.
* `encode` of `kiss.py` leaves the type byte unescaped although it accepts every port and command (port 12
  with command 0 is a delimiter on the wire). Modem and gateway use port 0 only.
* After the end of the serial stream the gateway stays connected and deaf (`gateway.py:130`).
* A clean close leaves the retained "online" as it is, and the will of an old connection may come after the "online" of
  a new one (`reporter.py:237`). `OnlineIsTrue` says what remains true.
* `forward_loop` waits for the slowest target before it takes the next packet.

## 5. Proofs

Every safety property that a passing run checks, invariant, action property or refinement, is also a theorem. Every
theorem holds for all values of the constants that satisfy the named assumptions of the modules:
any number of clients, posts, tasks, messages, targets, attempts, faults and crashes, any TTL, window and
budget, any frames, texts, passwords, names and paths. The assumptions only give the constants their types (messages have authors and natural timestamps,
paths have hashes of one to four bytes, bytes are `0..255`, what a field holds fits into its bytes, a frame's
type byte is none of the bytes that KISS treats specially (section 4), the end of an earlier frame has a delimiter only as its last byte, a back-off has a cap of at least one, "none" is no seed).
One theorem has a hypothesis beyond that, `OwnAttemptIsReceived`.

| module | theorem | what it shows |
|---|---|---|
| `RoomPushProof` | `TypeCorrect`, `AckedIsReceived`, `WaitersAreExact`, `RoutesAreSound`, `GivenUpAfterFloods` | types and the safety invariants of `push_shared_waiters` |
| | `AckReachesAllWaiters` | one ACK resolves every task that waits for its hash (action property) |
| | `Refinement` | `RoomPush` implements `PushOutcome` |
| `RoomProof` | `TypeCorrect`, `FanOutDurable`, `CursorOnDiskSound`, `NothingFallsBetween`, `AckedIsKept`, `StoredOnce` | `TypeOK`, `FanOutIsDurable`, `DurableCursorSound`, `NoGap`, `AckedPostKept`, `StoredOncePerTTL` |
| | `CursorMonotone` | `CursorNeverGoesBack` (action property) |
| `EchoProof` | `TypeCorrect`, `CacheIsCurrent`, `EchoedOnce`, `RepliesGoFreshPaths`, `LongestPathIsUsed`, `AckedAreEchoed` | types, `CacheCurrent`, `EchoedOncePerTTL`, `ReplyPathFresh`, `LongestPathUsed`, `AckedIsEchoed` |
| | `NamesDoNotRevert` | `NamesNeverRevert` (action property) |
| `EchoDeliveryProof` | `TypeCorrect`, `AckedAttemptIsReceived` | types, `AckedAttemptReceived` |
| | `OwnAttemptIsReceived` | an ACK is that of one's own attempt, if no two replies share a hash |
| `GatewayProof` | `TypeCorrect`, `BudgetIsKept` | types, with a sum that never exceeds the budget; `DutyCyclePerConnection` |
| | `KissTypeCorrect`, `RxInvariant` | types of the receive path: what the decoder returns can be encoded again; its inductive invariant |
| | `BusOrdered`, `ReconnectFree`, `LossIsAccounted` | `BusInOrder`, `ReconnectCostsNothing`, `LossAccounted` |
| `PacketProof` | `RoundTrip` | what `encode_packet` writes, `decode_packet` reads as the packet it was |
| `ObserverProof` | `TypeCorrect`, `OneOrigin`, `StatusIsTrue`, `HashTellsPackets` | types, `OriginKept`, `OnlineIsTrue`, `HashIdentifiesPacket` |
| | `EveryTargetGetsEvery` | `ConnectedGetEvery` (action property) |
| `ExchangeProof` | `TypeCorrect`, `ShortenedIsIgnored`, `AnswersAlwaysFit` | what travels can be decoded; `ShortenedIgnored`, `AnswerFits` |
| | `UnderstoodIsMeant`, `AckIsKnown`, `WayBackHolds` | `UnderstoodAsMeant`, `AckKnown`, `WayBack` |
| | `NewestNameIsKept` | `NewestNameKept` (action property) |

None of the invariants is inductive as it stands. What each proof adds, and why:

**RoomPush.** `FutureWhileWaiting`: a future exists exactly while its task waits; without it a task could have a
pending future after its clean-up, and `WaiterRegistered` would not be preserved by `Resume`. `ReplySound` and
`ResultSound`: an ACK on the air, or a result not yet seen by its task, is for something its client received, whatever the attempt;
this is why an ACK of an earlier attempt, or one whose wire number was reused, may resolve a later waiter.
`ReplyRouteSound`: routes in PATH answers on the air lead to the client that sent them. `PushBegun`: packets on
the air belong to pushes that have begun, which the refinement needs for a client that receives a packet after its push has ended.
`FloodsSent`: which floods are on the air at each attempt. `ReverseReverse` is the fact about
`reverse_path` that `RoutesAreSound` rests on. The refinement mapping forgets everything but the outcome.

**Room.** `HandlerSound`: a row that waits for its commit is the last one, and a login at work has its session.
`Committed`: the posts on disk are a prefix of those that the connection sees, and the cursors on disk are
behind, so that a commit by any task, and a crash, are both harmless. `Delivered`: every cursor, committed or not, is accounted for
by a row whose post the client received, and so is every cursor about to be moved. `SyncSound` with `Pending`: a post
that a synced client lacks is in the fan-out, in a sync, or still at the handler. `Remembered`: a
row of this run is in `_recent_messages` until it is older than the TTL, and a message about to be stored has no
younger row. `AckedOrHandled`: what is remembered is on disk or still being handled, which is what makes the second
ACK of a repetition truthful while nothing fails.

**Echo.** `DownForgets`: a dead process has no timestamps (for `NamesNeverRevert`). `Once`: every task's message is remembered
until it expires, and tasks of one message lie more than the TTL apart. `FreshPaths`: paths are kept only for
remembered messages, so a path older than its message cannot be there. `LongestKept`: within the TTL the path of the longest
copy is still there. `AckedOrHandled`: a message that was ACKed or is remembered has its task, is still at the handler, or
is one whose handling raised; it has to speak of remembered messages, since a repetition is ACKed on their account.

**EchoDelivery.** `AirSound`, `WaiterSound`, `ResultSound`: an answer tells of a received attempt, and a task is
listed only under the hash of its current attempt. `AttemptsDiffer`: no two attempts of one reply share a hash, since the
timestamp moves on where the number wraps, so an ACK that is not for this attempt comes from another reply. The hypothesis
of `OwnAttemptIsReceived`, that there is none with the hash, is what the code leaves to chance (section 4).

**Gateway.** `Matches`: what is on the air for this connection is, entry by entry, the end of `usage`, and each entry
began before it was counted, so it leaves the air before it leaves the count. In `drain()` the last
transmission is not counted yet, but its airtime fits the budget with what is (`Counted`, `Budgeted`). `EvictionExact`: `max(0, used - a)`
never cuts anything off, since `used` is exactly the sum of `usage`. `Ordered`: the histories are oldest
first, without which dropping entries from the front would not drop the old ones.

**Packet, Observer and Exchange.** `EncodedParts` and `DecodedFacts` say where `encode_packet` puts each field and where
`decode_packet` finds it, for payloads of bytes or of symbolic bytes. `ObserverProof`: `IdentitySound` (a file that is
not whole has never been used), `LinkSound` and `CopySound` (what aiomqtt and the broker know of each other at each
place of `publish()`), and that a hash input can be taken apart in one way only.

**Exchange.** `IInv` has `WireSound` (the bytes on the way are those of a packet that carries the message and fits, after any number of
repeaters) and `InboundSound`. The lemma behind `ShortenedIsIgnored` is that a MAC, or a signature, names all that it covers,
so none that is left after a cut matches what is left; this is where the symbolic cryptography enters. `AnswersAlwaysFit`
follows from `RoundTrip` and the bounds of a reversed path. `MeantInv` adds what the journey there has to be remembered
for on the way back. `HeardSound`: an advert on the air is one that `encode` accepted, what arrived whole is `Understood`
(one sender, and a text that is clean, and the one that was sent if that was clean), and the path it came by is valid. `KnownSound` and `DigestSound`
are types. `AnswerSound`: the answer is the one to what was heard, and `back` is what its sender reads from it. `Understood` says that the
decoded text is clean because `AckKnown` is an equivalence: were it not, an ACK could match a text that does not survive. The lemmas that carry it go from fields to formats: a time, a coordinate and a feature survive their bytes;
what comes before the first NUL, and what is left without the zeros at the end, is the text (`DecodedText`, `StrippedText`); each
plaintext is read as it was written (`TextRead`, `PushRead`, `LoginRead`, `ReqRead`, `PathRead`, `ResponseRead`, `AppRead`);
what one key seals, no other key opens (`SealOpens`), so the room tells the client from the neighbour with the same address;
`ReversedHashes` turns the hashes and not their bytes; `PreimageSame` says that a preimage determines its text.
This proof changed the model: the assumptions on messages were too weak to say what a field can hold, the login clause of `WayBack`
claimed a role for passwords that do not survive decoding, and two arms of a CASE in `Learn` overlapped.

**Kiss and GatewayRx.** `RxInv` looks ahead: let the decoder take all that is on the line; what it will then have put out is all that was
sent but for as many packets as bytes, decoders and publishes were lost (`Accounts`), exactly that if nothing was lost (`Exact`),
and what it has put out so far is an ordered part of what was decoded (`Subsequence`, by an increasing map of positions). This alone is not inductive
when a byte is lost. Frames have a delimiter at each end, so two meet between frames. Losing one of them costs nothing at
once, and then the other, when it is lost too, runs two frames into one and costs two packets for the second byte. `Sure` therefore writes
the frame under way off as soon as only one delimiter is left to end it (`Pending`), and `Spaced` says where a delimiter
can be alone: nowhere, but at the end of what the decoder did not hear the beginning of. With these, each lost byte costs at most one packet more, whatever
the frames contain. A restart is a decoder that begins outside a frame, and costs at most the frame under way.

**Induction.** The library's induction theorems have an operator as parameter and cannot be used here. `PacketProof` derives
what is needed from the well-foundedness of the naturals on sets instead: `Least` (a set of naturals that is not
empty has a least element) and `Induction` (a set that contains 0 and is closed under successor up to `l` contains `0..l`).
With it the prefix sums of `Gateway`, the joins that `FlattenSeq` computes and the runs of a decoder over a line are shown to exist
and to grow step by step, and everything about them is proved along those steps.

**Only model-checked.**

* Liveness (`PushEnds`, `SyncEnds`, `ReplyEnds`, `MessageTransmitted`, `TargetRetried`): out of the prover's reach.
* Findings 1 and 2 are counterexamples, found by TLC.

## 6. Abstractions and what is left out

* The 4-byte ACK hash, the MAC and the path hashes are taken as injective and unforgeable: a packet
  is opened by the one session it is meant for. The ACK hash of a push is keyed by the recipient
  and covers the post and the attempt, as in `room_push_ack_hash`.
* A client answers as the MeshCore firmware does: a flood with PATH and bundled ACK, a direct packet
  with a plain ACK. It may also never answer.
* `Room` lets an exception strike a bounded number of times; the loss of the broker is a `Crash`.
* The arithmetic of AES, HMAC, SHA-256, Ed25519 and X25519 is out of TLC's reach; `Wire` keeps their lengths, padding
  and checks. Floats of an advert are integers in millionths of a degree.
* aiomqtt, asyncio and the brokers are modelled from how the code uses them and marked external.
* Not modelled: the airtime formula (an airtime is a parameter of `Gateway`); the token of `auth.py`; the
  self-advert loops and the status topics of room and echo server, which keep no state; the upload
  statistics of the observer (`uploaded_messages` also counts events that no target got); presets, configuration
  and command-line tools, which have no state.

## 7. Status

All planned models, runs and proofs are there; no safety property that a run checks is without a proof. What would come next:

1. The token of `auth.py` and the self-advert loops as actions, should they come to keep state.
2. The PATH that bundles an ACK, in `Echo` and `EchoDelivery`, should `handle_path_msg` come to use it (section 4).
3. A proof of the liveness properties, with a prover that handles fairness and ENABLED.
