------------------------------ MODULE Exchange ------------------------------
(***************************************************************************)
(* One message between a MeshCore client and a softmesh server, and its    *)
(* answer, from bytes to bytes: built, relayed, carried over the serial    *)
(* line, decoded, opened and answered.  The formats are those of Packet    *)
(* and Wire; the handlers are the room server's and the echo server's.     *)
(*                                                                         *)
(* The client is MeshCore firmware.  A message is a record with its kind,  *)
(* the route it takes and the fields of its format.                        *)
(***************************************************************************)
EXTENDS Wire

CONSTANTS
    Messages,  \* what may be sent
    Sizes,     \* the sizes of a hash in a path
    Hops,      \* how many repeaters a flood may pass
    Digests,   \* what the hash of the message's ACK may be: four bytes
    Cuts,      \* how many bytes the serial line may lose at the end of a packet
    Known      \* what the room may know of the client: [ts, name], or <<>>

Client    == 1
Room      == 2
Author    == 3
Neighbour == 17   \* has the client's address
Channel   == 64   \* stands for a channel's hash and key

\* The room's passwords.
ADMIN == <<97>>
GUEST == <<103, 103, 103, 103, 103, 103, 103>>

\* Not the hash of any ACK that is waited for.
Unrelated == <<9, 9, 9, 9>>

Tag == 3   \* REQ_TYPE_GET_TELEMETRY_DATA

\* The app data of an advert: what its fields have room for.
Apps ==
    {a \in [type : 0..15, name : Seq(0..255), lat : Seq(Int), lon : Seq(Int), feat1 : Seq(Nat), feat2 : Seq(Nat)] :
        /\ \A o \in {a.lat, a.lon} : Len(o) <= 1 /\ \A i \in DOMAIN o : o[i] \div 256^3 \in (-128)..127
        /\ \A o \in {a.feat1, a.feat2} : Len(o) <= 1 /\ \A i \in DOMAIN o : o[i] \div 256 \in 0..255}

\* What a sender may put into a message.
ASSUME MessageAssumption ==
    \A m \in Messages :
        /\ m.kind \in {"txt", "echo", "push", "login", "req", "grp", "advert"}
        /\ m.route \in 0..3
        /\ m.ts \in Nat /\ m.ts \div 256^3 \in 0..255
        /\ m.kind \in {"txt", "echo", "grp"} => m.type \in 0..63 /\ (m.kind = "echo" => m.type = 0)
        /\ m.kind \in {"txt", "echo", "grp", "push"} => m.attempt \in Nat
        /\ IF m.kind = "advert" THEN m.from \in {Client, Neighbour, Author} /\ m.app \in Apps
                                ELSE m.text \in Seq(0..255)

\* A client that is known has a time and a name.
ASSUME KnownAssumption == \A k \in Known : k = <<>> \/ k \in [ts : Nat, name : Seq(0..255)]

ASSUME AirAssumption ==
    /\ Sizes \subseteq 1..4
    /\ Hops \subseteq Nat
    /\ Cuts \subseteq Nat
    /\ \A d \in Digests : d \in Seq(0..255) /\ Len(d) = 4 /\ d # Unrelated

VARIABLES
    msg,      \* the message
    digest,   \* the hash of its ACK, which its sender waits for
    stage,    \* where the exchange is
    wire,     \* the packet on its way
    cut,      \* how many bytes were lost on the line
    inbound,  \* the packet as its receiver decoded it: {} or a singleton
    heard,    \* what the receiver made of its payload: {} or a singleton
    answer,   \* the receiver's answer
    back,     \* what the sender made of the answer: {} or a singleton
    known     \* _advert_ts and _names, for the client

vars == <<msg, digest, stage, wire, cut, inbound, heard, answer, back, known>>

The(S) == CHOOSE x \in S : TRUE

-----------------------------------------------------------------------------
(* Sending *)

TypeOf(m) ==
    CASE m.kind \in {"txt", "echo", "push"} -> TXT_MSG
      [] m.kind = "login"  -> ANON_REQ
      [] m.kind = "req"    -> REQ
      [] m.kind = "grp"    -> GRP_TXT
      [] m.kind = "advert" -> ADVERT

\* A client's text ends with its packet; softmesh writes a NUL.
Payload(m) ==
    CASE m.kind = "txt"    -> Datagram(Room, Client, TextThroughEnd(m.ts, m.attempt, m.text, m.type))
      [] m.kind = "echo"   -> Datagram(Client, Room, ComposePlaintext(m.ts, m.attempt, m.text, 0))
      [] m.kind = "push"   -> Datagram(Client, Room, RoomPushInner(m.ts, m.attempt, Author, m.text))
      [] m.kind = "login"  -> AnonLogin(Room, Client, m.ts, m.ts, m.text)
      [] m.kind = "req"    -> Datagram(Room, Client, ToBytes(m.ts, 4) \o m.text)
      [] m.kind = "grp"    -> <<Channel, Address(Client)>>
                                  \o EncryptThenMac({Channel}, ComposePlaintext(m.ts, m.attempt, m.text, m.type))
      [] m.kind = "advert" -> EncodeAdvert(m.from, m.ts, m.app)

Codes(m) == IF m.route \in TransportRoutes THEN <<513, 7>> ELSE <<>>

Outbound(m, size) == [BuildPacket(TypeOf(m), m.route, <<>>, size, Payload(m)) EXCEPT !.codes = Codes(m)]

\* What the sender takes the hash of to know the ACK when it comes.
Expected(m) ==
    CASE m.kind = "txt"  -> AckHashFor(m.ts, m.attempt, m.text, Client, m.type)
      [] m.kind = "echo" -> AckHashFor(m.ts, m.attempt, m.text, Room, 0)
      [] m.kind = "push" -> RoomPushAckHash(m.ts, m.attempt, Author, m.text, Client)

Acked == {"txt", "echo", "push"}

\* sha256(...)[:4]
Hash(preimage) == IF preimage = Expected(msg) THEN digest ELSE Unrelated

Init ==
    /\ msg \in Messages
    /\ digest \in IF msg.kind \in Acked THEN Digests ELSE {Unrelated}
    /\ stage = "new"
    /\ known \in IF msg.kind = "advert" THEN Known ELSE {<<>>}
    /\ wire = <<>> /\ cut = 0 /\ inbound = {} /\ heard = {} /\ answer = <<>> /\ back = {}

Send(size) ==
    /\ stage = "new"
    /\ msg.kind = "advert" => AppEncodable(msg.app)
    /\ wire' = EncodePacket(Outbound(msg, size))
    /\ stage' = "air"
    /\ UNCHANGED <<msg, digest, cut, inbound, heard, answer, back, known>>

IsFlood(p) == p.route \in {FLOOD, TRANSPORT_FLOOD}

\* Repeaters append their hashes to the path of a flood, as long as it stays
\* valid; those of a direct route have taken theirs off.
Relay(n) ==
    /\ stage = "air"
    /\ LET p == DecodePacket(wire)
       IN  /\ n > 0 => IsFlood(p)
           /\ n <= 63 /\ n * p.size <= MAX_PATH_SIZE
           /\ wire' = EncodePacket([p EXCEPT !.path = [i \in 1..(n * p.size) |-> i]])
    /\ stage' = "line"
    /\ UNCHANGED <<msg, digest, cut, inbound, heard, answer, back, known>>

-----------------------------------------------------------------------------
(* Receiving *)

Sessions == {Client, Neighbour}

\* Senders whose key may open a datagram to the room: those at its address.
Candidates(payload) == {c \in Sessions : Len(payload) > 1 /\ Address(c) = payload[2]}

\* handle_post, handle_req_msg: whoever's key opens it has sent it.
Opened(payload, least) ==
    {[from |-> c, inner |-> Inner(payload, 2)] :
        c \in {d \in Candidates(payload) : /\ payload[1] = Address(Room)
                                           /\ Readable(payload, 2, SharedSecret(Room, d), least)}}

\* try_decrypt_login: the key is in the clear.
OpenedLogin(payload) ==
    {[from |-> c, content |-> LoginReq(Inner(payload, 33))] :
        c \in {d \in Sessions : /\ payload # <<>> /\ payload[1] = Address(Room)
                                /\ Len(payload) > 33 /\ SubSeq(payload, 2, 33) = Pub(d)
                                /\ Readable(payload, 33, SharedSecret(Room, d), 8)}}

\* Mutant: a signature is not looked at.
BelievedUnsigned(payload) ==
    {[from |-> c, content |-> DecodeAdvert(payload)] :
        c \in {d \in {Client, Neighbour, Author} : /\ AdvertDecodable(payload)
                                                   /\ SubSeq(payload, 1, 32) = Pub(d)}}

\* handle_advert, up to the order of adverts: decodes, not our own, signed.
Believed(payload) ==
    {[from |-> c, content |-> DecodeAdvert(payload)] :
        c \in {d \in {Client, Neighbour, Author} : AdvertDecodable(payload) /\ SignatureValid(payload, d)}}

\* The client opens a push as the room sealed it, and group members share a
\* key: from is then no key but the sender_hash in the payload.
OpenedBy(key, from, payload, least) ==
    IF Readable(payload, 2, key, least) THEN {[from |-> from, inner |-> Inner(payload, 2)]} ELSE {}

Content(m, p) ==
    LET fromRoom(least) == OpenedBy(SharedSecret(Room, Client), Room, p.payload, least)
        inChannel       == OpenedBy({Channel}, p.payload[2], p.payload, 6)
        of(o, c)        == [from |-> o.from, content |-> c]
    IN  CASE m.kind = "txt"    -> {of(o, TxtMsg(o.inner)) : o \in Opened(p.payload, 6)}
          [] m.kind = "req"    -> {of(o, ReqMsg(o.inner)) : o \in Opened(p.payload, 5)}
          [] m.kind = "login"  -> OpenedLogin(p.payload)
          [] m.kind = "advert" -> Believed(p.payload)
          [] m.kind = "push"   -> {of(o, RoomPushMsg(o.inner)) : o \in fromRoom(9)}
          [] m.kind = "echo"   -> {of(o, TxtMsg(o.inner)) : o \in fromRoom(6)}
          [] m.kind = "grp"    -> {of(o, TxtMsg(o.inner)) : o \in inChannel}

\* Mutant: an advert older than the last one is believed again.
LearnAny(h) == IF h.content.app.name = <<>> THEN known ELSE [ts |-> h.content.ts, name |-> h.content.app.name]

\* handle_advert: an older advert changes nothing, one without a name only the time.
Learn(h) ==
    IF known # <<>> /\ h.content.ts < known.ts THEN known
    ELSE [ts   |-> h.content.ts,
          name |-> IF known # <<>> /\ h.content.app.name = <<>> THEN known.name ELSE h.content.app.name]

Receive(n) ==
    LET data == SubSeq(wire, 1, Len(wire) - n)
        p    == DecodePacket(data)
    IN  /\ stage = "line"
        /\ cut' = n
        /\ inbound' = IF Decodable(data) THEN {p} ELSE {}
        /\ heard' = IF Decodable(data) THEN Content(msg, p) ELSE {}
        /\ known' = IF msg.kind = "advert" /\ \E h \in heard' : h.from = Client THEN Learn(The(heard')) ELSE known
        /\ stage' = IF heard' = {} THEN "ignored" ELSE "heard"
        /\ UNCHANGED <<msg, digest, wire, answer, back>>

-----------------------------------------------------------------------------
(* Answering *)

\* Mutant: the size of the hashes is not handed on.
ReturnRouteUnsized(p) ==
    IF HashCount(p) = 0 THEN [route |-> FLOOD, path |-> <<>>, size |-> 1]
    ELSE [route |-> DIRECT, path |-> ReversePath(p.path, p.size), size |-> 1]

\* _return_route
ReturnRoute(p) ==
    IF HashCount(p) = 0 THEN [route |-> FLOOD, path |-> <<>>, size |-> 1]
    ELSE [route |-> DIRECT, path |-> ReversePath(p.path, p.size), size |-> p.size]

\* _classify
Role(password) == CASE password = ADMIN -> "admin" [] password = GUEST -> "guest" [] OTHER -> "none"

\* send_post_ack, send_txt_ack; a client answers a push in the same way.
AckPacket(p, dest, src, hash) ==
    IF IsFlood(p) THEN BuildPathPacket(dest, src, p.path, p.size, ACK, hash) ELSE BuildAckPacket(hash)

\* handle_login; the time of the message stands for the server's own.
ResponsePacket(p, h) ==
    LET r     == ReturnRoute(p)
        admin == Role(h.content.password) = "admin"
    IN  BuildPacket(RESPONSE, r.route, r.path, r.size,
            Datagram(h.from, Room, LoginResponseInner(msg.ts, admin, IF admin THEN 3 ELSE 2, <<1, 2, 3, 0>>)))

\* Whether the receiver answers.
Answers(p, h) ==
    CASE msg.kind \in Acked -> TRUE
      [] msg.kind = "login"  -> Role(h.content.password) # "none"
      [] msg.kind = "req"    -> h.content.data # <<>> /\ h.content.data[1] = Tag /\ IsFlood(p)
      [] OTHER               -> FALSE

\* What it answers with.
AnswerPacket(p, h) ==
    LET c == h.content
    IN  CASE msg.kind = "txt"   -> AckPacket(p, h.from, Room, Hash(AckHashFor(c.ts, c.attempt, c.text, h.from, c.type)))
          [] msg.kind = "echo"  -> AckPacket(p, Room, Client, Hash(AckHashFor(c.ts, c.attempt, c.text, Room, c.type)))
          [] msg.kind = "push"  -> AckPacket(p, Room, Client, Hash(RoomPushAckHash(c.ts, c.attempt, Author, c.text, Client)))
          [] msg.kind = "req"   -> BuildPathPacket(h.from, Room, p.path, p.size, RESPONSE, ToBytes(c.ts, 4) \o <<0>>)
          [] msg.kind = "login" -> ResponsePacket(p, h)

Answer ==
    /\ stage = "heard"
    /\ Answers(The(inbound), The(heard))
    /\ Encodable(AnswerPacket(The(inbound), The(heard)))
    /\ answer' = EncodePacket(AnswerPacket(The(inbound), The(heard)))
    /\ stage' = "answered"
    /\ UNCHANGED <<msg, digest, wire, cut, inbound, heard, back, known>>

\* handle_ack, handle_path and their counterparts in the client: the answer
\* has come, maybe over a route that has been taken off it.
Back(p) ==
    CASE p.type = ACK      -> {[ack |-> SubSeq(p.payload, 1, 4)]}
      [] p.type = PATH     -> LET t == Inner(p.payload, 2)
                              IN  IF Readable(p.payload, 2, SharedSecret(Client, Room), 2) /\ PathReadable(t)
                                  THEN {[path |-> PathMsg(t).path, size |-> PathMsg(t).size, type |-> PathMsg(t).extraType,
                                         ack |-> PathMsg(t).extra]}
                                  ELSE {}
      [] p.type = RESPONSE -> IF Readable(p.payload, 2, SharedSecret(Client, Room), 8)
                              THEN {LoginResponse(Inner(p.payload, 2))}
                              ELSE {}

Return ==
    /\ stage = "answered"
    /\ Decodable(answer)
    /\ back' = Back(DecodePacket(answer))
    /\ stage' = "done"
    /\ UNCHANGED <<msg, digest, wire, cut, inbound, heard, answer, known>>

Next ==
    \/ \E size \in Sizes : Send(size)
    \/ \E n \in Hops : Relay(n)
    \/ \E n \in Cuts : Receive(n)
    \/ Answer
    \/ Return

Spec == Init /\ [][Next]_vars
-----------------------------------------------------------------------------
(* Properties *)

\* A text that survives: no NUL, nothing but UTF-8.
Clean(text) == \A i \in DOMAIN text : text[i] \notin {0, INVALID}

\* The text of a message; that of an advert is the name.
Text(m) == IF m.kind = "advert" THEN m.app.name ELSE m.text

\* What a receiver should make of a message.
Meaning(m) ==
    CASE m.kind \in {"txt", "echo", "grp"} -> [ts |-> m.ts, attempt |-> m.attempt % 4, type |-> m.type, text |-> m.text]
      [] m.kind = "push"   -> [ts |-> m.ts, attempt |-> m.attempt % 4, author |-> SubSeq(Pub(Author), 1, 4), text |-> m.text]
      [] m.kind = "login"  -> [ts |-> m.ts, since |-> m.ts, password |-> m.text]
      [] m.kind = "req"    -> [ts |-> m.ts, data |-> m.text]
      [] m.kind = "advert" -> [pub |-> Pub(m.from), ts |-> m.ts, app |-> m.app]

\* The sender as the receiver knows it: in a channel, by its address only.
Sender(m) ==
    CASE m.kind \in {"echo", "push"} -> Room
      [] m.kind = "advert"           -> m.from
      [] m.kind = "grp"              -> Address(Client)
      [] OTHER                       -> Client

\* Every exchange is at one of its stages, and the path on the air stays
\* within what firmware accepts (isValidPathLen).
TypeOK ==
    /\ stage \in {"new", "air", "line", "heard", "ignored", "answered", "done"}
    /\ cut \in Cuts \cup {0}
    /\ stage # "new" => Decodable(wire) /\ Encodable(DecodePacket(wire))

\* A message that arrives whole, and whose text is one that can survive, is
\* understood as it was meant, by the right key among nodes with one address,
\* whether its text fills a block, ends in a NUL or is followed by padding.
UnderstoodAsMeant ==
    stage \notin {"new", "air", "line"} /\ cut = 0 /\ Clean(Text(msg)) =>
        heard = {[from |-> Sender(msg), content |-> Meaning(msg)]}

\* What the serial line has shortened is never acted on: KISS has no
\* checksum, so the MAC or the signature has to notice.
ShortenedIgnored == cut > 0 => heard = {}

\* The sender knows the ACK for its own, also when its hash ends in zeros and
\* travels in a padded PATH, exactly when its text survives decoding.
AckKnown ==
    stage = "done" /\ msg.kind \in Acked =>
        (\E b \in back : b.ack = digest) <=> Clean(msg.text)

HashAt(p, i) == SubSeq(p.path, (i - 1) * p.size + 1, i * p.size)

\* The way back: a PATH answer tells the path that the flood took, as it took
\* it; a login is answered along it from its end, hash by hash, and with the
\* role that its password gives.
WayBack ==
    stage = "done" =>
        LET in == The(inbound)  out == DecodePacket(answer)  n == HashCount(in)
        IN  /\ out.type = PATH => \E b \in back : b.path = in.path /\ b.size = in.size
            /\ msg.kind = "login" =>
                /\ n > 0 => out.route = DIRECT /\ HashCount(out) = n /\ out.size = in.size
                /\ \A i \in 1..n : HashAt(out, i) = HashAt(in, n + 1 - i)
                /\ \E b \in back : /\ b.ts = msg.ts /\ b.permissions = IF b.admin THEN 3 ELSE 2
                                   /\ Clean(msg.text) => (b.admin <=> msg.text = ADMIN)

\* Whatever can be decoded can be answered: no path that arrives is too long,
\* or of the wrong size, for encode_packet and for the next decoder.
AnswerFits ==
    stage = "heard" /\ Answers(The(inbound), The(heard)) =>
        LET a == AnswerPacket(The(inbound), The(heard))
        IN  Encodable(a) /\ Decodable(EncodePacket(a)) /\ DecodePacket(EncodePacket(a)) = a

\* The name of a client is the one it signed last: nobody else's advert, none
\* older than what is known and none without a name changes it.
NewestNameKept ==
    [][known' # known =>
        /\ known # <<>> => known'.ts >= known.ts
        /\ msg.from = Client /\ msg.ts = known'.ts
        /\ msg.app.name # <<>> /\ Clean(msg.app.name) => known'.name = msg.app.name
        /\ known # <<>> /\ msg.app.name = <<>> => known'.name = known.name]_vars
=============================================================================
