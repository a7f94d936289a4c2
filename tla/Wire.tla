-------------------------------- MODULE Wire --------------------------------
(***************************************************************************)
(* The payload formats: text messages, PATH and ACK (messaging.py), login, *)
(* login response and room push (room.py), adverts (advert.py) and the     *)
(* sealing of datagrams (crypto.py), as operators on sequences of bytes.   *)
(*                                                                         *)
(* Cryptography is symbolic.  A sealed byte, a MAC byte and a signature    *)
(* byte is a tuple that names its key, so nobody computes one without it;  *)
(* a SHA-256 preimage stands for its hash.  A str is its UTF-8 encoding.   *)
(* <<>> stands for None and <<x>> for x where a value is optional.         *)
(***************************************************************************)
EXTENDS Packet, Integers, SequencesExt

\* Nodes are numbers.  The first byte of a public key is the address; it may
\* be shared, and a key may hold zeros.
Pub(n) == <<n % 16, 0>> \o [i \in 1..30 |-> n]

Address(n) == Pub(n)[1]

\* ECDH: the same secret on both sides.
SharedSecret(a, b) == {a, b}

Zeros(n) == [i \in 1..n |-> 0]

-----------------------------------------------------------------------------
(* crypto.py *)

CIPHER_MAC_SIZE   == 2
CIPHER_BLOCK_SIZE == 16

Mac(key, body) == [i \in 1..CIPHER_MAC_SIZE |-> <<key, body>>]

Padded(text) == text \o Zeros((-Len(text)) % CIPHER_BLOCK_SIZE)

EncryptThenMac(key, text) ==
    LET body == [i \in DOMAIN Padded(text) |-> <<key, Padded(text)[i]>>]
    IN  IF text = <<>> THEN <<>> ELSE Mac(key, body) \o body

Body(sealed) == From(sealed, CIPHER_MAC_SIZE + 1)

\* Whether mac_then_decrypt returns a plaintext, and which.
Opens(key, sealed) ==
    /\ Len(sealed) > CIPHER_MAC_SIZE
    /\ Len(Body(sealed)) % CIPHER_BLOCK_SIZE = 0
    /\ SubSeq(sealed, 1, CIPHER_MAC_SIZE) = Mac(key, Body(sealed))

Plaintext(sealed) == [i \in DOMAIN Body(sealed) |-> Body(sealed)[i][2]]

Sign(n, message) == [i \in 1..64 |-> <<n, message>>]

-----------------------------------------------------------------------------
(* Strings *)

\* A byte that no UTF-8 text has, and U+FFFD, by which errors="replace"
\* replaces it.
INVALID     == 255
REPLACEMENT == <<239, 191, 189>>

Str(bytes) == FlattenSeq([i \in DOMAIN bytes |->
                 IF bytes[i] = INVALID THEN REPLACEMENT ELSE <<bytes[i]>>])

\* The bytes before the first NUL.
UpToNul(bytes) ==
    LET nul == SelectInSeq(bytes, LAMBDA b : b = 0)
    IN  IF nul = 0 THEN bytes ELSE SubSeq(bytes, 1, nul - 1)

\* rstrip(b"\x00")
StripZeros(bytes) == SubSeq(bytes, 1, SelectLastInSeq(bytes, LAMBDA b : b # 0))

-----------------------------------------------------------------------------
(* messaging.py *)

FlagsByte(attempt, type) == (attempt % 4) + 4 * type

\* What the ACK hash of a text message is taken of, up to the public key.
TextThroughEnd(ts, attempt, text, type) == ToBytes(ts, 4) \o <<FlagsByte(attempt, type)>> \o text

AckHashFor(ts, attempt, text, sender, type) ==
    TextThroughEnd(ts, attempt, text, type) \o Pub(sender)

ComposePlaintext(ts, attempt, text, type) == TextThroughEnd(ts, attempt, text, type) \o <<0>>

Datagram(dest, src, inner) ==
    <<Address(dest), Address(src)>> \o EncryptThenMac(SharedSecret(dest, src), inner)

\* Every try_decrypt_* first measures the payload, then opens what follows
\* its header and measures the plaintext.
Readable(payload, header, key, least) ==
    /\ Len(payload) >= header + CIPHER_MAC_SIZE + CIPHER_BLOCK_SIZE
    /\ Opens(key, From(payload, header + 1))
    /\ Len(Plaintext(From(payload, header + 1))) >= least

Inner(payload, header) == Plaintext(From(payload, header + 1))

\* try_decrypt_txt_msg and try_decode_grp_txt, after opening.
TxtMsg(t) ==
    [ts |-> FromBytes4(t), attempt |-> t[5] % 4, type |-> t[5] \div 4, text |-> Str(UpToNul(From(t, 6)))]

PathPlaintext(path, size, extraType, extra) ==
    <<EncodePathLen(Len(path) \div size, size)>> \o path \o <<extraType % 256>> \o extra

PathEnd(t) == LET n == DecodePathLen(t[1]) IN 1 + n.count * n.size

PathReadable(t) == Len(t) >= PathEnd(t) + 1

\* Mutant: an ACK loses its trailing zeros like any other extra.
PathMsgStripped(t) ==
    [path |-> SubSeq(t, 2, PathEnd(t)), size |-> DecodePathLen(t[1]).size,
     extraType |-> t[PathEnd(t) + 1] % 16, extra |-> StripZeros(From(t, PathEnd(t) + 2))]

\* try_decrypt_path_msg, after opening.
PathMsg(t) ==
    LET type  == t[PathEnd(t) + 1] % 16
        extra == From(t, PathEnd(t) + 2)
    IN  [path |-> SubSeq(t, 2, PathEnd(t)), size |-> DecodePathLen(t[1]).size, extraType |-> type,
         extra |-> IF type = ACK /\ Len(extra) >= 4 THEN SubSeq(extra, 1, 4) ELSE StripZeros(extra)]

\* try_decrypt_req_msg, after opening.
ReqMsg(t) == [ts |-> FromBytes4(t), data |-> StripZeros(From(t, 5))]

\* Mutant: the bytes are reversed, not the hashes they make up.
ReversePathBytes(path, size) == Reverse(path)

\* reverse_path
ReversePath(path, size) ==
    [i \in DOMAIN path |-> path[Len(path) - size * ((i - 1) \div size + 1) + ((i - 1) % size) + 1]]

\* build_*_packet: what they have in common.
BuildPacket(type, route, path, size, payload) ==
    [route |-> route, type |-> type, ver |-> 0, codes |-> <<>>,
     path |-> path, payload |-> payload, size |-> size]

BuildAckPacket(hash) == BuildPacket(ACK, FLOOD, <<>>, 1, hash)

BuildPathPacket(dest, src, path, size, extraType, extra) ==
    BuildPacket(PATH, FLOOD, <<>>, 1, Datagram(dest, src, PathPlaintext(path, size, extraType, extra)))

-----------------------------------------------------------------------------
(* room.py *)

AnonLogin(room, client, ts, since, password) ==
    <<Address(room)>> \o Pub(client)
        \o EncryptThenMac(SharedSecret(room, client), ToBytes(ts, 4) \o ToBytes(since, 4) \o password \o <<0>>)

\* try_decrypt_login, after opening.
LoginReq(t) ==
    [ts |-> FromBytes4(t), since |-> FromBytes4(From(t, 5)), password |-> Str(UpToNul(From(t, 9)))]

LoginResponseInner(ts, admin, permissions, blob) ==
    ToBytes(ts, 4) \o <<0, 0, IF admin THEN 1 ELSE 0, permissions % 256>> \o blob \o <<1>>

\* try_decrypt_login_response, after opening.
LoginResponse(t) ==
    [ts |-> FromBytes4(t), status |-> t[5], admin |-> t[7] # 0, permissions |-> t[8]]

PushThroughText(ts, attempt, author, text) ==
    ToBytes(ts, 4) \o <<FlagsByte(attempt, 2)>> \o SubSeq(Pub(author), 1, 4) \o text

RoomPushInner(ts, attempt, author, text) == PushThroughText(ts, attempt, author, text) \o <<0>>

RoomPushAckHash(ts, attempt, author, text, dest) ==
    PushThroughText(ts, attempt, author, text) \o Pub(dest)

\* Mutant: the NUL is looked for in the author's key already.
RoomPushCut(t) ==
    LET u == UpToNul(From(t, 6))
    IN  [ts |-> FromBytes4(t), attempt |-> t[5] % 4, author |-> SubSeq(t, 6, 9), text |-> Str(From(u, 5))]

\* try_decrypt_room_push, after opening.
RoomPushMsg(t) ==
    [ts |-> FromBytes4(t), attempt |-> t[5] % 4, author |-> SubSeq(t, 6, 9), text |-> Str(UpToNul(From(t, 10)))]

-----------------------------------------------------------------------------
(* advert.py: app_data is [type, name, lat, lon, feat1, feat2]; lat and lon *)
(* are in millionths of a degree.                                          *)

Flag(optional, mask) == IF optional = <<>> THEN 0 ELSE mask

Optional(optional, n) == IF optional = <<>> THEN <<>> ELSE ToBytes(optional[1], n)

\* Whether encode() raises: a position has two coordinates.
AppEncodable(a) == a.lat = <<>> <=> a.lon = <<>>

EncodeApp(a) ==
    <<(a.type % 16) + Flag(a.lat, 16) + Flag(a.feat1, 32) + Flag(a.feat2, 64) + Flag(a.name, 128)>>
        \o Optional(a.lat, 4) \o Optional(a.lon, 4) \o Optional(a.feat1, 2) \o Optional(a.feat2, 2) \o a.name

Signed(b) == IF b[4] < 128 THEN FromBytes4(b) ELSE FromBytes4([b EXCEPT ![4] = @ - 256])

HasFlag(d, mask) == (d[1] \div mask) % 2 = 1

\* The length of each optional part, and where the name begins.
Position(d) == IF HasFlag(d, 16) THEN 8 ELSE 0
Feature1(d) == IF HasFlag(d, 32) THEN 2 ELSE 0
Feature2(d) == IF HasFlag(d, 64) THEN 2 ELSE 0
NameAt(d)   == 2 + Position(d) + Feature1(d) + Feature2(d)

\* Whether decode() raises.
AppDecodable(d) == d # <<>> /\ Len(d) >= NameAt(d) - 1

DecodeApp(d) ==
    [type  |-> d[1] % 16,
     lat   |-> IF HasFlag(d, 16) THEN <<Signed(SubSeq(d, 2, 5))>> ELSE <<>>,
     lon   |-> IF HasFlag(d, 16) THEN <<Signed(SubSeq(d, 6, 9))>> ELSE <<>>,
     feat1 |-> IF HasFlag(d, 32) THEN <<FromBytes2(From(d, 2 + Position(d)))>> ELSE <<>>,
     feat2 |-> IF HasFlag(d, 64) THEN <<FromBytes2(From(d, 2 + Position(d) + Feature1(d)))>> ELSE <<>>,
     name  |-> IF HasFlag(d, 128) THEN Str(UpToNul(From(d, NameAt(d)))) ELSE <<>>]

ADVERT_HEADER_SIZE == 100

EncodeAdvert(n, ts, a) ==
    LET signed == Pub(n) \o ToBytes(ts, 4) \o EncodeApp(a)
    IN  Pub(n) \o ToBytes(ts, 4) \o Sign(n, signed) \o EncodeApp(a)

AdvertDecodable(payload) ==
    Len(payload) >= ADVERT_HEADER_SIZE /\ AppDecodable(From(payload, ADVERT_HEADER_SIZE + 1))

DecodeAdvert(payload) ==
    [pub |-> SubSeq(payload, 1, 32), ts |-> FromBytes4(SubSeq(payload, 33, 36)),
     app |-> DecodeApp(From(payload, ADVERT_HEADER_SIZE + 1))]

\* The signature is checked over the bytes as they came.
SignatureValid(payload, n) ==
    /\ SubSeq(payload, 1, 32) = Pub(n)
    /\ SubSeq(payload, 37, 100)
           = Sign(n, SubSeq(payload, 1, 36) \o From(payload, ADVERT_HEADER_SIZE + 1))
=============================================================================
