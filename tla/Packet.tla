------------------------------- MODULE Packet -------------------------------
(***************************************************************************)
(* The MeshCore packet format (softmesh_stack/packet.py) as operators on   *)
(* sequences of bytes.  Where the code raises ValueError there is a        *)
(* predicate that says when it does not: Encodable and Decodable.          *)
(*                                                                         *)
(* What a payload consists of is left to its own format; nothing here      *)
(* looks into it.                                                          *)
(***************************************************************************)
EXTENDS Naturals, Sequences

TRANSPORT_FLOOD  == 0
FLOOD            == 1
DIRECT           == 2
TRANSPORT_DIRECT == 3

REQ      == 0
RESPONSE == 1
TXT_MSG  == 2
ACK      == 3
ADVERT   == 4
GRP_TXT  == 5
ANON_REQ == 7
PATH     == 8
TRACE    == 9

MAX_PATH_SIZE == 64

TransportRoutes == {TRANSPORT_FLOOD, TRANSPORT_DIRECT}

\* An unsigned integer as its n bytes, little-endian, and back.
ToBytes(x, n)    == [k \in 1..n |-> (x \div 256^(k - 1)) % 256]
FromBytes2(b)    == b[1] + 256 * b[2]
FromBytes4(b)    == b[1] + 256 * b[2] + 256^2 * b[3] + 256^3 * b[4]

From(data, i)    == SubSeq(data, i, Len(data))

-----------------------------------------------------------------------------
(* The header byte and the path_len byte *)

EncodeHeader(route, type, ver) == (route % 4) + 4 * (type % 16) + 64 * (ver % 4)

DecodeHeader(b) == [route |-> b % 4, type |-> (b \div 4) % 16, ver |-> (b \div 64) % 4]

PathLenEncodable(count, size) == size \in 1..4 /\ count \in 0..63

EncodePathLen(count, size) == count + 64 * (size - 1)

DecodePathLen(b) == [count |-> b % 64, size |-> ((b \div 64) % 4) + 1]

-----------------------------------------------------------------------------
(* Packets: [route, type, ver, codes, path, payload, size], where codes is  *)
(* <<>> for None.                                                          *)

HashCount(p) == Len(p.path) \div p.size

Encodable(p) ==
    /\ p.route \in TransportRoutes <=> p.codes # <<>>
    /\ p.size \in 1..4 /\ Len(p.path) % p.size = 0
    /\ PathLenEncodable(HashCount(p), p.size)

EncodePacket(p) ==
    <<EncodeHeader(p.route, p.type, p.ver)>>
        \o (IF p.codes = <<>> THEN <<>> ELSE ToBytes(p.codes[1], 2) \o ToBytes(p.codes[2], 2))
        \o <<EncodePathLen(HashCount(p), p.size)>> \o p.path \o p.payload

\* Where the path_len byte is.
PathLenAt(data) == IF data[1] % 4 \in TransportRoutes THEN 6 ELSE 2

PathBytes(data) == LET n == DecodePathLen(data[PathLenAt(data)]) IN n.count * n.size

Decodable(data) ==
    /\ data # <<>>
    /\ Len(data) >= PathLenAt(data)
    /\ PathBytes(data) <= MAX_PATH_SIZE
    /\ Len(data) >= PathLenAt(data) + PathBytes(data)

DecodePacket(data) ==
    LET h   == DecodeHeader(data[1])
        at  == PathLenAt(data)
        end == at + PathBytes(data)
    IN  [route   |-> h.route, type |-> h.type, ver |-> h.ver,
         codes   |-> IF h.route \in TransportRoutes
                     THEN <<FromBytes2(SubSeq(data, 2, 3)), FromBytes2(SubSeq(data, 4, 5))>>
                     ELSE <<>>,
         path    |-> SubSeq(data, at + 1, end),
         payload |-> From(data, end + 1),
         size    |-> DecodePathLen(data[at]).size]
=============================================================================
