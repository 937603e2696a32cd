---------------------------- MODULE PacketCodec -----------------------------
(***************************************************************************)
(* The packet on the wire (meshcore_packet.py): header bits, path length   *)
(* byte, parsing, serialising and the packet hash. Header, transport codes *)
(* and path are bytes as numbers; the payload is opaque here.              *)
(***************************************************************************)
EXTENDS Integers, SequencesExt

CONSTANTS
  MAX_PATH_SIZE,       \* 64 in the code
  MAX_PACKET_PAYLOAD,  \* 184 in the code
  Malformed            \* parse raised ValueError, or a decoder returned None

Bytes == 0..255

\* A frame of the radio holds 255 bytes.
ASSUME CodecAssumption == MAX_PATH_SIZE \in Bytes /\ MAX_PACKET_PAYLOAD \in Bytes

\* Route types and those payload types the handlers tell apart.
ROUTE_TYPE_FLOOD  == 1
ROUTE_TYPE_DIRECT == 2
TransportTypes    == {0, 3}

PAYLOAD_TYPE_TXT_MSG == 2
PAYLOAD_TYPE_ACK     == 3
PAYLOAD_TYPE_GRP_TXT == 5
PAYLOAD_TYPE_PATH    == 8
PAYLOAD_TYPE_TRACE   == 9

-----------------------------------------------------------------------------
(* The header byte: route type in bits 0-1, payload type in 2-5, version in *)
(* 6-7.                                                                     *)

RouteType(header)   == header % 4
PayloadType(header) == (header \div 4) % 16

MakeHeader(route, type, ver) == (route % 4) + 4 * (type % 16) + 64 * (ver % 4)

HasTransportCodes(header) == RouteType(header) \in TransportTypes

(* The path length byte: number of hops in bits 0-5, bytes per hop in 6-7.  *)

HashCount(lenByte)   == lenByte % 64
HashSize(lenByte)    == (lenByte \div 64) + 1
PathByteLen(lenByte) == HashCount(lenByte) * HashSize(lenByte)

EncodePathLen(count, size) == 64 * (size - 1) + (count % 64)

\* Four bytes per hop are reserved.
IsValidPathLen(lenByte) ==
  HashSize(lenByte) # 4 /\ PathByteLen(lenByte) <= MAX_PATH_SIZE

-----------------------------------------------------------------------------
(* A packet is [header, codes, lenByte, path, payload]; codes is the pair   *)
(* of 16-bit transport codes, <<0, 0>> where the header says there is none. *)

NoCodes == <<0, 0>>

Packet(header, lenByte, path, payload) ==
  [header |-> header, codes |-> NoCodes, lenByte |-> lenByte, path |-> path,
   payload |-> payload]

\* What a packet can be, whatever its payload is made of.
Codes   == {c \in Seq(Nat) : Len(c) = 2 /\ c[1] < 65536 /\ c[2] < 65536}
Packets == [header : Bytes, codes : Codes, lenByte : Bytes, path : Seq(Bytes), payload : Seq(Nat)]

ASSUME MalformedPacket == Malformed \notin Packets

\* Both codes, little-endian.
CodeBytes(codes) == <<codes[1] % 256, codes[1] \div 256, codes[2] % 256, codes[2] \div 256>>

ToBytes(p) ==
  <<p.header>> \o (IF HasTransportCodes(p.header) THEN CodeBytes(p.codes) ELSE <<>>)
               \o <<p.lenByte>> \o p.path \o p.payload

\* Where the path length byte must be, and the last byte of the path.
PathLenAt(data) == IF HasTransportCodes(data[1]) THEN 6 ELSE 2
PathEnd(data)   == PathLenAt(data) + PathByteLen(data[PathLenAt(data)])

\* Mutant of IsPayloadLen: a packet may end with its path.
IsPayloadLenOrNone(n) == n \in 0..MAX_PACKET_PAYLOAD

IsPayloadLen(n) == n \in 1..MAX_PACKET_PAYLOAD

\* parse. Too short, without a path length byte or with an invalid one, a path
\* that overruns the packet, no payload or too long a payload: malformed.
Parse(data) ==
  IF \/ Len(data) < 2
     \/ PathLenAt(data) > Len(data)
     \/ ~IsValidPathLen(data[PathLenAt(data)])
     \/ ~IsPayloadLen(Len(data) - PathEnd(data))
  THEN Malformed
  ELSE [header  |-> data[1],
        codes   |-> IF HasTransportCodes(data[1])
                    THEN <<data[2] + 256 * data[3], data[4] + 256 * data[5]>>
                    ELSE NoCodes,
        lenByte |-> data[PathLenAt(data)],
        path    |-> SubSeq(data, PathLenAt(data) + 1, PathEnd(data)),
        payload |-> SubSeq(data, PathEnd(data) + 1, Len(data))]

\* Mutant of PacketHash: the hops count.
PacketHashOfPath(p) == <<PayloadType(p.header), p.path, p.payload>>

\* What the packet hash is computed from: never the route type or the hops, so
\* that all copies of a flood have one; but the length byte of a TRACE.
PacketHash(p) ==
  LET type == PayloadType(p.header)
  IN  <<type, IF type = PAYLOAD_TYPE_TRACE THEN <<p.lenByte>> ELSE <<>>, p.payload>>
=============================================================================
