---------------------------- MODULE RouteJourney ----------------------------
(***************************************************************************)
(* Packets byte by byte across a mesh: our device floods a message, each   *)
(* repeater adds itself to the path, the contact returns that path with    *)
(* its acknowledgement, we keep it, store it, and send the next message    *)
(* along it, where each repeater takes itself off again.                   *)
(*                                                                         *)
(* Both ends are this program; the repeaters are external. Packets may be  *)
(* lost, delayed and heard in any order. Retries and tables at their caps  *)
(* are the business of DmSender and DmReceiver.                            *)
(***************************************************************************)
EXTENDS PayloadCodec

CONSTANTS
  Us, Them,     \* the node hashes of the two companions
  Repeaters,    \* those of the repeaters
  Hears,        \* <<n, m>> is in it if m receives what n sends
  Channel,      \* the hash of a channel both have
  Nickname,     \* ours, as bytes
  Texts,        \* as bytes
  OurRoutes,    \* the routes to the contact we may have from earlier on
  TheirRoutes,  \* and those it may have to us
  Foreign,      \* packets of nodes of other kinds, whole or damaged
  SENDS         \* bound: transmissions of ours

Nodes == {Us, Them} \cup Repeaters

\* The packets of a node that knows this way reach their goal hop by hop.
IsWay(from, path, to) ==
  \A i \in 0..Len(path) :
    <<IF i = 0 THEN from ELSE path[i], IF i = Len(path) THEN to ELSE path[i + 1]>> \in Hears

ASSUME JourneyAssumption ==
  /\ Us # Them /\ {Us, Them} \cap Repeaters = {}
  /\ Nodes \subseteq Bytes /\ Channel \in Bytes
  /\ Hears \subseteq Nodes \X Nodes
  /\ SENDS \in 0..256   \* what the first byte of a timestamp tells apart
  /\ Foreign \subseteq Seq(Bytes)

\* One byte per hop, as the floods of this program ask for.
RoutesBetween(from, to) ==
  {c \in [path : Seq(Repeaters), raw : 0..63] :
     /\ Len(c.path) = c.raw /\ c.raw <= MAX_PATH_SIZE
     /\ c.path # <<>> => IsWay(from, c.path, to)}

ASSUME RoutesAssumption ==
  OurRoutes \subseteq RoutesBetween(Us, Them) /\ TheirRoutes \subseteq RoutesBetween(Them, Us)

\* Texts and names have no zeros, and everything fits a packet.
ASSUME FitAssumption ==
  /\ Texts \subseteq Seq(TextBytes) /\ Nickname \in Seq(TextBytes)
  /\ \A text \in Texts :
       Len(Nickname) + Len(text) + CIPHER_BLOCK_SIZE + 9 <= MAX_PACKET_PAYLOAD
  /\ MAX_PATH_SIZE + CIPHER_BLOCK_SIZE + 11 <= MAX_PACKET_PAYLOAD

VARIABLES
  contact,     \* our entry for them: path and path_raw
  theirs,      \* their entry for us
  sent,        \* what we transmitted, and the acknowledgement expected
  waiting,     \* records in _retries after a first attempt: m, and if it was direct
  air,         \* packets on the air: who sent which bytes
  relayed,     \* the hashes each repeater has forwarded
  heard,       \* _seen of both ends
  understood,  \* what they made of our packets
  answers,     \* the acknowledgements they sent, in order
  overheard,   \* history: the rests of routes they returned, see HandleDm
  rxQueue      \* a foreign packet that waits in _rx_queue, if any

ourVars   == <<contact, sent, waiting>>
theirVars == <<theirs, understood, answers, overheard>>
vars == <<ourVars, theirVars, air, relayed, heard, rxQueue>>

\* No path learned, or none any more.
NoRoute == [path |-> <<>>, raw |-> 0]

Init ==
  /\ contact \in OurRoutes /\ theirs \in TheirRoutes
  /\ sent = {} /\ waiting = {} /\ air = {} /\ relayed = {}
  /\ heard = [n \in {Us, Them} |-> {}]
  /\ understood = {} /\ answers = <<>> /\ overheard = {}
  /\ rxQueue = <<>>

-----------------------------------------------------------------------------
(* Sending.                                                                *)

\* The secret the two companions share, and that of the channel.
PairKey    == 1
ChannelKey == 2

\* What the bytes of a packet can be, with the key that reads them.
Keys      == {Clear, PairKey, ChannelKey}
WireBytes == {256 * key + b : key \in Keys, b \in Bytes}

\* _route: the type, the path length byte and the path of a packet to c.
\* A path that is empty is as good as none.
Route(c) ==
  IF c.path # <<>>
  THEN [type |-> ROUTE_TYPE_DIRECT, lenByte |-> IF c.raw # 0 THEN c.raw ELSE Len(c.path),
        path |-> c.path]
  ELSE [type |-> ROUTE_TYPE_FLOOD, lenByte |-> EncodePathLen(0, 1), path |-> <<>>]

Addressed(r, type, payload) == Packet(MakeHeader(r.type, type, 0), r.lenByte, r.path, payload)

\* A node sends a packet it has built, and remembers its hash.
Emit(n, p) ==
  /\ air' = air \cup {[by |-> n, wire |-> ToBytes(p)]}
  /\ heard' = [heard EXCEPT ![n] = @ \cup {PacketHash(p)}]

Flood(type, payload) == Addressed(Route(NoRoute), type, payload)

\* What is known of one attempt on both sides, if they agree.
Attempt(ts, attempt, text) ==
  [ts |-> ts, attempt |-> attempt, text |-> text,
   ack |-> DmAckHash(DmPlaintext(ts, attempt, text))]

\* _tx_dm, along the route we have.
TxDm(m) ==
  /\ Emit(Us, Addressed(Route(contact'), PAYLOAD_TYPE_TXT_MSG,
                        EncodeDm(PairKey, Them, Us, m.ts, m.attempt, m.text)))
  /\ sent' = sent \cup {m}

\* The clock: from one byte of a timestamp to the next.
Now == 255 + Cardinality(sent)

SendDm(text) ==
  /\ Cardinality(sent) < SENDS /\ rxQueue = <<>>
  /\ LET m == Attempt(Now, 0, text)
     IN  /\ UNCHANGED contact
         /\ TxDm(m)
         /\ waiting' = waiting \cup {[m |-> m, direct |-> Route(contact).type = ROUTE_TYPE_DIRECT]}
  /\ UNCHANGED <<theirVars, relayed, rxQueue>>

\* _retry_tick at the timeout of a first attempt. The route is forgotten if that
\* attempt was direct.
ResendDm(rec) ==
  /\ Cardinality(sent) < SENDS
  /\ rec \in waiting
  /\ contact' = IF rec.direct THEN NoRoute ELSE contact
  /\ TxDm(Attempt(rec.m.ts, 1, rec.m.text))
  /\ waiting' = waiting \ {rec}
  /\ UNCHANGED <<theirVars, relayed, rxQueue>>

\* _tx_group.
SendGroupText(text) ==
  /\ Cardinality(sent) < SENDS /\ rxQueue = <<>>
  /\ Emit(Us, Flood(PAYLOAD_TYPE_GRP_TXT,
                    EncodeGroupText(ChannelKey, Channel, Nickname, text, Now)))
  /\ sent' = sent \cup {[sender |-> Nickname, ts |-> Now, text |-> text]}
  /\ UNCHANGED <<contact, waiting, theirVars, relayed, rxQueue>>

-----------------------------------------------------------------------------
(* The mesh.                                                               *)

\* What a repeater makes of a packet it forwards: it adds itself to the path
\* of a flood while there is room, and takes itself off a direct one's.
Forwarded(r, p) ==
  IF RouteType(p.header) = ROUTE_TYPE_FLOOD
  THEN [p EXCEPT !.lenByte = @ + 1, !.path = Append(@, r)]
  ELSE [p EXCEPT !.lenByte = @ - 1, !.path = Tail(@)]

Relay(r, x) ==
  LET p == Parse(x.wire)
  IN  /\ <<x.by, r>> \in Hears
      /\ p # Malformed
      /\ <<r, PacketHash(p)>> \notin relayed
      /\ IF RouteType(p.header) = ROUTE_TYPE_FLOOD
         THEN HashCount(p.lenByte) < 63 /\ IsValidPathLen(p.lenByte + 1)
         ELSE p.path # <<>> /\ Head(p.path) = r
      /\ relayed' = relayed \cup {<<r, PacketHash(p)>>}
      /\ air' = air \cup {[by |-> r, wire |-> ToBytes(Forwarded(r, p))]}
      /\ UNCHANGED <<ourVars, theirVars, heard, rxQueue>>

-----------------------------------------------------------------------------
(* Receiving.                                                              *)

\* The head of _ingest: n can make a packet of it, and has not had it yet.
IsNew(n, x, p) ==
  /\ <<x.by, n>> \in Hears
  /\ p # Malformed
  /\ PacketHash(p) \notin heard[n]

\* _send_ack: a PATH return for what came by flood, or if there is no route to
\* go back; else a bare acknowledgement along that route.
Answer(p, ack) ==
  IF RouteType(p.header) = ROUTE_TYPE_FLOOD \/ theirs.path = <<>>
  THEN Flood(PAYLOAD_TYPE_PATH,
             BuildPathAck(PairKey, Us, Them, p.path, p.lenByte, Ack6(ack, 0)))
  ELSE Addressed(Route(theirs), PAYLOAD_TYPE_ACK, Written(Clear, Ack6(ack, 0)))

\* _ingest and _handle_dm on their device. A direct packet that is heard before all
\* of its hops forwarded it still has the others in its path: without a route of
\* their own to answer along, they return those as if they had been recorded.
HandleDm(x) ==
  LET p   == Parse(x.wire)
      got == DecodeDm(p.payload, PairKey, Them)
      out == Answer(p, got.ack)
  IN  /\ IsNew(Them, x, p)
      /\ PayloadType(p.header) = PAYLOAD_TYPE_TXT_MSG
      /\ got # Malformed
      /\ understood' = understood \cup {got}
      /\ answers' = Append(answers, got.ack)
      /\ overheard' = overheard \cup
           {path \in {p.path} : RouteType(p.header) = ROUTE_TYPE_DIRECT
                                  /\ theirs.path = <<>> /\ path # <<>>}
      /\ air' = air \cup {[by |-> Them, wire |-> ToBytes(out)]}
      /\ heard' = [heard EXCEPT ![Them] = @ \cup {PacketHash(p), PacketHash(out)}]
      /\ UNCHANGED <<ourVars, theirs, relayed, rxQueue>>

\* _ingest and _handle_group_text on their device.
HandleGroupText(x) ==
  LET p   == Parse(x.wire)
      got == DecodeGroupText(p.payload, ChannelKey, Channel)
  IN  /\ IsNew(Them, x, p)
      /\ PayloadType(p.header) = PAYLOAD_TYPE_GRP_TXT
      /\ got # Malformed
      /\ understood' = understood \cup {got}
      /\ heard' = [heard EXCEPT ![Them] = @ \cup {PacketHash(p)}]
      /\ UNCHANGED <<ourVars, theirs, answers, overheard, air, relayed, rxQueue>>

\* _mark_delivered: the record of the message goes, whichever attempt it was.
Delivered(ack) ==
  waiting' = {rec \in waiting :
                \A o \in sent : o.ts = rec.m.ts /\ "ack" \in DOMAIN o => o.ack # ack}

\* Mutant of LearnPath: only the path is kept.
LearnPathOnly(c, dec) == [c EXCEPT !.path = dec.path]

\* _learn_path.
LearnPath(c, dec) ==
  IF c.path = dec.path THEN c ELSE [path |-> dec.path, raw |-> dec.lenByte]

\* _ingest and _handle_path on ours.
HandlePath(x) ==
  LET p   == Parse(x.wire)
      dec == DecodePath(p.payload, PairKey, Us)
  IN  /\ IsNew(Us, x, p)
      /\ PayloadType(p.header) = PAYLOAD_TYPE_PATH
      /\ dec # Malformed
      /\ contact' = LearnPath(contact, dec)
      /\ Delivered(dec.ack)
      /\ heard' = [heard EXCEPT ![Us] = @ \cup {PacketHash(p)}]
      /\ UNCHANGED <<sent, theirVars, air, relayed, rxQueue>>

\* _ingest and _handle_ack on ours.
HandleAck(x) ==
  LET p == Parse(x.wire)
  IN  /\ IsNew(Us, x, p)
      /\ PayloadType(p.header) = PAYLOAD_TYPE_ACK
      /\ DecodeAck(p.payload) # Malformed
      /\ Delivered(DecodeAck(p.payload))
      /\ heard' = [heard EXCEPT ![Us] = @ \cup {PacketHash(p)}]
      /\ UNCHANGED <<contact, sent, theirVars, air, relayed, rxQueue>>

\* Foreign traffic, while nothing of ours is on its way: parse decides, and no
\* handler takes it.
HearForeign ==
  /\ sent = {} /\ rxQueue = <<>>
  /\ rxQueue' \in Foreign
  /\ UNCHANGED <<ourVars, theirVars, air, relayed, heard>>

IgnoreForeign ==
  /\ rxQueue # <<>>
  /\ rxQueue' = <<>>
  /\ UNCHANGED <<ourVars, theirVars, air, relayed, heard>>

-----------------------------------------------------------------------------
\* What _save_contacts writes of a route, and _load_contacts makes of it.
Saved(c) == IF c.path = <<>> THEN NoRoute
            ELSE [c EXCEPT !.raw = IF @ # 0 THEN @ ELSE Len(c.path)]

\* Our device restarts: the records and hashes in memory are gone. (Restarts
\* without a route to lose are left out.)
Restart ==
  /\ contact.path # <<>>
  /\ contact' = Saved(contact)
  /\ waiting' = {} /\ heard' = [heard EXCEPT ![Us] = {}]
  /\ UNCHANGED <<sent, theirVars, air, relayed, rxQueue>>

Next ==
  \/ \E text \in Texts : SendDm(text) \/ SendGroupText(text)
  \/ \E rec \in waiting : ResendDm(rec)
  \/ \E r \in Repeaters, x \in air : Relay(r, x)
  \/ \E x \in air : HandleDm(x) \/ HandleGroupText(x) \/ HandlePath(x) \/ HandleAck(x)
  \/ HearForeign \/ IgnoreForeign
  \/ Restart

Spec == Init /\ [][Next]_vars

-----------------------------------------------------------------------------
\* A path and the length byte kept beside it agree.
IsRoute(c) == /\ c.path \in Seq(Bytes) /\ c.raw \in Bytes
              /\ Len(c.path) = PathByteLen(c.raw)

\* Types; both routes agree with their length byte after every lesson, timeout and
\* restart (_learn_path, _reset_path, _save_contacts); a record is of an attempt
\* that was made; the air carries bytes of the keys in use.
TypeOK ==
  /\ IsRoute(contact) /\ IsRoute(theirs)
  /\ \A rec \in waiting : rec.m \in sent /\ rec.direct \in BOOLEAN
  /\ \A x \in air : x.by \in Nodes /\ x.wire \in Seq(WireBytes)
  /\ \A x \in relayed : x[1] \in Repeaters
  /\ DOMAIN heard = {Us, Them}
  /\ answers \in Seq(Seq(Bytes))
  /\ overheard \subseteq Seq(Repeaters)
  /\ rxQueue = <<>> \/ rxQueue \in Foreign

\* A packet that can be sent: its fields agree with each other.
IsPacket(p) ==
  /\ IsValidPathLen(p.lenByte) /\ Len(p.path) = PathByteLen(p.lenByte)
  /\ 1 <= Len(p.payload) /\ Len(p.payload) <= MAX_PACKET_PAYLOAD
  /\ ~HasTransportCodes(p.header) => p.codes = NoCodes

\* Everything that some way of cutting data in pieces makes of it.
Cuts(data) ==
  {[header  |-> data[1],
    codes   |-> IF i = 2 THEN NoCodes
                ELSE <<data[2] + 256 * data[3], data[4] + 256 * data[5]>>,
    lenByte |-> data[i],
    path    |-> SubSeq(data, i + 1, j),
    payload |-> SubSeq(data, j + 1, Len(data))]
     : i \in {2, 6} \cap 1..Len(data), j \in 2..Len(data)}

\* parse takes exactly what to_bytes makes of a packet, and gives that packet
\* back, whatever arrives ("round-trips with parse", to_bytes).
ParseInvertsToBytes ==
  rxQueue # <<>> =>
    LET packets == {p \in Cuts(rxQueue) : IsPacket(p) /\ ToBytes(p) = rxQueue}
    IN  packets = IF Parse(rxQueue) = Malformed THEN {} ELSE {Parse(rxQueue)}

\* What is on the air can be parsed, and a direct packet is always sent where its
\* next hop hears it, from its sender to its end: the path a contact returned leads
\* to that contact, first hop first, through restarts and timeouts
\* (build_path_ack, _parse_path, _learn_path, _route). But for one transmission: our
\* own along the rest of a route that the contact returned of an overheard packet,
\* which may start where nobody hears us; a repeater forwards none of those astray.
OnCourse ==
  \A x \in air :
    LET p    == Parse(x.wire)
        last == IF PayloadType(p.header) = PAYLOAD_TYPE_ACK THEN Us ELSE p.payload[1]
    IN  /\ p # Malformed
        /\ RouteType(p.header) = ROUTE_TYPE_DIRECT =>
             \/ <<x.by, IF p.path = <<>> THEN last ELSE Head(p.path)>> \in Hears
             \/ x.by = Us /\ p.path \in overheard

\* Every message arrives as it was written, with its padding gone, and both sides
\* compute the same acknowledgement for it (decode_dm, decode_group_text).
UnderstoodAsSent == understood \subseteq sent

\* Whichever ways the copies of an attempt come, it is answered once (packet_hash).
AnsweredOnce == \A i, j \in 1..Len(answers) : i # j => answers[i] # answers[j]
=============================================================================
