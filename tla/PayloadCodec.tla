---------------------------- MODULE PayloadCodec ----------------------------
(***************************************************************************)
(* The payloads of direct messages, PATH returns, acknowledgements and     *)
(* channel messages (meshcore_dm.py, meshcore_channel.py).                 *)
(*                                                                         *)
(* Each byte of a payload says who can read it: it is the number           *)
(* 256 * key + byte, with key 0 for what is not encrypted. The MAC then    *)
(* tells the key (collisions aside).                                       *)
(***************************************************************************)
EXTENDS PacketCodec

CONSTANT CIPHER_BLOCK_SIZE  \* 16 in the code

ASSUME BlockAssumption == CIPHER_BLOCK_SIZE \in Nat \ {0}

\* No decoder gives it back as a text.
ASSUME MalformedPlain == Malformed \notin Seq(Bytes)

CIPHER_MAC_SIZE == 2
PATH_EXTRA_ACK  == 3

\* What a text is made of: no zeros.
TextBytes == Bytes \ {0}

Clear == 0

Written(key, bytes) == [i \in 1..Len(bytes) |-> 256 * key + bytes[i]]
Read(payload)       == [i \in 1..Len(payload) |-> payload[i] % 256]
KeyOf(byte)         == byte \div 256

Zeros(n) == [i \in 1..n |-> 0]

\* The low 32 bits of a timestamp, little-endian.
StampBytes(ts) == [i \in 1..4 |-> (ts \div 256^(i - 1)) % 256]
StampOf(bytes) == bytes[1] + 256 * bytes[2] + 65536 * bytes[3] + 16777216 * bytes[4]

-----------------------------------------------------------------------------
(* Encryption: zeros up to whole blocks, and a MAC in front.                *)

Padded(plain) == plain \o Zeros((-Len(plain)) % CIPHER_BLOCK_SIZE)

EncryptThenMac(key, plain) ==
  Written(key, Zeros(CIPHER_MAC_SIZE)) \o Written(key, Padded(plain))

MacThenDecrypt(key, sealed) ==
  LET cipher == SubSeq(sealed, CIPHER_MAC_SIZE + 1, Len(sealed))
  IN  IF cipher = <<>> \/ Len(cipher) % CIPHER_BLOCK_SIZE # 0 \/ KeyOf(sealed[1]) # key
      THEN Malformed
      ELSE Read(cipher)

\* Mutant of BeforeNul: the padding is taken for text.
AllOfIt(body) == body

\* The padding ends the text; a text that fills its last block has none.
BeforeNul(body) ==
  LET nul == SelectInSeq(body, LAMBDA b : b = 0)
  IN  IF nul = 0 THEN body ELSE SubSeq(body, 1, nul - 1)

\* dst and src in the clear, then the sealed plaintext; at least one block.
Envelope(key, dst, src, plain) ==
  Written(Clear, <<dst, src>>) \o EncryptThenMac(key, plain)

Opened(payload, key, self) ==
  IF Len(payload) < 2 + CIPHER_MAC_SIZE + CIPHER_BLOCK_SIZE \/ payload[1] # self
  THEN Malformed
  ELSE MacThenDecrypt(key, SubSeq(payload, 3, Len(payload)))

-----------------------------------------------------------------------------
(* Direct messages: [timestamp : 4][flags : 1][text].                       *)

DmPlaintext(ts, attempt, text) == StampBytes(ts) \o <<attempt % 4>> \o text

\* Four bytes that tell the plaintexts of one sender apart: they stand for the
\* SHA-256 of the plaintext and the sender's public key.
DmAckHash(core) == <<core[1], core[5], Len(core), core[Len(core)]>>

EncodeDm(key, dst, src, ts, attempt, text) ==
  Envelope(key, dst, src, DmPlaintext(ts, attempt, text))

\* decode_dm with _parse_dm_plaintext.
DecodeDm(payload, key, self) ==
  LET plain == Opened(payload, key, self)
      text  == BeforeNul(SubSeq(plain, 6, Len(plain)))
  IN  IF plain = Malformed THEN Malformed
      ELSE [ts |-> StampOf(plain), attempt |-> plain[5] % 4, text |-> text,
            ack |-> DmAckHash(SubSeq(plain, 1, 5) \o text)]

-----------------------------------------------------------------------------
(* Acknowledgements: bare, or in a PATH return together with the hops of    *)
(* the packet it answers: [path length][path][3][acknowledgement].          *)

\* The acknowledgement, a zero and a random byte.
Ack6(ack, nonce) == ack \o <<0, nonce>>

DecodeAck(payload) ==
  IF Len(payload) < 4 THEN Malformed ELSE Read(SubSeq(payload, 1, 4))

\* Mutant of BuildPathAck: the last hop comes first.
BuildPathAckReversed(key, dst, src, path, lenByte, ack6) ==
  Envelope(key, dst, src, <<lenByte>> \o Reverse(path) \o <<PATH_EXTRA_ACK>> \o ack6)

BuildPathAck(key, dst, src, path, lenByte, ack6) ==
  Envelope(key, dst, src, <<lenByte>> \o path \o <<PATH_EXTRA_ACK>> \o ack6)

\* decode_path with _parse_path. A path that overruns the plaintext is cut short
\* with it, and the acknowledgement may be missing.
DecodePath(payload, key, self) ==
  LET plain == Opened(payload, key, self)
      last  == 1 + PathByteLen(plain[1])
  IN  IF plain = Malformed THEN Malformed
      ELSE [path    |-> SubSeq(plain, 2, IF last <= Len(plain) THEN last ELSE Len(plain)),
            lenByte |-> plain[1],
            ack  |-> IF Len(plain) >= last + 5 /\ plain[last + 1] = PATH_EXTRA_ACK
                     THEN SubSeq(plain, last + 2, last + 5)
                     ELSE <<>>]

-----------------------------------------------------------------------------
(* Channel messages: [timestamp : 4][type : 1]["sender: text"], with the    *)
(* hash of the channel in front.                                            *)

ColonSpace == <<58, 32>>

EncodeGroupText(key, channel, sender, text, ts) ==
  Written(Clear, <<channel>>)
    \o EncryptThenMac(key, StampBytes(ts) \o <<0>> \o sender \o ColonSpace \o text)

\* Where the first ": " stands, 0 if there is none.
ColonAt(raw) ==
  SelectInSubSeq([i \in 1..Len(raw) |-> i], 1, Len(raw) - 1,
                 LAMBDA i : SubSeq(raw, i, i + 1) = ColonSpace)

\* decode_group_text with _parse_group_text_plaintext: the sender is what
\* stands before the first ": ".
DecodeGroupText(payload, key, channel) ==
  LET plain == MacThenDecrypt(key, Tail(payload))
      raw   == BeforeNul(SubSeq(plain, 6, Len(plain)))
      colon == ColonAt(raw)
  IN  IF \/ Len(payload) < 1 + CIPHER_MAC_SIZE + CIPHER_BLOCK_SIZE
         \/ payload[1] # channel \/ plain = Malformed \/ plain[5] \div 4 # 0
      THEN Malformed
      ELSE [ts |-> StampOf(plain), sender |-> SubSeq(raw, 1, colon - 1),
            text |-> IF colon = 0 THEN raw ELSE SubSeq(raw, colon + 2, Len(raw))]
=============================================================================
