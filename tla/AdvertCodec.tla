----------------------------- MODULE AdvertCodec -----------------------------
(***************************************************************************)
(* The payload of an advert (meshcore_advert.py):                          *)
(* [public key : 32][timestamp : 4][signature : 64][flags : 1][optional    *)
(* fields][name]. Signatures are not checked by the code, and zeros here.  *)
(***************************************************************************)
EXTENDS Integers, SequencesExt

CONSTANT BadAdvert   \* parse_advert raised ValueError

ASSUME AdvertAssumption ==
  BadAdvert \notin [pub : Seq(Nat), type : Nat, name : Seq(Nat)]

PUB_KEY_SIZE         == 32
SIGNATURE_SIZE       == 64
MAX_ADVERT_DATA_SIZE == 32
HEADER_LEN           == PUB_KEY_SIZE + 4 + SIGNATURE_SIZE

ADV_TYPE_NONE == 0
ADV_TYPE_CHAT == 1

\* The bits of the flags byte.
ADV_LATLON_MASK == 16
ADV_FEAT1_MASK  == 32
ADV_FEAT2_MASK  == 64
ADV_NAME_MASK   == 128
Has(flags, mask) == (flags \div mask) % 2 = 1

Repeated(byte, n) == [i \in 1..n |-> byte]
LittleEndian(n)   ==
  <<n % 256, (n \div 256) % 256, (n \div 65536) % 256, (n \div 16777216) % 256>>

\* Mutant of NameRoom: the flags byte is forgotten.
NameRoomAll == MAX_ADVERT_DATA_SIZE

\* What the cap leaves for a name (an advert of ours has no position).
NameRoom == MAX_ADVERT_DATA_SIZE - 1

\* What is left of a name in an advert of ours.
CutName(name) == SubSeq(name, 1, IF Len(name) < NameRoom THEN Len(name) ELSE NameRoom)

\* build_advert_appdata without a position.
BuildAdvertAppdata(type, name) ==
  IF name = <<>> THEN <<type>> ELSE <<type + ADV_NAME_MASK>> \o CutName(name)

\* assemble_advert_payload with what advert_signed_message signs.
AssembleAdvertPayload(pub, ts, appData) ==
  pub \o LittleEndian(ts) \o Repeated(0, SIGNATURE_SIZE) \o appData

\* Where the name starts: position and features come first. A position that is
\* cut short raises inside parse_advert, which then leaves the name empty.
NameAt(flags) ==
  2 + (IF Has(flags, ADV_LATLON_MASK) THEN 8 ELSE 0)
    + (IF Has(flags, ADV_FEAT1_MASK) THEN 2 ELSE 0)
    + (IF Has(flags, ADV_FEAT2_MASK) THEN 2 ELSE 0)

\* parse_advert: whose it is, of what type, and the name.
ParseAdvert(payload) ==
  LET app   == SubSeq(payload, HEADER_LEN + 1, Len(payload))
      flags == app[1]
  IN  IF Len(payload) < HEADER_LEN THEN BadAdvert
      ELSE [pub  |-> SubSeq(payload, 1, PUB_KEY_SIZE),
            type |-> IF app = <<>> THEN ADV_TYPE_NONE ELSE flags % 16,
            name |-> IF app # <<>> /\ Has(flags, ADV_NAME_MASK)
                     THEN SubSeq(app, NameAt(flags), Len(app))
                     ELSE <<>>]
=============================================================================
