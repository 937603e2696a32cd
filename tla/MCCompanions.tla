---------------------------- MODULE MCCompanions -----------------------------
(* Companions' constants for TLC: adverts of two companions and
   a repeater as they are on the air. *)
EXTENDS Companions

Advert(pub, flags, fields, n, chat) ==
  [pub |-> Repeated(pub, PUB_KEY_SIZE), chat |-> chat, name |-> n,
   bytes |-> Repeated(pub, PUB_KEY_SIZE) \o Repeated(7, 4 + SIGNATURE_SIZE)
             \o <<flags>> \o fields \o n]

Ann == <<65, 110, 110>>
Bob == <<66, 111, 98>>

Position == Repeated(1, 8)
Feature  == <<2, 2>>

\* A name alone, and after all the optional fields; a position that is cut short;
\* a repeater; an advert that is cut short. (One of our own, of an earlier key
\* pair, makes a third companion.)
Adverts == {
  Advert(101, ADV_TYPE_CHAT + ADV_NAME_MASK, <<>>, Ann, TRUE),
  Advert(101, ADV_TYPE_CHAT + ADV_NAME_MASK + ADV_LATLON_MASK + ADV_FEAT1_MASK + ADV_FEAT2_MASK,
         Position \o Feature \o Feature, Bob, TRUE),
  Advert(102, ADV_TYPE_CHAT + ADV_LATLON_MASK + ADV_NAME_MASK, <<1, 1, 1>>, <<>>, TRUE),
  Advert(103, 2 + ADV_NAME_MASK, <<>>, Ann, FALSE),
  [pub |-> Repeated(101, PUB_KEY_SIZE), chat |-> FALSE, name |-> <<>>,
   bytes |-> Repeated(101, HEADER_LEN - 1)]}

\* A name a byte too long for an advert.
Names == {Repeated(122, MAX_ADVERT_DATA_SIZE)}
==============================================================================
