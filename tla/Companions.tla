----------------------------- MODULE Companions ------------------------------
(***************************************************************************)
(* The companions a node learns from adverts (_handle_advert), the contacts *)
(* made of them, and the node's own adverts, under the identity that        *)
(* Identity generates meanwhile.                                            *)
(*                                                                         *)
(* Foreign adverts are payloads as bytes, with what their senders mean by   *)
(* them; the code sees the bytes only. An advert of our own is heard again  *)
(* whenever a repeater sends it after its hash was forgotten (64 packets,   *)
(* or a restart): until then _ingest drops it.                              *)
(*                                                                         *)
(* Contacts are saved whole: here a save succeeds, ContactStore has the     *)
(* ways it may not.                                                         *)
(***************************************************************************)
EXTENDS Identity, AdvertCodec

CONSTANTS
  Foreign,     \* adverts of others, records [pub, chat, name, bytes]
  MAX_NODES,   \* the cap of _nodes, 64 in the code
  CONTACTS,    \* bounds of the model: the contacts at a time,
  ADVERTS,     \* our own adverts,
  HEARD        \* and seq

ASSUME CompanionsAssumption == MAX_NODES \in Nat \ {0} /\ HEARD \in Nat

VARIABLES
  nodes,      \* _nodes, public key -> [name, seq]
  seq,        \* _seq
  contacts,   \* _contacts, public key -> name
  saved,      \* the contacts in the preferences
  rows,       \* the rows of the Companions tab, pairs of key and name
  air,        \* our own adverts, records [key, name, bytes]
  advertised, \* (history) who advertised since the start: the name, and who did after
  called      \* (history) the name each contact has by its senders' account

history == <<advertised, called>>
companionVars == <<nodes, seq, contacts, saved, rows, air, history>>
vars == <<identityVars, companionVars>>

\* The public key of our pair k.
Pub(k) == IF k = NoKey THEN NoName ELSE Repeated(k, PUB_KEY_SIZE)

\* What advert f of a chat node says: its name, which follows all the fields its
\* flags announce; or none, because there is none or the fields are cut short.
FieldsEnd(flags) == HEADER_LEN + NameAt(flags) - 1

SaysName(f, flags) ==
  /\ Has(flags, ADV_NAME_MASK)
  /\ Len(f.bytes) >= FieldsEnd(flags)
  /\ f.bytes = SubSeq(f.bytes, 1, FieldsEnd(flags)) \o f.name

SaysNoName(f, flags) ==
  /\ Has(flags, ADV_NAME_MASK) => Len(f.bytes) <= FieldsEnd(flags)
  /\ f.name = NoName

\* Adverts are what their senders mean by them, and no one else has our keys.
ASSUME ForeignAssumption ==
  \A f \in Foreign :
    /\ f.bytes \in Seq(Nat) /\ f.name \in Seq(Nat)
    /\ LET flags == f.bytes[HEADER_LEN + 1]
       IN  IF f.chat
           THEN /\ Len(f.bytes) > HEADER_LEN
                /\ flags % 16 = ADV_TYPE_CHAT
                /\ SaysName(f, flags) \/ SaysNoName(f, flags)
                /\ f.pub = SubSeq(f.bytes, 1, PUB_KEY_SIZE)
                /\ \A k \in 1..PAIRS : f.pub # Pub(k)
           ELSE Len(f.bytes) <= HEADER_LEN \/ flags % 16 # ADV_TYPE_CHAT

Init ==
  /\ IdentityInit
  /\ nodes = <<>> /\ seq = 0
  /\ contacts = <<>> /\ saved = <<>>
  /\ rows = {}
  /\ air = {}
  /\ advertised = <<>> /\ called = <<>>

\* A dictionary with value v for p.
Put(table, p, v) == [q \in DOMAIN table \cup {p} |-> IF q = p THEN v ELSE table[q]]

\* A chat node has advertised a name: for the history only.
Note(pub, n) ==
  /\ seq < HEARD
  /\ advertised' = Put([p \in DOMAIN advertised |-> [advertised[p] EXCEPT !.after = @ \cup {pub}]],
                       pub, [name |-> n, after |-> {}])
  /\ called' = [p \in DOMAIN called |-> IF p = pub /\ n # NoName THEN n ELSE called[p]]

-----------------------------------------------------------------------------
(* The worker.                                                             *)

\* Mutant of IsOwn: an echo of our own advert is a companion's.
IsOwnNever(adv) == FALSE

IsOwn(adv) == key # NoKey /\ adv.pub = Pub(key)

\* Mutant of Heard: a node that is known keeps its place.
HeardFirst(adv) ==
  Put(nodes, adv.pub,
      [name |-> adv.name,
       seq  |-> IF adv.pub \in DOMAIN nodes THEN nodes[adv.pub].seq ELSE seq + 1])

\* The node is noted with what it advertised, as the one heard last.
Heard(adv) == Put(nodes, adv.pub, [name |-> adv.name, seq |-> seq + 1])

\* Mutant of IsTooMany: off by one.
IsTooManyLate(table) == Cardinality(DOMAIN table) > MAX_NODES + 1

IsTooMany(table) == Cardinality(DOMAIN table) > MAX_NODES

\* _evict_oldest_node, if a new node made them too many.
Evicted(table) ==
  LET oldest == CHOOSE p \in DOMAIN table : \A q \in DOMAIN table : table[p].seq <= table[q].seq
  IN  IF IsTooMany(table) THEN [p \in DOMAIN table \ {oldest} |-> table[p]] ELSE table

\* Mutant of SaveContacts: they are not saved.
SaveNothing(c) == UNCHANGED saved

SaveContacts(c) == saved' = c

\* A contact's name follows the name it advertises.
RenameContact(adv) ==
  IF adv.pub \in DOMAIN contacts /\ adv.name \notin {NoName, contacts[adv.pub]}
  THEN contacts' = [contacts EXCEPT ![adv.pub] = adv.name] /\ SaveContacts(contacts')
  ELSE UNCHANGED <<contacts, saved>>

\* _handle_advert.
HandleAdvert(payload) ==
  LET adv == ParseAdvert(payload)
  IN  IF adv = BadAdvert \/ IsOwn(adv) \/ adv.type # ADV_TYPE_CHAT
      THEN UNCHANGED <<nodes, seq, contacts, saved>>
      ELSE /\ seq' = seq + 1
           /\ nodes' = IF adv.pub \in DOMAIN nodes THEN Heard(adv) ELSE Evicted(Heard(adv))
           /\ RenameContact(adv)

\* A bound of the model: others are heard once all key pairs were made. (What
\* the handler does with an advert of others and what the generating threads do
\* commute.)
Quiet == made = PAIRS /\ \A t \in Threads : gpc[t] = "idle"

\* An advert of another node.
HearForeign(f) ==
  /\ Quiet
  /\ HandleAdvert(f.bytes)
  /\ IF f.chat THEN Note(f.pub, f.name) ELSE UNCHANGED history
  /\ UNCHANGED <<identityVars, rows, air>>

\* One of our own comes back. Of an earlier key pair it is a companion's.
HearOwn(a) ==
  /\ HandleAdvert(a.bytes)
  /\ IF a.key # key THEN Note(Pub(a.key), CutName(a.name)) ELSE UNCHANGED history
  /\ UNCHANGED <<identityVars, rows, air>>

-----------------------------------------------------------------------------
(* The user.                                                               *)

\* advertise: the identity and the name as they are before the long signing.
Advertise ==
  /\ key # NoKey
  /\ Cardinality(air) < ADVERTS
  /\ air' = air \cup {[key   |-> key,
                       name  |-> Nickname,
                       bytes |-> AssembleAdvertPayload(Pub(key), 1,
                                   BuildAdvertAppdata(ADV_TYPE_CHAT, Nickname))]}
  /\ UNCHANGED <<identityVars, nodes, seq, contacts, saved, rows, history>>

\* _refresh_nodes. A node without a name is shown as id and its first byte.
RowName(p) == IF nodes[p].name # NoName THEN nodes[p].name ELSE <<105, 100, 32, p[1]>>
Rows == {<<p, RowName(p)>> : p \in DOMAIN nodes}

\* The home screen comes to the foreground, and draws the rows.
EnterHome ==
  /\ CreateHome \/ ResumeHome
  /\ rows' = Rows
  /\ UNCHANGED <<nodes, seq, contacts, saved, air, history>>

\* It goes to the background: its rows cannot be tapped and are drawn anew.
LeaveCompanions ==
  /\ LeaveHome
  /\ rows' = {}
  /\ UNCHANGED <<nodes, seq, contacts, saved, air, history>>

\* The user interface gets to what _notify("node") marshalled.
RefreshRows ==
  /\ home
  /\ rows' = Rows
  /\ UNCHANGED <<identityVars, nodes, seq, contacts, saved, air, history>>

\* _companion_tapped and add_contact: with the name the row shows, which may be
\* that of a node that was renamed or evicted since.
AddContact(row) ==
  /\ home
  /\ row[1] \notin DOMAIN contacts
  /\ Cardinality(DOMAIN contacts) < CONTACTS
  /\ contacts' = Put(contacts, row[1], row[2])
  /\ SaveContacts(contacts')
  /\ called' = Put(called, row[1], row[2])
  /\ UNCHANGED <<identityVars, nodes, seq, rows, air, advertised>>

RemoveContact(p) ==
  /\ home
  /\ contacts' = [q \in DOMAIN contacts \ {p} |-> contacts[q]]
  /\ SaveContacts(contacts')
  /\ called' = [q \in DOMAIN called \ {p} |-> called[q]]
  /\ UNCHANGED <<identityVars, nodes, seq, rows, air, advertised>>

\* The device restarts: what is in RAM is lost, what is in the air is not.
Reboot ==
  /\ RebootIdentity
  /\ nodes' = <<>> /\ seq' = 0
  /\ rows' = {}
  /\ contacts' = saved
  /\ advertised' = <<>>
  /\ UNCHANGED <<saved, air, called>>

Next ==
  \/ (IdentityNext \/ \E n \in UserNames : PickName(n)) /\ UNCHANGED companionVars
  \/ EnterHome
  \/ LeaveCompanions
  \/ \E f \in Foreign : HearForeign(f)
  \/ \E a \in air : HearOwn(a)
  \/ Advertise
  \/ RefreshRows
  \/ \E row \in rows : AddContact(row)
  \/ \E p \in DOMAIN contacts : RemoveContact(p)
  \/ Reboot

Spec == Init /\ [][Next]_vars

-----------------------------------------------------------------------------
TypeOK ==
  /\ IdentityTypeOK
  /\ seq \in 0..HEARD
  /\ Cardinality(DOMAIN nodes) <= MAX_NODES
  /\ \A p \in DOMAIN nodes : nodes[p].seq \in 1..seq
  /\ \A p, q \in DOMAIN nodes : nodes[p].seq = nodes[q].seq => p = q
  /\ \A p \in DOMAIN contacts : contacts[p] # NoName

\* What our node says of itself is of a piece while it has made one key pair
\* only, whenever threads, restarts and the user come between: unless the user
\* named it, its name is that of its key, our adverts say its key and fit their
\* cap, with a name that the cap alone shortens, and an echo of them never makes
\* us our own companion.
ActsAsOneNode ==
  made <= 1 =>
    /\ key # NoKey /\ name \notin UserNames => Nickname = BadgeName(key)
    /\ \A a \in air :
         LET adv == ParseAdvert(a.bytes)
         IN  /\ adv # BadAdvert /\ adv.type = ADV_TYPE_CHAT /\ adv.pub = Pub(key)
             /\ IsPrefix(adv.name, a.name)
             /\ adv.name = a.name \/ Len(adv.name) = MAX_ADVERT_DATA_SIZE - 1
             /\ Len(a.bytes) <= HEADER_LEN + MAX_ADVERT_DATA_SIZE
    /\ Pub(key) \notin DOMAIN nodes \cup DOMAIN contacts

\* The tables are what the air said: the companions are the MAX_NODES chat
\* nodes heard last, with the name each advertised last, whatever else was heard
\* and in whatever order they came; and a contact has the name it advertised
\* last since it was added, across restarts.
TablesFollowAdverts ==
  /\ DOMAIN nodes = {p \in DOMAIN advertised : Cardinality(advertised[p].after) < MAX_NODES}
  /\ \A p \in DOMAIN nodes : nodes[p].name = advertised[p].name
  /\ contacts = called
==============================================================================
