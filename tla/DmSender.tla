------------------------------ MODULE DmSender -------------------------------
(***************************************************************************)
(* The sending side of direct messages: send_dm on a thread of its own for *)
(* each message, and the worker that transmits, handles the                *)
(* acknowledgements that come back and resends what was not acknowledged.  *)
(*                                                                         *)
(* A send thread runs send_dm in steps, between which the worker and other *)
(* send threads run: the checks; _tx_dm up to the dictionary of            *)
(* acknowledgements, its order, each turn of the loop that cuts the order, *)
(* the transmit queue; _add_dm; _retries.append. A handler of the worker   *)
(* is one step, the body of _retry_tick's loop one step per record. That   *)
(* RETRY_AFTER_MS has passed since a record's sent_ms is a matter of time  *)
(* only: a record may be due in any state.                                 *)
(***************************************************************************)
EXTENDS MeshPackets

CONSTANTS
  Msgs,          \* the messages the user may send
  Peers,         \* the companions they are addressed to
  To,            \* To[m], Text[m], Stamp[m]: recipient, text and the second
  Text,          \*   of time.time() at which send_dm is called for m
  Stamp,
  Nonces,        \* the random bytes that end an acknowledgement
  NoMsg,         \* no entry in _pending_acks
  NoAck,         \* a PATH packet that carries no acknowledgement
  DM_MAX_SENDS,  \* 4 in the code
  MAX_PENDING,   \* the length of _pending_order, 32 in the code
  MAX_SEEN       \* the length of _seen, 64 in the code

ASSUME SenderAssumption ==
  /\ To \in [Msgs -> Peers]
  /\ NoMsg \notin Msgs
  /\ DM_MAX_SENDS \in 1..4       \* the attempt is two bits of the packet
  /\ MAX_PENDING \in Nat \ {0}
  /\ MAX_SEEN \in Nat \ {0}

VARIABLES
  contacts,      \* _contacts: Absent, or the learned path of the entry
  pc,            \* where the send thread of a message is
  attempt,       \* rec["attempt"], which msg["attempt"] repeats
  route,         \* the route of the last attempt; rec["direct"] if there is one
  delivered,     \* the messages with msg["delivered"]
  failed,        \* the messages with msg["failed"]
  chat,          \* the messages in _dm_messages of their recipient
  retries,       \* the messages whose record is in _retries
  pendingAcks,   \* _pending_acks: ack hash -> message, or NoMsg
  pendingOrder,  \* _pending_order
  later,         \* history: how many hashes entered the order after this one,
                 \*   up to MAX_PENDING, which it has before it enters
  hasty,         \* history: the hashes cut from an order within its cap
  seen,          \* _seen and _seen_set
  txQueue        \* _tx_queue

threadVars == <<pc, chat>>
msgVars    == <<attempt, route, delivered, failed>>
orderVars  == <<pendingOrder, later, hasty>>
ackVars    == <<pendingAcks, orderVars>>
vars == <<contacts, threadVars, msgVars, retries, ackVars, seen, txQueue>>

Attempts == 0..(DM_MAX_SENDS - 1)

Ack(m, a) == AckHash(Text[m], Stamp[m], a)

AckHashes == {Ack(m, a) : m \in Msgs, a \in Attempts}

\* What later counts.
Counts == 0..MAX_PENDING

\* rec["acks"]: _tx_dm appends one hash for each attempt, from 0 on.
AcksOf(m) == {Ack(m, a) : a \in 0..attempt[m]}

\* packet_hash of a TXT_MSG: its type and its payload, which is addressed.
\* The route and the path are not hashed.
TxtHash(m, a) == [kind |-> "TXT", to |-> To[m], ack |-> Ack(m, a)]

TxtPackets == [msg : Msgs, attempt : Attempts, route : Paths]

\* The acknowledgements: a bare ACK, which names nobody, and a PATH return,
\* which only its sender can encrypt. Nothing but type and payload is in these
\* records: they are their own packet hash.
AckPackets  == [kind : {"ACK"}, ack : AckHashes, nonce : Nonces]
PathPackets == [kind : {"PATH"}, from : Peers, path : Paths,
                ack : AckHashes \cup {NoAck}, nonce : Nonces]

PacketHashes == {TxtHash(m, a) : m \in Msgs, a \in Attempts}
                  \cup AckPackets \cup PathPackets

Pcs == {"idle", "tx", "append", "cut", "queue", "log", "arm", "sent", "refused"}

\* The messages whose first attempt is in the transmit queue, or was.
Sent == {m \in Msgs : pc[m] \in {"log", "arm", "sent"}}

\* One invariant for the types; the bound on the FIFOs is Bounded below.
TypeOK ==
  /\ contacts \in [Peers -> ContactEntries]
  /\ pc \in [Msgs -> Pcs]
  /\ attempt \in [Msgs -> Attempts]
  /\ route \in [Msgs -> Paths]
  /\ delivered \subseteq Msgs
  /\ failed \subseteq Msgs
  /\ chat \subseteq Msgs
  /\ retries \subseteq Msgs
  /\ pendingAcks \in [AckHashes -> Msgs \cup {NoMsg}]
  /\ pendingOrder \in Seq(AckHashes)
  /\ later \in [AckHashes -> Counts]
  /\ hasty \subseteq AckHashes
  /\ seen \in Seq(PacketHashes)
  /\ txQueue \in Seq(TxtPackets)

Init ==
  /\ contacts \in [Peers -> {Absent, NoPath}]
  /\ pc = [m \in Msgs |-> "idle"]
  /\ attempt = [m \in Msgs |-> 0]
  /\ route = [m \in Msgs |-> NoPath]
  /\ delivered = {} /\ failed = {}
  /\ chat = {} /\ retries = {}
  /\ pendingAcks = [h \in AckHashes |-> NoMsg]
  /\ pendingOrder = <<>>
  /\ later = [h \in AckHashes |-> MAX_PENDING]
  /\ hasty = {}
  /\ seen = <<>>
  /\ txQueue = <<>>

-----------------------------------------------------------------------------
\* Mutant of Excess: the order is cut one entry too early.
ExcessEarly(order) == IF Len(order) >= MAX_PENDING THEN Len(order) + 1 - MAX_PENDING ELSE 0

\* How many hashes an order is longer than its cap.
Excess(order) == IF Len(order) > MAX_PENDING THEN Len(order) - MAX_PENDING ELSE 0

\* Mutant of WithoutAcks: only the order is cut.
WithAcks(pending, hashes) == pending

\* _pending_acks.pop(key, None), for each of some keys.
WithoutAcks(pending, hashes) ==
  [h \in AckHashes |-> IF h \in hashes THEN NoMsg ELSE pending[h]]

\* _register_pending on the worker: the newest hash takes over an older entry of
\* the same key, and beyond the cap the oldest keys lose theirs.
RegisterPending(h, m) ==
  LET order == Append(pendingOrder, h)
      gone  == SubSeq(order, 1, Excess(order))
  IN  /\ pendingOrder' = SubSeq(order, Excess(order) + 1, Len(order))
      /\ pendingAcks' = WithoutAcks([pendingAcks EXCEPT ![h] = m], ToSet(gone))
      /\ later' = Newer(later, h, MAX_PENDING)
      /\ UNCHANGED hasty

\* _tx_dm builds attempt a of m, for a contact whose entry is entry.
Encode(m, a, entry) ==
  /\ attempt' = [attempt EXCEPT ![m] = a]
  /\ route' = [route EXCEPT ![m] = RouteFor(entry)]
  /\ seen' = Remember(seen, TxtHash(m, a), MAX_SEEN)

\* _enqueue_tx: the attempt as it was built.
Enqueue(m, a, way) ==
  txQueue' = Append(txQueue, [msg |-> m, attempt |-> a, route |-> way])

\* Mutant of TxDm: the attempt is sent but not counted.
TxDmUncounted(m, a, entry) ==
  /\ route' = [route EXCEPT ![m] = RouteFor(entry)]
  /\ seen' = Remember(seen, TxtHash(m, a), MAX_SEEN)
  /\ RegisterPending(Ack(m, a), m)
  /\ Enqueue(m, a, RouteFor(entry))
  /\ UNCHANGED attempt

\* _tx_dm on the worker.
TxDm(m, a, entry) ==
  /\ Encode(m, a, entry)
  /\ RegisterPending(Ack(m, a), m)
  /\ Enqueue(m, a, RouteFor(entry))

-----------------------------------------------------------------------------
\* send_dm, its checks: only a contact can be sent to. (That there is an
\* identity and that the text is not empty is taken as given.)
SendDm(m) ==
  /\ pc[m] = "idle"
  /\ pc' = [pc EXCEPT ![m] = IF contacts[To[m]] = Absent THEN "refused" ELSE "tx"]
  /\ UNCHANGED <<contacts, chat, msgVars, retries, ackVars, seen, txQueue>>

\* send_dm calls _tx_dm for attempt 0, which ends in _register_pending. The
\* dictionary knows the hash before the order does.
FirstTx(m) ==
  /\ pc[m] = "tx"
  /\ Encode(m, 0, contacts[To[m]])
  /\ pendingAcks' = [pendingAcks EXCEPT ![Ack(m, 0)] = m]
  /\ pc' = [pc EXCEPT ![m] = "append"]
  /\ UNCHANGED <<contacts, chat, delivered, failed, retries, orderVars, txQueue>>

\* _pending_order.append, and the loop's first look at the length.
OrderAck(m) ==
  /\ pc[m] = "append"
  /\ pendingOrder' = Append(pendingOrder, Ack(m, 0))
  /\ later' = Newer(later, Ack(m, 0), MAX_PENDING)
  /\ pc' = [pc EXCEPT ![m] = IF Excess(pendingOrder') > 0 THEN "cut" ELSE "queue"]
  /\ UNCHANGED <<contacts, chat, msgVars, retries, pendingAcks, hasty, seen, txQueue>>

\* The body of the loop, which trusts its look at the length: others may have
\* shortened the order since. (pop(0) of an order they have emptied is an error
\* that send_dm returns.) The loop then looks again.
CutOrder(m) ==
  /\ pc[m] = "cut"
  /\ IF pendingOrder = <<>>
     THEN /\ pc' = [pc EXCEPT ![m] = "refused"]
          /\ UNCHANGED ackVars
     ELSE /\ pendingOrder' = Tail(pendingOrder)
          /\ pendingAcks' = WithoutAcks(pendingAcks, {Head(pendingOrder)})
          /\ hasty' = IF Excess(pendingOrder) = 0 THEN hasty \cup {Head(pendingOrder)} ELSE hasty
          /\ pc' = [pc EXCEPT ![m] = IF Excess(pendingOrder') > 0 THEN "cut" ELSE "queue"]
          /\ UNCHANGED later
  /\ UNCHANGED <<contacts, chat, msgVars, retries, seen, txQueue>>

\* _enqueue_tx, the end of _tx_dm.
QueueTx(m) ==
  /\ pc[m] = "queue"
  /\ Enqueue(m, 0, route[m])
  /\ pc' = [pc EXCEPT ![m] = "log"]
  /\ UNCHANGED <<contacts, chat, msgVars, retries, ackVars, seen>>

\* send_dm calls _add_dm: the message appears in the chat.
AddDm(m) ==
  /\ pc[m] = "log"
  /\ chat' = chat \cup {m}
  /\ pc' = [pc EXCEPT ![m] = "arm"]
  /\ UNCHANGED <<contacts, msgVars, retries, ackVars, seen, txQueue>>

\* send_dm hands the record to the worker: _retries.append(rec).
Arm(m) ==
  /\ pc[m] = "arm"
  /\ retries' = retries \cup {m}
  /\ pc' = [pc EXCEPT ![m] = "sent"]
  /\ UNCHANGED <<contacts, chat, msgVars, ackVars, seen, txQueue>>

-----------------------------------------------------------------------------
\* The worker pops a packet and transmits it: once popped it is gone, whether
\* or not the radio managed to send it. DmLink says what becomes of it.
Transmit ==
  /\ txQueue # <<>>
  /\ txQueue' = Tail(txQueue)
  /\ UNCHANGED <<contacts, threadVars, msgVars, retries, ackVars, seen>>

\* Mutant of ContactAfterTimeout: the route is kept.
ContactKept(m) == contacts[To[m]]

\* _retry_tick forgets the route an unanswered direct attempt was sent on.
ContactAfterTimeout(m) ==
  IF HasRoute(route[m]) THEN ResetPath(contacts[To[m]]) ELSE contacts[To[m]]

\* Mutants of IsLastAttempt: one attempt too many, one too few.
IsPastLastAttempt(m) == attempt[m] >= DM_MAX_SENDS
IsNextToLastAttempt(m) == attempt[m] + 2 >= DM_MAX_SENDS

IsLastAttempt(m) == attempt[m] + 1 >= DM_MAX_SENDS

\* _retry_tick, a due record with attempts left.
Resend(m) ==
  /\ m \in retries
  /\ ~IsLastAttempt(m)
  /\ contacts' = [contacts EXCEPT ![To[m]] = ContactAfterTimeout(m)]
  /\ TxDm(m, attempt[m] + 1, ContactAfterTimeout(m))
  /\ UNCHANGED <<threadVars, delivered, failed, retries>>

\* Mutant of GiveUp: the acknowledgements of what was given up are forgotten.
GiveUpForgetting(m) ==
  /\ m \in retries
  /\ IsLastAttempt(m)
  /\ contacts' = [contacts EXCEPT ![To[m]] = ContactAfterTimeout(m)]
  /\ failed' = failed \cup {m}
  /\ retries' = retries \ {m}
  /\ pendingAcks' = WithoutAcks(pendingAcks, AcksOf(m))
  /\ UNCHANGED <<threadVars, attempt, route, delivered, orderVars, seen, txQueue>>

\* _retry_tick and _give_up, a due record that has used all its attempts.
GiveUp(m) ==
  /\ m \in retries
  /\ IsLastAttempt(m)
  /\ contacts' = [contacts EXCEPT ![To[m]] = ContactAfterTimeout(m)]
  /\ failed' = failed \cup {m}
  /\ retries' = retries \ {m}
  /\ UNCHANGED <<threadVars, attempt, route, delivered, ackVars, seen, txQueue>>

-----------------------------------------------------------------------------
\* _mark_delivered with _cancel_retry: the hash is taken out of both tables;
\* if the message still had a record, its other hashes go from the dictionary
\* (but stay in the order).
MarkDelivered(h) ==
  LET m == pendingAcks[h]
      cancelled == IF m \in retries THEN AcksOf(m) ELSE {}
  IN  /\ delivered' = delivered \cup {m}
      /\ retries' = retries \ {m}
      /\ pendingAcks' = WithoutAcks(pendingAcks, {h} \cup cancelled)
      /\ pendingOrder' \in WithoutFirst(pendingOrder, h)
      /\ UNCHANGED <<later, hasty>>

\* An acknowledgement nobody waits for (any more) changes nothing.
Acknowledge(h) ==
  IF h \in AckHashes /\ pendingAcks[h] # NoMsg
  THEN MarkDelivered(h)
  ELSE UNCHANGED <<delivered, retries, ackVars>>

\* _ingest lets a packet through once, as long as it remembers its hash.
IsNew(pkt) == pkt \notin ToSet(seen)

\* _ingest and _handle_ack: a bare ACK.
HandleAck(pkt) ==
  /\ IsNew(pkt)
  /\ seen' = Remember(seen, pkt, MAX_SEEN)
  /\ Acknowledge(pkt.ack)
  /\ UNCHANGED <<contacts, threadVars, attempt, route, failed, txQueue>>

\* _ingest and _handle_path: a PATH return of a contact teaches us the route
\* to it and carries its acknowledgement; anyone else's cannot be decrypted.
HandlePath(pkt) ==
  /\ IsNew(pkt)
  /\ seen' = Remember(seen, pkt, MAX_SEEN)
  /\ IF contacts[pkt.from] # Absent
     THEN /\ contacts' = [contacts EXCEPT ![pkt.from] = LearnPath(@, pkt.path)]
          /\ Acknowledge(pkt.ack)
     ELSE UNCHANGED <<contacts, delivered, retries, ackVars>>
  /\ UNCHANGED <<threadVars, attempt, route, failed, txQueue>>

-----------------------------------------------------------------------------
\* add_contact, from the user interface: the new entry has no path.
AddContact(p) ==
  /\ contacts[p] = Absent
  /\ contacts' = [contacts EXCEPT ![p] = NoPath]
  /\ UNCHANGED <<threadVars, msgVars, retries, ackVars, seen, txQueue>>

\* remove_contact, from the user interface: the entry and the chat go, the
\* records in _retries and _pending_acks stay.
RemoveContact(p) ==
  /\ contacts[p] # Absent
  /\ contacts' = [contacts EXCEPT ![p] = Absent]
  /\ chat' = {m \in chat : To[m] # p}
  /\ UNCHANGED <<pc, msgVars, retries, ackVars, seen, txQueue>>

-----------------------------------------------------------------------------
SendThread(m) ==
  \/ SendDm(m) \/ FirstTx(m) \/ OrderAck(m) \/ CutOrder(m) \/ QueueTx(m)
  \/ AddDm(m) \/ Arm(m)

RetryTick(m) == Resend(m) \/ GiveUp(m)

\* Everything the device does by itself.
LocalNext ==
  \/ \E m \in Msgs : SendThread(m)
  \/ \E m \in Msgs : RetryTick(m)
  \/ Transmit
  \/ \E p \in Peers : AddContact(p) \/ RemoveContact(p)

\* On its own the component faces any acknowledgement at any time: duplicated,
\* delayed, for another device, or never sent at all.
Next ==
  \/ LocalNext
  \/ \E pkt \in AckPackets : HandleAck(pkt)
  \/ \E pkt \in PathPackets : HandlePath(pkt)

Spec == Init /\ [][Next]_vars

-----------------------------------------------------------------------------
\* The two tables of expected acknowledgements agree: a hash that can still
\* be acknowledged is in the order too, or is about to be, so the cap will reach
\* it one day; and an order beyond its cap is being cut. _register_pending,
\* _mark_delivered and _cancel_retry each change the tables differently, and a
\* send thread runs the first while the worker runs all three.
PendingTracked ==
  /\ \A h \in AckHashes :
       pendingAcks[h] # NoMsg => \/ h \in ToSet(pendingOrder)
                                 \/ pc[pendingAcks[h]] = "append"
  /\ Excess(pendingOrder) > 0 => \E m \in Msgs : pc[m] = "cut"

\* An expected hash belongs to a message that really has it: an attempt that
\* was built, of a message with this very text and second, and not one that
\* send_dm refused. Otherwise an acknowledgement would mark the wrong message
\* of the chat, or one that is not there.
PendingWasSent ==
  \A h \in AckHashes :
    LET m == pendingAcks[h]
    IN  m # NoMsg => /\ pc[m] \notin {"idle", "tx", "refused"}
                     /\ h \in AcksOf(m)

\* A cross in the chat means that every attempt was made: a message is failed
\* only after its last attempt, and from then on nothing is retried for it.
FailedAfterAllSends ==
  \A m \in failed : /\ attempt[m] = DM_MAX_SENDS - 1
                    /\ m \notin retries
                    /\ pc[m] = "sent"

\* The cap may have reached a hash: as many hashes as it holds came after this
\* one, or a loop that trusted its first look cut an order that was short enough.
Overtaken(h) == later[h] = MAX_PENDING \/ h \in hasty

\* Another message has the hash too: the same text, sent in the same second.
Shared(h, m) == \E n \in Msgs \ {m} : pc[n] \notin {"idle", "tx"} /\ h \in AcksOf(n)

\* "Every attempt's ack stays registered: a late ack for an earlier attempt
\* still proves delivery" (_tx_dm): whatever other messages register, fill the
\* order with and take out, and however send threads and the worker take turns
\* in it, a message that is still retried is found by the acknowledgement of any
\* attempt the cap has not reached.
EveryAttemptIsExpected ==
  \A m \in retries \ delivered : \A h \in AcksOf(m) :
    pendingAcks[h] = m \/ Overtaken(h) \/ Shared(h, m)

\* A due record whose last attempt went by the learned route makes the next
\* attempt a flood: two attempts in a row are never lost on one stale route.
\* The worker, the send threads of other messages to the same contact and the
\* PATH returns all touch that route.
ResendAfterDirectFloods ==
  [][\A m \in Msgs :
       HasRoute(route[m]) /\ attempt'[m] > attempt[m]
         => /\ ~HasRoute(route'[m])
            /\ txQueue'[Len(txQueue')].route = NoPath]_vars

\* Every message that was accepted comes to a verdict, delivered or failed,
\* whatever is lost: the chat never shows it as being sent for ever. (Or send_dm
\* returns an error after all: CutOrder.)
EveryMessageSettles ==
  \A m \in Msgs : pc[m] = "tx" ~> m \in delivered \cup failed \/ pc[m] = "refused"
==============================================================================
