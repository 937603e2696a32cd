----------------------------- MODULE DmReceiver ------------------------------
(***************************************************************************)
(* The receiving side of direct messages: what _ingest and _handle_dm do   *)
(* on each device p of Peers with the TXT_MSG packets one sender addresses *)
(* to it. (The same code runs on every device; DmSender is that sender.)   *)
(*                                                                         *)
(* A packet is a record [msg, attempt, route]. A device answers it with an *)
(* acknowledgement, one of DmSender's ACK and PATH records, which the set  *)
(* acks keeps for ever: the transmit queue of the device and the air in    *)
(* one, where everything may be lost, delayed and repeated.                *)
(***************************************************************************)
EXTENDS MeshPackets

CONSTANTS
  Msgs, Peers, To, Text, Stamp, Nonces,  \* as in DmSender
  DM_MAX_SENDS,
  NoStamp,       \* no entry in _recent
  MAX_SEEN,      \* the length of _seen, 64 in the code
  MAX_RECENT,    \* the length of _recent_order, 64 in the code
  Others,        \* the texts on channels that a device hears besides
  MAX_SHOWN      \* a bound of the model: how far the copies shown are counted

\* What is asked of the constants; DmLink assumes it.
ReceiverAssumption ==
  /\ To \in [Msgs -> Peers]
  /\ MAX_SEEN \in Nat \ {0}
  /\ MAX_RECENT \in Nat \ {0}
  /\ MAX_SHOWN \in Nat \ {0, 1}
  /\ \A m \in Msgs : Text[m] \notin Others
  /\ NoStamp \notin {Stamp[m] : m \in Msgs} \cup {0}

VARIABLES
  back,          \* back[p]: the entry p's _contacts has for the sender
  heard,         \* heard[p]: p's _seen and _seen_set
  recent,        \* recent[p]: p's _recent, text -> timestamp or NoStamp
  recentOrder,   \* recentOrder[p]: p's _recent_order
  shown,         \* shown[m]: how often m was put into its recipient's chat
  since,         \* history: since[p][t]: the texts that p noted anew since t
  repeated,      \* history: the messages whose text was shown again as another's
  acks           \* every acknowledgement queued for transmission so far

memory == <<recent, recentOrder, shown, since, repeated>>
vars == <<back, heard, memory, acks>>

Texts  == {Text[m] : m \in Msgs} \cup Others
Stamps == {Stamp[m] : m \in Msgs} \cup {0}   \* 0: whenever the others were sent

Attempts == 0..(DM_MAX_SENDS - 1)
Ack(m, a) == AckHash(Text[m], Stamp[m], a)
TxtHash(m, a) == [kind |-> "TXT", to |-> To[m], ack |-> Ack(m, a)]

Init ==
  /\ back \in [Peers -> {Absent, NoPath}]
  /\ heard = [p \in Peers |-> <<>>]
  /\ recent = [p \in Peers |-> [t \in Texts |-> NoStamp]]
  /\ recentOrder = [p \in Peers |-> <<>>]
  /\ shown = [m \in Msgs |-> 0]
  /\ since = [p \in Peers |-> [t \in Texts |-> MAX_RECENT]]
  /\ repeated = {}
  /\ acks = {}

-----------------------------------------------------------------------------
\* Mutant of IsResend: only the packet hashes are compared.
IsNeverResend(p, m) == FALSE

\* _dup_message for a direct message (window 0): it was shown already if the
\* last timestamp this text had from this sender is the same one.
IsResend(p, m) == recent[p][Text[m]] = Stamp[m]

\* Mutant of Evicted: only the order is cut.
EvictedKept(order) == {}

\* The text that a new one pushes out.
Evicted(order) == IF Len(order) < MAX_RECENT THEN {} ELSE {Head(order)}

\* _dup_message, a message that is not one: note its timestamp. A text new to
\* the dictionary may push the oldest text out of it.
NoteRecent(p, t, ts) ==
  LET order == recentOrder[p]
      noted == [recent[p] EXCEPT ![t] = ts]
  IN  IF recent[p][t] # NoStamp
      THEN /\ recent' = [recent EXCEPT ![p] = noted]
           /\ UNCHANGED <<recentOrder, since>>
      ELSE /\ since' = [since EXCEPT ![p] = Newer(@, t, MAX_RECENT)]
           /\ recentOrder' = [recentOrder EXCEPT ![p] = Push(order, t, MAX_RECENT)]
           /\ recent' = [recent EXCEPT ![p] =
                [x \in Texts |-> IF x \in Evicted(order) THEN NoStamp ELSE noted[x]]]

\* The other messages that say the same to the same companion.
SameText(m) == {n \in Msgs \ {m} : To[n] = To[m] /\ Text[n] = Text[m]}

\* _handle_dm: _add_dm, _bump_unread and _notify, all once for a new message.
Show(m) ==
  /\ shown' = [shown EXCEPT ![m] = IF @ < MAX_SHOWN THEN @ + 1 ELSE @]
  /\ repeated' = (repeated \ {m}) \cup SameText(m)

\* Mutant of Answer: the flags are not hashed, every attempt is attempt 0.
AnswerFirst(p, pkt, path, nonce) ==
  LET ack == Ack(pkt.msg, 0)
  IN  IF pkt.route = NoPath \/ ~HasRoute(back[p])
      THEN [kind |-> "PATH", from |-> p, path |-> path, ack |-> ack, nonce |-> nonce]
      ELSE [kind |-> "ACK", ack |-> ack, nonce |-> nonce]

\* _send_ack: a flood, and any message of a sender we know no route to, gets a
\* PATH return with the path its packet still carries, otherwise a bare ACK.
Answer(p, pkt, path, nonce) ==
  LET ack == Ack(pkt.msg, pkt.attempt)
  IN  IF pkt.route = NoPath \/ ~HasRoute(back[p])
      THEN [kind |-> "PATH", from |-> p, path |-> path, ack |-> ack, nonce |-> nonce]
      ELSE [kind |-> "ACK", ack |-> ack, nonce |-> nonce]

IsNewTo(p, pkt) == TxtHash(pkt.msg, pkt.attempt) \notin ToSet(heard[p])

\* The device remembers what it heard and what it is going to send.
Hear(p, hash) == Remember(heard[p], hash, MAX_SEEN)

\* _ingest and _handle_dm of a packet that reaches its recipient with the hops
\* of path in it. Without a contact for the sender it cannot be decrypted.
Receive(p, pkt, path, nonce) ==
  LET m      == pkt.msg
      hash   == TxtHash(m, pkt.attempt)
      answer == Answer(p, pkt, path, nonce)
  IN  /\ p = To[m]
      /\ IsNewTo(p, pkt)
      /\ IF back[p] = Absent
         THEN /\ heard' = [heard EXCEPT ![p] = Hear(p, hash)]
              /\ UNCHANGED <<memory, acks>>
         ELSE /\ heard' = [heard EXCEPT ![p] = Remember(Hear(p, hash), answer, MAX_SEEN)]
              /\ IF IsResend(p, m)
                 THEN UNCHANGED memory
                 ELSE NoteRecent(p, Text[m], Stamp[m]) /\ Show(m)
              /\ acks' = acks \cup {answer}
      /\ UNCHANGED back

OtherHash(t) == [kind |-> "GRP", text |-> t]

\* A channel message that is not the sender's takes its place in both memories.
\* (_handle_group_text shows it, and answers nothing.)
HearOther(p, t) ==
  /\ OtherHash(t) \notin ToSet(heard[p])
  /\ heard' = [heard EXCEPT ![p] = Hear(p, OtherHash(t))]
  /\ IF recent[p][t] # NoStamp
     THEN UNCHANGED <<recent, recentOrder, since>>
     ELSE NoteRecent(p, t, 0)
  /\ UNCHANGED <<back, shown, repeated, acks>>

\* The device's entry for the sender changes by itself: add_contact and
\* remove_contact, and the routes it learns and resets with its own messages.
ChangeBack(p, entry) ==
  /\ back[p] # entry
  /\ back[p] = Absent => entry = NoPath
  /\ back' = [back EXCEPT ![p] = entry]
  /\ UNCHANGED <<heard, memory, acks>>

-----------------------------------------------------------------------------
TxtPackets == [msg : Msgs, attempt : Attempts, route : Paths]

\* The hops a packet still carries when it arrives: a flood collects those it
\* travelled, a direct packet has used up its own.
ArrivesWith(pkt) == IF pkt.route = NoPath THEN Paths ELSE {NoPath}

\* On its own the component faces any packet of the sender at any time.
Next ==
  \/ \E p \in Peers, pkt \in TxtPackets, n \in Nonces :
       \E path \in ArrivesWith(pkt) : Receive(p, pkt, path, n)
  \/ \E p \in Peers, t \in Others : HearOther(p, t)
  \/ \E p \in Peers, entry \in ContactEntries : ChangeBack(p, entry)

Spec == Init /\ [][Next]_vars

-----------------------------------------------------------------------------
TypeOK ==
  /\ back \in [Peers -> ContactEntries]
  /\ \A p \in Peers : Len(heard[p]) <= MAX_SEEN
  /\ recent \in [Peers -> [Texts -> Stamps \cup {NoStamp}]]
  /\ \A p \in Peers : recentOrder[p] \in Seq(Texts)
  /\ shown \in [Msgs -> 0..MAX_SHOWN]
  /\ since \in [Peers -> [Texts -> 0..MAX_RECENT]]
  /\ repeated \subseteq Msgs

\* The dictionary of shown texts and the order in which it forgets them hold
\* the same texts, each of them once: nothing is remembered for ever, and
\* nothing is forgotten before its turn.
RecentTracked ==
  \A p \in Peers :
    /\ ToSet(recentOrder[p]) = {t \in Texts : recent[p][t] # NoStamp}
    /\ Cardinality(ToSet(recentOrder[p])) = Len(recentOrder[p])
    /\ Len(recentOrder[p]) <= MAX_RECENT

\* A message is put into the chat a second time only when it had to be forgotten:
\* since its text came into the memory, MAX_RECENT other texts did; or since it was
\* shown, the same text was, as another message whose second took its place. No
\* order of resends, lost acknowledgements, repeated packets and forgotten packet
\* hashes does it otherwise (_dup_message).
ShownAgainIfForgotten ==
  [][\A m \in Msgs :
       shown[m] > 0 /\ shown'[m] > shown[m]
       => m \in repeated \/ since[To[m]][Text[m]] >= MAX_RECENT]_vars

\* A resend is acknowledged again, though it is not shown again: whenever the
\* device takes in a packet of a contact, there is an acknowledgement of that
\* very attempt. (An acknowledgement that was lost is the reason for a resend.)
EveryCopyIsAcked ==
  [][\A m \in Msgs, a \in Attempts :
       /\ TxtHash(m, a) \in ToSet(heard'[To[m]]) \ ToSet(heard[To[m]])
       /\ back[To[m]] # Absent
       => \E ack \in acks' : ack.ack = Ack(m, a)]_vars
==============================================================================
