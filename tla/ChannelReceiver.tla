--------------------------- MODULE ChannelReceiver ---------------------------
(***************************************************************************)
(* The receiving side of channel messages: what _ingest and                *)
(* _handle_group_text of one neighbour do with the packets of one sender   *)
(* on one channel. A resend is another packet with a later timestamp, and  *)
(* the neighbour has to tell it from a message that says the same again.   *)
(* Other people's messages share its memory, and push texts out of it.     *)
(***************************************************************************)
EXTENDS MeshPackets

CONSTANTS
  Msgs, Text,     \* as in ChannelSender
  Others,         \* what other people say
  NoStamp,        \* no entry in _recent
  CH_MAX_SENDS,   \* the window of _dup_message, 3 in the code
  MAX_SEEN,       \* the length of _seen, 64 in the code
  MAX_RECENT,     \* the length of _recent_order, 64 in the code
  MAX_SHOWN       \* a bound of the model: how far the copies shown are counted

VARIABLES
  heard,         \* _seen and _seen_set: packets are their own hashes
  recent,        \* _recent: text -> timestamp or NoStamp
  recentOrder,   \* _recent_order
  shown,         \* history: how often each message was put into the chat
  since,         \* history: since[t]: the texts noted anew since t
  repeated       \* history: the messages whose text was shown again as another's

vars == <<heard, recent, recentOrder, shown, since, repeated>>

Texts == {Text[m] : m \in Msgs} \cup Others

Init ==
  /\ heard = <<>>
  /\ recent = [t \in Texts |-> NoStamp]
  /\ recentOrder = <<>>
  /\ shown = [m \in Msgs |-> 0]
  /\ since = [t \in Texts |-> MAX_RECENT]
  /\ repeated = {}

Distance(s, t) == IF s < t THEN t - s ELSE s - t

\* Mutant of IsResend: no window, as for direct messages.
IsSameStamp(pkt) == recent[pkt.text] = pkt.stamp

\* _dup_message with window CH_MAX_SENDS: close enough to the last timestamp
\* this text was shown with.
IsResend(pkt) ==
  /\ recent[pkt.text] # NoStamp
  /\ Distance(pkt.stamp, recent[pkt.text]) <= CH_MAX_SENDS

\* The text that a new one pushes out.
Evicted == IF Len(recentOrder) < MAX_RECENT THEN {} ELSE {Head(recentOrder)}

\* _dup_message, a message that is not one: note its timestamp. A text new to
\* the dictionary may push the oldest text out of it.
NoteRecent(pkt) ==
  LET noted == [recent EXCEPT ![pkt.text] = pkt.stamp]
  IN  IF recent[pkt.text] # NoStamp
      THEN /\ recent' = noted
           /\ UNCHANGED <<recentOrder, since>>
      ELSE /\ since' = Newer(since, pkt.text, MAX_RECENT)
           /\ recentOrder' = Push(recentOrder, pkt.text, MAX_RECENT)
           /\ recent' = [t \in Texts |-> IF t \in Evicted THEN NoStamp ELSE noted[t]]

\* The other messages that say the same.
SameText(m) == {n \in Msgs \ {m} : Text[n] = Text[m]}

\* _add_message, _bump_unread and _notify, once for a new message.
Show(m) ==
  /\ shown' = [shown EXCEPT ![m] = IF @ < MAX_SHOWN THEN @ + 1 ELSE @]
  /\ repeated' = (repeated \ {m}) \cup SameText(m)

\* _ingest and _handle_group_text: pkt is an attempt of message m. (The code
\* does not know m; it stands for what a person would call the message.)
Receive(m, pkt) ==
  /\ pkt \notin ToSet(heard)
  /\ heard' = Remember(heard, pkt, MAX_SEEN)
  /\ IF IsResend(pkt)
     THEN UNCHANGED <<recent, recentOrder, shown, since, repeated>>
     ELSE NoteRecent(pkt) /\ Show(m)

\* The same of somebody else's message, whenever it was sent.
HearOther(t) ==
  LET pkt == [text |-> t, stamp |-> 0]
  IN  /\ pkt \notin ToSet(heard)
      /\ heard' = Remember(heard, pkt, MAX_SEEN)
      /\ IF IsResend(pkt)
         THEN UNCHANGED <<recent, recentOrder, since>>
         ELSE NoteRecent(pkt)
      /\ UNCHANGED <<shown, repeated>>
==============================================================================
