------------------------------- MODULE DmLink --------------------------------
(***************************************************************************)
(* Direct messages end to end: one sending device (DmSender) and the       *)
(* devices it writes to (DmReceiver), joined by the radio and the mesh.    *)
(*                                                                         *)
(* A packet that was sent stays in the air for ever and may be received at *)
(* any time, repeatedly or never: the mesh loses, delays, reorders and     *)
(* repeats. Repeaters only change the hops a packet carries.               *)
(***************************************************************************)
EXTENDS DmSender

CONSTANTS
  NoStamp, MAX_RECENT, MAX_SHOWN, Others,   \* as in DmReceiver
  Editable   \* a bound of the model: the companions who add or remove the
             \* sender, or are added or removed by it, while messages travel

ASSUME EditableAssumption == Editable \subseteq Peers

VARIABLES
  air,                                     \* what the sender's radio has sent
  back, heard, recent, recentOrder, shown, since, repeated, acks   \* as in DmReceiver

Receiver == INSTANCE DmReceiver

ASSUME RecipientAssumption == Receiver!ReceiverAssumption

receiverVars == <<back, heard, recent, recentOrder, shown, since, repeated, acks>>
linkVars == <<vars, air, receiverVars>>

LinkInit == Init /\ Receiver!Init /\ air = {}

-----------------------------------------------------------------------------
\* The worker's Transmit. (A packet the radio fails to send is one that nobody
\* ever receives: the air holds it all the same.)
Radiate ==
  /\ Transmit
  /\ air' = air \cup {Head(txQueue)}
  /\ UNCHANGED receiverVars

\* A packet of the sender reaches its recipient.
Reach(pkt) ==
  /\ UNCHANGED <<vars, air>>
  /\ \E n \in Nonces, path \in Receiver!ArrivesWith(pkt) :
       Receiver!Receive(To[pkt.msg], pkt, path, n)

\* An acknowledgement reaches the sender.
ReachBack(pkt) ==
  /\ IF pkt.kind = "ACK" THEN HandleAck(pkt) ELSE HandlePath(pkt)
  /\ UNCHANGED <<air, receiverVars>>

\* The sender's threads: send_dm for a message, and the worker's retries.
SenderThread(m) ==
  /\ SendThread(m)
  /\ UNCHANGED <<air, receiverVars>>

SenderRetries(m) ==
  /\ RetryTick(m)
  /\ UNCHANGED <<air, receiverVars>>

\* The sender's user edits the contact list.
SenderEdits ==
  /\ \E p \in Editable : AddContact(p) \/ RemoveContact(p)
  /\ UNCHANGED <<air, receiverVars>>

\* A recipient adds or removes the sender, or changes its route to it.
RecipientStep ==
  /\ \E p \in Peers, entry \in ContactEntries :
       /\ back[p] = Absent \/ entry = Absent => p \in Editable
       /\ Receiver!ChangeBack(p, entry)
  /\ UNCHANGED <<vars, air>>

\* A recipient hears somebody else on a channel.
RecipientHears ==
  /\ \E p \in Peers, t \in Others : Receiver!HearOther(p, t)
  /\ UNCHANGED <<vars, air>>

LinkNext ==
  \/ \E m \in Msgs : SenderThread(m) \/ SenderRetries(m)
  \/ SenderEdits
  \/ Radiate
  \/ \E pkt \in air : Reach(pkt)
  \/ \E pkt \in acks : ReachBack(pkt)
  \/ RecipientStep
  \/ RecipientHears

LinkSpec == LinkInit /\ [][LinkNext]_linkVars

\* The sender's service is on: the worker's loop comes round again and again
\* and finds a record due every RETRY_AFTER_MS; a started thread runs to its
\* end. Nothing is assumed of the mesh or the recipients.
LiveLinkSpec ==
  /\ LinkSpec
  /\ \A m \in Msgs : WF_linkVars(pc[m] # "idle" /\ SenderThread(m))
  /\ \A m \in Msgs : WF_linkVars(SenderRetries(m))

\* A mesh that brings everything across in the end, between devices whose
\* threads run: an assumption about the world, not about the code. Nothing is
\* said of when, so resends, refusals and verdicts may all come first.
ReliableLinkSpec ==
  /\ LinkSpec
  /\ \A m \in Msgs : WF_linkVars(SenderThread(m))
  /\ WF_linkVars(Radiate)
  /\ \A pkt \in TxtPackets : WF_linkVars(pkt \in air /\ Reach(pkt))
  /\ \A h \in AckHashes : WF_linkVars(\E pkt \in acks : pkt.ack = h /\ ReachBack(pkt))

-----------------------------------------------------------------------------
\* Mutant of Mark: a cross wins over a check mark.
MarkCrossFirst(m) ==
  CASE m \in failed -> "failed"
    [] m \in delivered \ failed -> "delivered"
    [] OTHER -> IF m \in Sent THEN "sending" ELSE "new"

\* _send_mark (the user interface): what the chat shows for a message. A check
\* mark wins over a cross. Before _tx_dm is through there is nothing to show.
Mark(m) ==
  CASE m \in delivered -> "delivered"
    [] m \in failed \ delivered -> "failed"
    [] OTHER -> IF m \in Sent THEN "sending" ELSE "new"

Promise == INSTANCE DmPromise WITH
  status   <- [m \in Msgs |-> Mark(m)],
  received <- {m \in Msgs : shown[m] > 0}

\* The exchange keeps the promise of the marks: none is set before its cause,
\* taken back, or earned by a message that did not arrive.
PromiseKept == Promise!Spec

\* Between devices that know each other, and if the mesh brings everything
\* across in the end, every message that is sent is marked delivered in the
\* end: no order of resends, late acknowledgements and verdicts loses the
\* entry its acknowledgement looks for. Unless the cap has reached all of them.
ReliableLinkDelivers ==
  \A m \in Msgs :
    pc[m] = "tx" /\ back[To[m]] # Absent
      ~> \/ m \in delivered \/ pc[m] = "refused"
         \/ m \in Sent /\ \A h \in AcksOf(m) : Overtaken(h)

\* The check mark in the chat is true: a message marked delivered has been
\* shown to its recipient. It takes every step of the exchange to be right:
\* the hash that is registered, the copy that is acknowledged, the recipient
\* that answers, the entry the answer finds.
DeliveredWasShown == \A m \in delivered : shown[m] > 0

\* A message is put into the chat a second time only when its recipient had to
\* forget it (_dup_message), whatever the mesh loses, delays, reorders and repeats.
ShownAgainIfForgotten == Receiver!ShownAgainIfForgotten

\* "It must not show up in the chat a second time" (_handle_dm, of a resend): a
\* message is shown once, whatever else its recipient hears.
ShownOnce == \A m \in Msgs : shown[m] <= 1

\* The dictionary of shown texts and the order in which it forgets them hold
\* the same texts, each of them once: nothing is remembered for ever, and
\* nothing is forgotten before its turn.
RecentTracked == Receiver!RecentTracked

\* A resend is acknowledged again, though it is not shown again: whenever the
\* device takes in a packet of a contact, there is an acknowledgement of that
\* very attempt. (An acknowledgement that was lost is the reason for a resend.)
EveryCopyIsAcked == Receiver!EveryCopyIsAcked
==============================================================================
