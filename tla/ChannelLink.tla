----------------------------- MODULE ChannelLink -----------------------------
(***************************************************************************)
(* Channel messages end to end: a sender (ChannelSender), a repeater and a *)
(* neighbour (ChannelReceiver). Whatever was sent stays in the air: it may *)
(* be relayed, and heard again, at any time, repeatedly or never. The      *)
(* neighbour hears the sender, the repeater or both.                       *)
(***************************************************************************)
EXTENDS ChannelSender

CONSTANTS NoStamp, MAX_RECENT, MAX_SHOWN, Others    \* as in ChannelReceiver

ASSUME NeighbourAssumption ==
  /\ NoStamp \notin Nat
  /\ MAX_RECENT \in Nat \ {0}
  /\ \A m \in Msgs : Text[m] \notin Others

VARIABLES
  air,                    \* the packets the sender's radio has sent
  relayed,                \* those a repeater has sent on
  heard, recent, recentOrder, shown, since, repeated   \* as in ChannelReceiver

receiverVars == <<heard, recent, recentOrder, shown, since, repeated>>
linkVars == <<vars, air, relayed, receiverVars>>

Receiver == INSTANCE ChannelReceiver

LinkInit ==
  /\ Init
  /\ Receiver!Init
  /\ air = {} /\ relayed = {}

-----------------------------------------------------------------------------
Radiate ==
  /\ Transmit
  /\ air' = air \cup {Head(txQueue)}
  /\ UNCHANGED <<relayed, receiverVars>>

\* A repeater floods a packet on, once (it has a seen table as well).
Relay(pkt) ==
  /\ relayed' = relayed \cup {pkt}
  /\ UNCHANGED <<vars, air, receiverVars>>

\* The sender hears its own packet from a repeater.
Echo(pkt) ==
  /\ NoteEcho(pkt) \/ MistakeEcho(pkt)
  /\ UNCHANGED <<air, relayed, receiverVars>>

\* The neighbour hears an attempt of m.
Reach(m, a) ==
  /\ Packet(m, a) \in air
  /\ a <= attempt[m]
  /\ Receiver!Receive(m, Packet(m, a))
  /\ UNCHANGED <<vars, air, relayed>>

\* The neighbour hears somebody else, on this channel or another.
NeighbourHears ==
  /\ \E t \in Others : Receiver!HearOther(t)
  /\ UNCHANGED <<vars, air, relayed>>

SenderThread(m) ==
  /\ SendThread(m)
  /\ UNCHANGED <<air, relayed, receiverVars>>

SenderRetries(m) ==
  /\ RetryTick(m)
  /\ UNCHANGED <<air, relayed, receiverVars>>

OtherTraffic ==
  /\ \E pkt \in Foreign, byRepeater \in BOOLEAN : Overhear(pkt, byRepeater)
  /\ UNCHANGED <<air, relayed, receiverVars>>

LinkNext ==
  \/ \E m \in Msgs : SenderThread(m) \/ SenderRetries(m)
  \/ Radiate
  \/ \E pkt \in air : Relay(pkt)
  \/ \E pkt \in relayed : Echo(pkt)
  \/ \E m \in Msgs, a \in Attempts : Reach(m, a)
  \/ NeighbourHears
  \/ OtherTraffic

LinkSpec == LinkInit /\ [][LinkNext]_linkVars

-----------------------------------------------------------------------------
\* A check mark is true: a repeater has relayed a packet of the message.
ConfirmedWasRelayed ==
  \A m \in confirmed : \E a \in Attempts : Packet(m, a) \in relayed

\* A cross means that every attempt was made without a confirmation; and no
\* message is both confirmed and failed.
FailedAfterAllSends ==
  \A m \in failed : attempt[m] = CH_MAX_SENDS - 1 /\ m \notin confirmed \cup retries

\* The neighbour sees a message a second time only when it had to forget it: since
\* its text came into the memory, MAX_RECENT other texts did; or since it was
\* shown, the same text was, as another message whose second took its place.
\* Otherwise its resends, in whatever order they and the relayed copies arrive,
\* are taken for resends, with the seconds they are stamped apart (_dup_message).
ShownAgainIfForgotten ==
  [][\A m \in Msgs :
       shown[m] > 0 /\ shown'[m] > shown[m]
       => m \in repeated \/ since[Text[m]] >= MAX_RECENT]_linkVars

\* A message of which an echo was heard is not retried ("that IS the delivery
\* proof ... so stop retrying it", _note_echo).
EchoedIsNotRetried == echoed \cap retries = {}
==============================================================================
