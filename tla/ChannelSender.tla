---------------------------- MODULE ChannelSender ----------------------------
(***************************************************************************)
(* The sending side of channel messages: send_group_text on the user       *)
(* interface thread, and the worker that transmits, listens for the echo   *)
(* of a repeater and resends what was not echoed. A channel has no         *)
(* acknowledgements: that a repeater relayed the packet is all the sender  *)
(* can learn, and a resend is told from the first by its timestamp only.   *)
(*                                                                         *)
(* send_group_text runs in three steps, between which the worker runs:     *)
(* _tx_group, _add_message, _retries.append. As in DmSender, a record may  *)
(* be due in any state.                                                    *)
(***************************************************************************)
EXTENDS MeshPackets

CONSTANTS
  Msgs,           \* the messages the user may send to one channel
  Text,           \* Text[m], Stamp[m]: what is sent, and when
  Stamp,
  CH_MAX_SENDS,   \* 3 in the code
  MAX_SEEN,       \* the length of _seen, 64 in the code
  Foreign,        \* the hashes of other people's packets
  NoHash          \* rec["hash"] before the first attempt

ASSUME ChannelAssumption ==
  /\ Stamp \in [Msgs -> Nat]
  /\ CH_MAX_SENDS \in Nat \ {0}
  /\ MAX_SEEN \in Nat \ {0}

VARIABLES
  pc,              \* where send_group_text is for a message
  attempt,         \* rec["attempt"]
  hash,            \* rec["hash"], the hash of the last attempt
  confirmed,       \* the messages with msg["confirmed"]
  failed,          \* the messages with msg["failed"]
  chat,            \* the messages in _messages of the channel
  mirrored,        \* our own packets in it as somebody's incoming messages
  retries,         \* the messages whose record is in _retries
  repeaterHeard,   \* _repeater_heard
  seen,            \* _seen and _seen_set
  txQueue,         \* _tx_queue
  echoed           \* history: the messages of which an echo was heard

msgVars == <<attempt, hash, confirmed, failed>>
vars == <<pc, msgVars, chat, mirrored, retries, repeaterHeard, seen, txQueue, echoed>>

Attempts == 0..(CH_MAX_SENDS - 1)

\* The packet of an attempt, which is also its hash: the same text from the
\* same sender, stamped one second later each time.
Packet(m, a) == [text |-> Text[m], stamp |-> Stamp[m] + a]

Packets == {Packet(m, a) : m \in Msgs, a \in Attempts}

Pcs == {"idle", "log", "arm", "sent"}

TypeOK ==
  /\ pc \in [Msgs -> Pcs]
  /\ attempt \in [Msgs -> Attempts]
  /\ hash \in [Msgs -> Packets \cup {NoHash}]
  /\ confirmed \subseteq Msgs
  /\ failed \subseteq Msgs
  /\ chat \subseteq Msgs
  /\ mirrored \subseteq Packets
  /\ retries \subseteq Msgs
  /\ repeaterHeard \in BOOLEAN
  /\ seen \in Seq(Packets \cup Foreign)
  /\ Len(seen) <= MAX_SEEN
  /\ txQueue \in Seq(Packets)
  /\ echoed \subseteq Msgs

Init ==
  /\ pc = [m \in Msgs |-> "idle"]
  /\ attempt = [m \in Msgs |-> 0]
  /\ hash = [m \in Msgs |-> NoHash]
  /\ confirmed = {} /\ failed = {}
  /\ chat = {} /\ mirrored = {} /\ retries = {}
  /\ repeaterHeard = FALSE
  /\ seen = <<>>
  /\ txQueue = <<>>
  /\ echoed = {}

-----------------------------------------------------------------------------
\* _tx_group: build, remember and queue attempt a of m.
TxGroup(m, a) ==
  /\ attempt' = [attempt EXCEPT ![m] = a]
  /\ hash' = [hash EXCEPT ![m] = Packet(m, a)]
  /\ seen' = Remember(seen, Packet(m, a), MAX_SEEN)
  /\ txQueue' = Append(txQueue, Packet(m, a))

\* The user interface thread sends one message at a time.
UiIsFree == \A m \in Msgs : pc[m] \in {"idle", "sent"}

\* send_group_text for a channel that exists, in its three steps.
SendGroupText(m) ==
  /\ pc[m] = "idle"
  /\ UiIsFree
  /\ TxGroup(m, 0)
  /\ pc' = [pc EXCEPT ![m] = "log"]
  /\ UNCHANGED <<confirmed, failed, chat, mirrored, retries, repeaterHeard, echoed>>

AddMessage(m) ==
  /\ pc[m] = "log"
  /\ chat' = chat \cup {m}
  /\ pc' = [pc EXCEPT ![m] = "arm"]
  /\ UNCHANGED <<msgVars, mirrored, retries, repeaterHeard, seen, txQueue, echoed>>

Arm(m) ==
  /\ pc[m] = "arm"
  /\ retries' = retries \cup {m}
  /\ pc' = [pc EXCEPT ![m] = "sent"]
  /\ UNCHANGED <<msgVars, chat, mirrored, repeaterHeard, seen, txQueue, echoed>>

-----------------------------------------------------------------------------
\* The worker pops a packet and transmits it (ChannelLink says what then).
Transmit ==
  /\ txQueue # <<>>
  /\ txQueue' = Tail(txQueue)
  /\ UNCHANGED <<pc, msgVars, chat, mirrored, retries, repeaterHeard, seen, echoed>>

\* _ingest of a packet of somebody else, which may have come by a repeater.
Overhear(pkt, byRepeater) ==
  /\ pkt \notin ToSet(seen)
  /\ seen' = Remember(seen, pkt, MAX_SEEN)
  /\ repeaterHeard' = (repeaterHeard \/ byRepeater)
  /\ UNCHANGED <<pc, msgVars, chat, mirrored, retries, txQueue, echoed>>

\* Mutant of Expecting: any echo of our own will do.
ExpectingAny(pkt) == retries

\* The records an echo of pkt would settle: pkt was their last attempt.
Expecting(pkt) == {m \in retries : hash[m] = pkt}

\* _ingest and _note_echo: one of our own hashes comes back. It confirms the
\* message whose last attempt it was, if that is still being retried. (_ingest
\* returns before it looks at the path: an echo is no sign of a repeater.)
NoteEcho(pkt) ==
  /\ pkt \in ToSet(seen)
  /\ IF Expecting(pkt) # {}
     THEN \E m \in Expecting(pkt) :
            /\ confirmed' = confirmed \cup {m}
            /\ retries' = retries \ {m}
     ELSE UNCHANGED <<confirmed, retries>>
  /\ echoed' = echoed \cup {m \in Msgs : pc[m] # "idle" /\
                              \E a \in 0..attempt[m] : Packet(m, a) = pkt}
  /\ UNCHANGED <<pc, attempt, hash, failed, chat, mirrored, repeaterHeard, seen, txQueue>>

\* _ingest of an echo whose hash was forgotten meanwhile: it is a repeater's
\* packet like any other, and its text somebody's incoming message.
MistakeEcho(pkt) ==
  /\ pkt \notin ToSet(seen)
  /\ seen' = Remember(seen, pkt, MAX_SEEN)
  /\ repeaterHeard' = TRUE
  /\ mirrored' = mirrored \cup {pkt}
  /\ UNCHANGED <<pc, msgVars, chat, retries, txQueue, echoed>>

-----------------------------------------------------------------------------
\* _retry_tick, a due record where no repeater was ever heard: drop it without
\* a mark.
DropUnheard(m) ==
  /\ m \in retries
  /\ ~repeaterHeard
  /\ retries' = retries \ {m}
  /\ UNCHANGED <<pc, msgVars, chat, mirrored, repeaterHeard, seen, txQueue, echoed>>

\* Mutant of IsLastAttempt: one attempt too few.
IsNextToLastAttempt(m) == attempt[m] + 2 >= CH_MAX_SENDS

IsLastAttempt(m) == attempt[m] + 1 >= CH_MAX_SENDS

\* _retry_tick, a due record with attempts left.
Resend(m) ==
  /\ m \in retries
  /\ repeaterHeard
  /\ ~IsLastAttempt(m)
  /\ TxGroup(m, attempt[m] + 1)
  /\ UNCHANGED <<pc, confirmed, failed, chat, mirrored, retries, repeaterHeard, echoed>>

\* _retry_tick and _give_up, a due record that has used all its attempts.
GiveUp(m) ==
  /\ m \in retries
  /\ repeaterHeard
  /\ IsLastAttempt(m)
  /\ failed' = failed \cup {m}
  /\ retries' = retries \ {m}
  /\ UNCHANGED <<pc, attempt, hash, confirmed, chat, mirrored, repeaterHeard, seen,
                 txQueue, echoed>>

-----------------------------------------------------------------------------
SendThread(m) == SendGroupText(m) \/ AddMessage(m) \/ Arm(m)

RetryTick(m) == DropUnheard(m) \/ Resend(m) \/ GiveUp(m)
==============================================================================
