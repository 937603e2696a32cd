-------------------------- MODULE ChannelLinkProofs --------------------------
(***************************************************************************)
(* Theorems about the marks of channel messages and about what a neighbour *)
(* is shown, for any number of messages, attempts and foreign packets and  *)
(* any length of the tables, whatever the repeater relays and whoever      *)
(* hears it.                                                               *)
(***************************************************************************)
EXTENDS ChannelLink, TLAPS

\* What is proved there of the bounded tables and their history; the rest of it
\* is about direct messages.
Direct == INSTANCE DmReceiverProofs WITH
  Peers <- {}, To <- <<>>, Nonces <- {}, DM_MAX_SENDS <- CH_MAX_SENDS,
  back <- <<>>, acks <- {}

\* A message is retried or marked only when send_group_text is through with it,
\* and what is marked is not retried.
Settled ==
  /\ \A m \in retries \cup confirmed \cup failed : pc[m] = "sent"
  /\ confirmed \cap retries = {}

\* The hash a record waits for is that of its last attempt.
HashIsLast == \A m \in Msgs : pc[m] # "idle" => hash[m] = Packet(m, attempt[m])

\* In the air there are attempts of our messages, and nothing else.
AirTyped == air \subseteq Packets /\ relayed \subseteq Packets

IInv ==
  /\ TypeOK /\ AirTyped
  /\ Settled /\ HashIsLast
  /\ ConfirmedWasRelayed /\ FailedAfterAllSends

-----------------------------------------------------------------------------
\* Nothing is marked before anything was sent.
LEMMA InitOK == LinkInit => IInv
<1>1. 0 \in Attempts /\ MAX_SEEN \in Nat
  BY ChannelAssumption DEF Attempts
<1>2. Init => seen \in Seq(Packets \cup Foreign) /\ Len(seen) <= MAX_SEEN /\ txQueue \in Seq(Packets)
  BY <1>1 DEF Init
<1>3. Init => TypeOK
  <2> SUFFICES ASSUME Init PROVE TypeOK
    OBVIOUS
  <2>1. /\ pc \in [Msgs -> Pcs] /\ attempt \in [Msgs -> Attempts]
        /\ hash \in [Msgs -> Packets \cup {NoHash}]
    BY <1>1 DEF Init, Pcs
  <2>2. repeaterHeard \in BOOLEAN
    BY DEF Init
  <2> QED
    BY <1>2, <2>1, <2>2 DEF Init, TypeOK
<1> QED
  BY <1>3
  DEF LinkInit, Init, IInv, AirTyped, Settled, HashIsLast, ConfirmedWasRelayed,
      FailedAfterAllSends

\* Remembering a packet keeps the table of hashes within its bound.
LEMMA SeenOK ==
  ASSUME TypeOK, NEW h \in Packets \cup Foreign, seen' = Remember(seen, h, MAX_SEEN)
  PROVE  seen' \in Seq(Packets \cup Foreign) /\ Len(seen') <= MAX_SEEN
<1>1. seen \in Seq(Packets \cup Foreign) /\ Len(seen) <= MAX_SEEN /\ MAX_SEEN \in Nat \ {0}
  BY ChannelAssumption DEF TypeOK
<1>2. ASSUME NEW S, NEW s \in Seq(S), NEW e \in S, NEW max \in Nat \ {0}, Len(s) <= max
      PROVE  Remember(s, e, max) \in Seq(S) /\ Len(Remember(s, e, max)) <= max
  <2>1. CASE e \in ToSet(s)
    BY <1>2, <2>1 DEF Remember
  <2>2. CASE e \notin ToSet(s) /\ Len(s) < max
    BY <2>2 DEF Remember, Push
  <2>3. CASE e \notin ToSet(s) /\ Len(s) = max
    <3>1. Tail(s) \in Seq(S) /\ Len(Tail(s)) = Len(s) - 1
      BY <2>3
    <3> QED
      BY <2>3, <3>1 DEF Remember, Push
  <2> QED
    BY <1>2, <2>1, <2>2, <2>3
<1> QED
  BY <1>1, <1>2

\* What _tx_group does to an attempt.
LEMMA TxOK ==
  ASSUME TypeOK, NEW m \in Msgs, NEW a \in Attempts, TxGroup(m, a)
  PROVE  /\ attempt' \in [Msgs -> Attempts] /\ attempt'[m] = a
         /\ hash' \in [Msgs -> Packets \cup {NoHash}] /\ hash'[m] = Packet(m, a)
         /\ \A n \in Msgs : n # m => attempt'[n] = attempt[n] /\ hash'[n] = hash[n]
         /\ seen' \in Seq(Packets \cup Foreign) /\ Len(seen') <= MAX_SEEN
         /\ txQueue' \in Seq(Packets)
<1>1. Packet(m, a) \in Packets
  BY DEF Packets
<1>2. seen' \in Seq(Packets \cup Foreign) /\ Len(seen') <= MAX_SEEN
  BY <1>1, SeenOK DEF TxGroup
<1>3. txQueue' \in Seq(Packets)
  <2>1. txQueue \in Seq(Packets) /\ txQueue' = Append(txQueue, Packet(m, a))
    BY DEF TxGroup, TypeOK
  <2> QED
    BY <1>1, <2>1
<1> QED
  BY <1>1, <1>2, <1>3 DEF TxGroup, TypeOK

\* send_group_text: of a message that is sent nothing was retried or marked.
LEMMA SendOK ==
  ASSUME IInv, NEW m \in Msgs, SendGroupText(m), UNCHANGED <<air, relayed>>
  PROVE  IInv'
<1>1. 0 \in Attempts /\ TypeOK
  BY ChannelAssumption DEF Attempts, IInv
<1>2. /\ attempt' \in [Msgs -> Attempts] /\ attempt'[m] = 0
      /\ hash' \in [Msgs -> Packets \cup {NoHash}] /\ hash'[m] = Packet(m, 0)
      /\ \A n \in Msgs : n # m => attempt'[n] = attempt[n] /\ hash'[n] = hash[n]
      /\ seen' \in Seq(Packets \cup Foreign) /\ Len(seen') <= MAX_SEEN
      /\ txQueue' \in Seq(Packets)
  BY <1>1, TxOK DEF SendGroupText
<1>3. m \notin retries \cup confirmed \cup failed
  BY DEF SendGroupText, IInv, Settled
<1>4. /\ pc[m] = "idle" /\ pc' = [pc EXCEPT ![m] = "log"]
      /\ UNCHANGED <<confirmed, failed, chat, mirrored, retries, repeaterHeard, echoed>>
  BY DEF SendGroupText
<1>5. TypeOK'
  BY <1>1, <1>2, <1>4 DEF TypeOK, Pcs
<1>6. Settled' /\ FailedAfterAllSends'
  BY <1>1, <1>2, <1>3, <1>4 DEF IInv, Settled, FailedAfterAllSends, TypeOK
<1>7. HashIsLast'
  BY <1>1, <1>2, <1>4 DEF IInv, HashIsLast, TypeOK
<1> QED
  BY <1>4, <1>5, <1>6, <1>7 DEF IInv, AirTyped, ConfirmedWasRelayed

\* _retry_tick: another attempt.
LEMMA ResendOK ==
  ASSUME IInv, NEW m \in Msgs, Resend(m), UNCHANGED <<air, relayed>>
  PROVE  IInv'
<1> DEFINE a == attempt[m] + 1
<1>1. a \in Attempts /\ TypeOK
  BY ChannelAssumption DEF IInv, TypeOK, Attempts, Resend, IsLastAttempt
<1>2. /\ attempt' \in [Msgs -> Attempts] /\ attempt'[m] = a
      /\ hash' \in [Msgs -> Packets \cup {NoHash}] /\ hash'[m] = Packet(m, a)
      /\ \A n \in Msgs : n # m => attempt'[n] = attempt[n] /\ hash'[n] = hash[n]
      /\ seen' \in Seq(Packets \cup Foreign) /\ Len(seen') <= MAX_SEEN
      /\ txQueue' \in Seq(Packets)
  BY <1>1, TxOK DEF Resend
<1>3. /\ m \in retries
      /\ UNCHANGED <<pc, confirmed, failed, chat, mirrored, retries, repeaterHeard, echoed>>
  BY DEF Resend
<1>4. m \notin failed
  BY <1>3 DEF IInv, FailedAfterAllSends
<1> HIDE DEF a
<1>5. TypeOK'
  BY <1>1, <1>2, <1>3 DEF TypeOK
<1>6. Settled' /\ FailedAfterAllSends'
  BY <1>1, <1>2, <1>3, <1>4 DEF IInv, Settled, FailedAfterAllSends, TypeOK
<1>7. HashIsLast'
  BY <1>2, <1>3 DEF IInv, HashIsLast
<1> QED
  BY <1>3, <1>5, <1>6, <1>7 DEF IInv, AirTyped, ConfirmedWasRelayed

\* _note_echo: what comes back was relayed, and it is the last attempt of a
\* message that is still retried.
LEMMA EchoOK ==
  ASSUME IInv, NEW pkt \in relayed, Echo(pkt)
  PROVE  IInv'
<1>1. TypeOK /\ pkt \in Packets /\ UNCHANGED <<air, relayed>>
  BY DEF IInv, AirTyped, Echo
<1>2. CASE MistakeEcho(pkt)
  <2>1. seen' \in Seq(Packets \cup Foreign) /\ Len(seen') <= MAX_SEEN
    BY <1>1, <1>2, SeenOK DEF MistakeEcho
  <2>2. repeaterHeard' = TRUE /\ mirrored' \subseteq Packets
        /\ UNCHANGED <<pc, attempt, hash, confirmed, failed, chat, retries, txQueue, echoed>>
    BY <1>1, <1>2 DEF MistakeEcho, msgVars, TypeOK
  <2>3. TypeOK'
    BY <1>1, <2>1, <2>2 DEF TypeOK
  <2> QED
    BY <1>1, <2>2, <2>3
    DEF IInv, AirTyped, Settled, HashIsLast, ConfirmedWasRelayed, FailedAfterAllSends
<1>3. CASE NoteEcho(pkt)
  <2>1. /\ UNCHANGED <<pc, attempt, hash, failed, chat, mirrored, repeaterHeard, seen, txQueue>>
        /\ echoed' \subseteq Msgs
    BY <1>1, <1>3 DEF NoteEcho, TypeOK
  <2>2. CASE UNCHANGED <<confirmed, retries>>
    BY <1>1, <2>1, <2>2
    DEF IInv, TypeOK, AirTyped, Settled, HashIsLast, ConfirmedWasRelayed, FailedAfterAllSends
  <2>3. ASSUME NEW m \in Expecting(pkt), confirmed' = confirmed \cup {m}, retries' = retries \ {m}
        PROVE  IInv'
    <3>1. m \in Msgs /\ m \in retries /\ pc[m] = "sent" /\ hash[m] = pkt
      BY DEF Expecting, IInv, TypeOK, Settled
    <3>2. attempt[m] \in Attempts /\ Packet(m, attempt[m]) \in relayed
      BY <3>1 DEF IInv, TypeOK, HashIsLast
    <3>3. TypeOK' /\ AirTyped' /\ HashIsLast'
      BY <1>1, <2>1, <2>3, <3>1 DEF IInv, TypeOK, AirTyped, HashIsLast
    <3>4. Settled' /\ FailedAfterAllSends'
      BY <2>1, <2>3, <3>1 DEF IInv, Settled, FailedAfterAllSends
    <3>5. ConfirmedWasRelayed'
      BY <1>1, <2>3, <3>2 DEF IInv, ConfirmedWasRelayed
    <3> QED
      BY <3>3, <3>4, <3>5 DEF IInv
  <2> QED
    BY <1>3, <2>2, <2>3 DEF NoteEcho
<1> QED
  BY <1>2, <1>3 DEF Echo

\* Every step of the exchange keeps the invariant.
LEMMA StepOK == IInv /\ [LinkNext]_linkVars => IInv'
<1> SUFFICES ASSUME IInv, [LinkNext]_linkVars PROVE IInv'
  OBVIOUS
<1>1. TypeOK
  BY DEF IInv
<1>2. ASSUME NEW m \in Msgs, AddMessage(m) \/ Arm(m), UNCHANGED <<air, relayed>>
      PROVE  IInv'
  <2>1. UNCHANGED <<attempt, hash, confirmed, failed, mirrored, repeaterHeard, seen, txQueue, echoed>>
    BY <1>2 DEF AddMessage, Arm, msgVars
  <2>2. /\ pc[m] \in {"log", "arm"} /\ m \notin confirmed \cup failed
        /\ \/ pc' = [pc EXCEPT ![m] = "arm"] /\ retries' = retries
           \/ pc' = [pc EXCEPT ![m] = "sent"] /\ retries' = retries \cup {m}
        /\ chat' \subseteq Msgs
    BY <1>1, <1>2 DEF AddMessage, Arm, IInv, Settled, TypeOK
  <2>3. TypeOK'
    BY <1>1, <2>1, <2>2 DEF TypeOK, Pcs
  <2>4. Settled' /\ FailedAfterAllSends' /\ HashIsLast'
    BY <1>1, <2>1, <2>2 DEF IInv, TypeOK, Settled, FailedAfterAllSends, HashIsLast
  <2> QED
    BY <1>2, <2>1, <2>3, <2>4 DEF IInv, AirTyped, ConfirmedWasRelayed
<1>3. ASSUME NEW m \in Msgs, DropUnheard(m) \/ GiveUp(m), UNCHANGED <<air, relayed>>
      PROVE  IInv'
  <2>1. /\ UNCHANGED <<pc, attempt, hash, confirmed, chat, mirrored, repeaterHeard, seen, txQueue, echoed>>
        /\ retries' = retries \ {m} /\ m \in retries
        /\ failed' = failed \/ (failed' = failed \cup {m} /\ IsLastAttempt(m))
    BY <1>3 DEF DropUnheard, GiveUp, msgVars
  <2>2. IsLastAttempt(m) => attempt[m] = CH_MAX_SENDS - 1
    <3>1. attempt[m] \in 0..(CH_MAX_SENDS - 1) /\ CH_MAX_SENDS \in Nat \ {0}
      BY <1>1, ChannelAssumption DEF TypeOK, Attempts
    <3> QED
      BY <3>1 DEF IsLastAttempt
  <2>3. m \notin confirmed /\ pc[m] = "sent"
    BY <2>1 DEF IInv, Settled
  <2>4. TypeOK'
    BY <1>1, <2>1 DEF TypeOK
  <2>5. Settled' /\ FailedAfterAllSends' /\ HashIsLast'
    BY <2>1, <2>2, <2>3 DEF IInv, Settled, FailedAfterAllSends, HashIsLast
  <2> QED
    BY <1>3, <2>1, <2>4, <2>5 DEF IInv, AirTyped, ConfirmedWasRelayed
<1>4. CASE Radiate
  <2>1. /\ UNCHANGED <<pc, attempt, hash, confirmed, failed, chat, mirrored, retries,
                       repeaterHeard, seen, echoed, relayed>>
        /\ txQueue # <<>> /\ txQueue' = Tail(txQueue) /\ air' = air \cup {Head(txQueue)}
    BY <1>4 DEF Radiate, Transmit, msgVars
  <2>2. txQueue \in Seq(Packets)
    BY <1>1 DEF TypeOK
  <2>3. txQueue' \in Seq(Packets) /\ Head(txQueue) \in Packets
    BY <2>1, <2>2
  <2>4. TypeOK' /\ AirTyped'
    BY <1>1, <2>1, <2>3 DEF IInv, TypeOK, AirTyped
  <2> QED
    BY <2>1, <2>4 DEF IInv, Settled, HashIsLast, ConfirmedWasRelayed, FailedAfterAllSends
<1>5. CASE OtherTraffic
  <2>1. PICK pkt \in Foreign, byRepeater \in BOOLEAN : Overhear(pkt, byRepeater)
    BY <1>5 DEF OtherTraffic
  <2>2. seen' \in Seq(Packets \cup Foreign) /\ Len(seen') <= MAX_SEEN
    BY <1>1, <2>1, SeenOK DEF Overhear
  <2>3. UNCHANGED <<pc, attempt, hash, confirmed, failed, chat, mirrored, retries, txQueue, echoed,
                    air, relayed>>
    BY <1>5, <2>1 DEF OtherTraffic, Overhear, msgVars
  <2>4. repeaterHeard' \in BOOLEAN
    BY <2>1 DEF Overhear
  <2>5. TypeOK'
    BY <1>1, <2>2, <2>3, <2>4 DEF TypeOK
  <2> QED
    BY <2>3, <2>5
    DEF IInv, AirTyped, Settled, HashIsLast, ConfirmedWasRelayed, FailedAfterAllSends
<1>6. ASSUME UNCHANGED <<vars, air>>, relayed' = relayed \/ \E pkt \in air : relayed' = relayed \cup {pkt}
      PROVE  IInv'
  <2>1. relayed \subseteq relayed' /\ relayed' \subseteq relayed \cup air
    BY <1>6
  <2> QED
    BY <1>1, <1>6, <2>1
    DEF vars, msgVars, IInv, TypeOK, AirTyped, Settled, HashIsLast, ConfirmedWasRelayed,
        FailedAfterAllSends
<1> QED
  BY <1>2, <1>3, <1>4, <1>5, <1>6, SendOK, ResendOK, EchoOK
  DEF LinkNext, linkVars, SenderThread, SendThread, SenderRetries, RetryTick, Relay, Reach,
      NeighbourHears

-----------------------------------------------------------------------------
\* The invariant holds in every reachable state.
THEOREM IInvIsInvariant == LinkSpec => []IInv
BY InitOK, StepOK, PTL DEF LinkSpec

\* Type correctness of the sending side.
THEOREM TypeCorrect == LinkSpec => []TypeOK
BY IInvIsInvariant, PTL DEF IInv

\* A check mark is true: a repeater relayed an attempt of that message.
THEOREM CheckMarkIsTrue == LinkSpec => []ConfirmedWasRelayed
BY IInvIsInvariant, PTL DEF IInv

\* A cross means that every attempt was made, and is never next to a check mark.
THEOREM CrossIsFinal == LinkSpec => []FailedAfterAllSends
BY IInvIsInvariant, PTL DEF IInv

-----------------------------------------------------------------------------
(* The neighbour.                                                          *)

Texts == Receiver!Texts

\* The tables are the same wherever they are used.
LEMMA SameTables ==
  /\ \A s, e, max : /\ Receiver!Push(s, e, max) = Push(s, e, max)
                     /\ Direct!Push(s, e, max) = Push(s, e, max)
  /\ \A s : Direct!ToSet(s) = ToSet(s)
  /\ \A age, e, max : Direct!Newer(age, e, max) = Receiver!Newer(age, e, max)
BY DEF Push, Receiver!Push, Direct!Push, ToSet, Direct!ToSet, Receiver!Newer, Direct!Newer

\* The dictionary of shown texts and its order hold the same ones, each once, and
\* the history of the memory fits them.
NeighbourTables ==
  /\ recent \in [Texts -> Nat \cup {NoStamp}]
  /\ recentOrder \in Seq(Texts)
  /\ Len(recentOrder) <= MAX_RECENT
  /\ Direct!Unique(recentOrder)
  /\ ToSet(recentOrder) = {t \in Texts : recent[t] # NoStamp}
  /\ since \in [Texts -> 0..MAX_RECENT]
  /\ Direct!Ages(since, recentOrder, MAX_RECENT)

\* A message that was shown is remembered with the second of one of its attempts,
\* or its text was pushed out, or was shown again as another message's.
KeptOrForgotten ==
  \A m \in Msgs : shown[m] > 0 =>
    \/ m \in repeated
    \/ recent[Text[m]] = NoStamp
    \/ \E a \in Attempts : recent[Text[m]] = Stamp[m] + a

NeighbourInv == NeighbourTables /\ shown \in [Msgs -> Nat] /\ KeptOrForgotten

\* Another attempt of a message that was shown is close to what is remembered.
LEMMA AttemptsAreClose ==
  ASSUME NEW m \in Msgs, NEW a \in Attempts, NEW b \in Attempts,
         recent[Text[m]] = Stamp[m] + b
  PROVE  Receiver!IsResend(Packet(m, a))
<1>1. Stamp[m] \in Nat /\ CH_MAX_SENDS \in Nat \ {0} /\ NoStamp \notin Nat
  BY ChannelAssumption, NeighbourAssumption
<1>2. a \in 0..(CH_MAX_SENDS - 1) /\ b \in 0..(CH_MAX_SENDS - 1)
  BY DEF Attempts
<1>3. Stamp[m] + b \in Nat
  BY <1>1, <1>2
<1>4. recent[Text[m]] # NoStamp
  BY <1>1, <1>3
<1>5. Receiver!Distance(Stamp[m] + a, Stamp[m] + b) <= CH_MAX_SENDS
  BY <1>1, <1>2 DEF Receiver!Distance
<1> QED
  BY <1>4, <1>5 DEF Receiver!IsResend, Packet

\* Noting a text keeps the tables, and at most forgets another.
LEMMA NoteOK ==
  ASSUME NeighbourTables, NEW pkt, pkt.text \in Texts, pkt.stamp \in Nat, Receiver!NoteRecent(pkt)
  PROVE  /\ NeighbourTables'
         /\ recent'[pkt.text] \in {pkt.stamp, NoStamp}
         /\ \A x \in Texts : x # pkt.text => recent'[x] \in {recent[x], NoStamp}
<1> DEFINE t     == pkt.text
           noted == [recent EXCEPT ![t] = pkt.stamp]
<1>1. MAX_RECENT \in Nat \ {0} /\ pkt.stamp # NoStamp
  BY NeighbourAssumption
<1>2. noted \in [Texts -> Nat \cup {NoStamp}] /\ noted[t] = pkt.stamp
      /\ \A x \in Texts : x # t => noted[x] = recent[x]
  BY DEF NeighbourTables
<1>3. CASE recent[t] # NoStamp
  <2>1. recent' = noted /\ recentOrder' = recentOrder /\ since' = since
    BY <1>3 DEF Receiver!NoteRecent
  <2>2. {x \in Texts : noted[x] # NoStamp} = {x \in Texts : recent[x] # NoStamp}
    BY <1>1, <1>2, <1>3
  <2> HIDE DEF noted
  <2> QED
    BY <1>2, <2>1, <2>2 DEF NeighbourTables, Texts, Receiver!Texts
<1>4. CASE recent[t] = NoStamp
  <2> DEFINE pushed == Push(recentOrder, t, MAX_RECENT)
             aged   == Receiver!Newer(since, t, MAX_RECENT)
             gone   == Receiver!Evicted
  <2>1. /\ recent' = [x \in Texts |-> IF x \in gone THEN NoStamp ELSE noted[x]]
        /\ recentOrder' = pushed /\ since' = aged
    BY <1>4, SameTables DEF Receiver!NoteRecent, Texts
  <2>2. t \notin ToSet(recentOrder)
    BY <1>4 DEF NeighbourTables
  <2>3. /\ pushed \in Seq(Texts) /\ Len(pushed) <= MAX_RECENT
        /\ Direct!Unique(pushed) /\ ToSet(pushed) = (ToSet(recentOrder) \ gone) \cup {t}
    <3>1. recentOrder \in Seq(Texts) /\ Len(recentOrder) <= MAX_RECENT /\ t \in Texts
      BY DEF NeighbourTables
    <3>2. pushed \in Seq(Texts) /\ Len(pushed) <= MAX_RECENT
      BY <1>1, <3>1, SameTables, PathAssumption, Direct!PushFacts
    <3>3. t \notin Direct!ToSet(recentOrder)
      BY <2>2, SameTables
    <3>4. \A i, j \in 1..Len(recentOrder) : recentOrder[i] = recentOrder[j] => i = j
      BY DEF NeighbourTables, Direct!Unique
    <3>5. Direct!Unique(pushed)
      BY <1>1, <3>1, <3>3, <3>4, SameTables, PathAssumption, Direct!PushUnique DEF Direct!Unique
    <3>6. ToSet(pushed) = (ToSet(recentOrder) \ gone) \cup {t}
      BY <1>1, <3>1, <3>3, <3>4, SameTables, PathAssumption, Direct!PushUnique
      DEF Receiver!Evicted
    <3> QED
      BY <3>2, <3>5, <3>6
  <2>4. aged \in [Texts -> 0..MAX_RECENT] /\ Direct!Ages(aged, pushed, MAX_RECENT)
    <3>1. /\ recentOrder \in Seq(Texts) /\ Len(recentOrder) <= MAX_RECENT /\ t \in Texts
          /\ Direct!Unique(recentOrder) /\ since \in [Texts -> 0..MAX_RECENT]
          /\ Direct!Ages(since, recentOrder, MAX_RECENT)
          /\ t \notin Direct!ToSet(recentOrder)
      BY <2>2, SameTables DEF NeighbourTables
    <3>2. /\ Direct!Newer(since, t, MAX_RECENT) \in [Texts -> 0..MAX_RECENT]
          /\ Direct!Ages(Direct!Newer(since, t, MAX_RECENT), Direct!Push(recentOrder, t, MAX_RECENT),
                         MAX_RECENT)
      BY <1>1, <3>1, PathAssumption, Direct!NewerFacts
    <3> QED
      BY <3>2, SameTables
  <2>5. gone \subseteq ToSet(recentOrder)
    <3>1. CASE Len(recentOrder) < MAX_RECENT
      BY <3>1 DEF Receiver!Evicted
    <3>2. CASE ~(Len(recentOrder) < MAX_RECENT)
      <4>1. Head(recentOrder) = recentOrder[1] /\ 1 \in DOMAIN recentOrder
        BY <1>1, <3>2 DEF NeighbourTables
      <4> QED
        BY <3>2, <4>1 DEF Receiver!Evicted, ToSet
    <3> QED
      BY <3>1, <3>2
  <2> HIDE DEF pushed, aged, gone, noted
  <2>6. recent' \in [Texts -> Nat \cup {NoStamp}]
    BY <1>2, <2>1
  <2>7. \A x \in Texts : recent'[x] = IF x \in gone THEN NoStamp ELSE noted[x]
    BY <2>1
  <2>8. {x \in Texts : recent'[x] # NoStamp} = ToSet(pushed)
    <3>1. t \notin gone /\ ToSet(recentOrder) = {x \in Texts : recent[x] # NoStamp}
      BY <2>2, <2>5 DEF NeighbourTables
    <3>2. ASSUME NEW x \in Texts PROVE recent'[x] # NoStamp <=> x \in ToSet(pushed)
      <4>1. CASE x = t
        BY <1>1, <1>2, <2>3, <2>7, <3>1, <4>1
      <4>2. CASE x # t
        BY <1>2, <2>3, <2>7, <3>1, <4>2
      <4> QED
        BY <4>1, <4>2
    <3>3. ToSet(pushed) \subseteq Texts
      BY <2>3, <3>1
    <3> QED
      BY <3>2, <3>3
  <2>9. NeighbourTables'
    <3>1. recentOrder' \in Seq(Texts) /\ Len(recentOrder') <= MAX_RECENT
      BY <2>1, <2>3
    <3>2. Direct!Unique(recentOrder') /\ ToSet(recentOrder') = {x \in Texts : recent'[x] # NoStamp}
      BY <2>1, <2>3, <2>8
    <3>3. since' \in [Texts -> 0..MAX_RECENT] /\ Direct!Ages(since', recentOrder', MAX_RECENT)
      BY <2>1, <2>4
    <3> QED
      BY <2>6, <3>1, <3>2, <3>3
      DEF NeighbourTables, Texts, Receiver!Texts, Direct!Unique, Direct!Ages, Direct!ToSet
  <2>10. recent'[t] \in {pkt.stamp, NoStamp}
    BY <1>2, <2>7
  <2>11. \A x \in Texts : x # t => recent'[x] \in {recent[x], NoStamp}
    BY <1>2, <2>7
  <2> QED
    BY <2>9, <2>10, <2>11
<1> QED
  BY <1>3, <1>4

\* A copy that reaches the neighbour keeps what it knows of all messages.
LEMMA ReachOK ==
  ASSUME NeighbourInv, NEW m \in Msgs, NEW a \in Attempts, Reach(m, a)
  PROVE  NeighbourInv'
<1> DEFINE pkt == Packet(m, a)
<1>1. CASE Receiver!IsResend(pkt)
  BY <1>1
  DEF Reach, Receiver!Receive, NeighbourInv, NeighbourTables, KeptOrForgotten, Texts,
      Receiver!Texts, Direct!Unique, Direct!Ages, Direct!ToSet
<1>2. CASE ~Receiver!IsResend(pkt)
  <2>1. /\ Receiver!NoteRecent(pkt)
        /\ shown' = [shown EXCEPT ![m] = IF @ < MAX_SHOWN THEN @ + 1 ELSE @]
        /\ repeated' = (repeated \ {m}) \cup Receiver!SameText(m)
    BY <1>2 DEF Reach, Receiver!Receive, Receiver!Show
  <2>2. pkt.text = Text[m] /\ pkt.stamp = Stamp[m] + a /\ pkt.stamp \in Nat
    BY ChannelAssumption DEF Packet, Attempts
  <2>3. \A n \in Msgs : Text[n] \in Texts
    BY DEF Texts, Receiver!Texts
  <2> HIDE DEF pkt
  <2>4. /\ NeighbourTables' /\ recent'[Text[m]] \in {Stamp[m] + a, NoStamp}
        /\ \A x \in Texts : x # Text[m] => recent'[x] \in {recent[x], NoStamp}
    BY <2>1, <2>2, <2>3, NoteOK DEF NeighbourInv
  <2>5. shown' \in [Msgs -> Nat] /\ \A n \in Msgs : n # m => shown'[n] = shown[n]
    BY <2>1 DEF NeighbourInv
  <2>6. ASSUME NEW n \in Msgs, shown'[n] > 0
        PROVE  \/ n \in repeated'
               \/ recent'[Text[n]] = NoStamp
               \/ \E b \in Attempts : recent'[Text[n]] = Stamp[n] + b
    <3>1. CASE n = m
      BY <2>4, <3>1
    <3>2. CASE n \in Receiver!SameText(m)
      BY <2>1, <3>2
    <3>3. CASE n # m /\ n \notin Receiver!SameText(m)
      <4>1. Text[n] # Text[m]
        BY <3>3 DEF Receiver!SameText
      <4>2. recent'[Text[n]] \in {recent[Text[n]], NoStamp}
        BY <2>3, <2>4, <4>1
      <4>3. n \in repeated => n \in repeated'
        BY <2>1, <3>3
      <4>4. \/ n \in repeated \/ recent[Text[n]] = NoStamp
            \/ \E b \in Attempts : recent[Text[n]] = Stamp[n] + b
        BY <2>5, <2>6, <3>3 DEF NeighbourInv, KeptOrForgotten
      <4> QED
        BY <4>2, <4>3, <4>4
    <3> QED
      BY <3>1, <3>2, <3>3
  <2> QED
    BY <2>4, <2>5, <2>6 DEF NeighbourInv, KeptOrForgotten
<1> QED
  BY <1>1, <1>2

\* What somebody else says, too.
LEMMA HearsOK ==
  ASSUME NeighbourInv, NeighbourHears
  PROVE  NeighbourInv'
<1>1. PICK t \in Others : Receiver!HearOther(t)
  BY DEF NeighbourHears
<1>2. PICK pkt : pkt = [text |-> t, stamp |-> 0]
  OBVIOUS
<1>3. /\ shown' = shown /\ repeated' = repeated
      /\ \/ UNCHANGED <<recent, recentOrder, since>>
         \/ Receiver!NoteRecent(pkt)
  BY <1>1, <1>2 DEF Receiver!HearOther
<1>4. CASE UNCHANGED <<recent, recentOrder, since>>
  BY <1>3, <1>4
  DEF NeighbourInv, NeighbourTables, KeptOrForgotten, Texts, Receiver!Texts, Direct!Unique,
      Direct!Ages, Direct!ToSet
<1>5. CASE Receiver!NoteRecent(pkt)
  <2>1. pkt.text = t /\ pkt.stamp = 0 /\ t \in Texts
    BY <1>2 DEF Texts, Receiver!Texts
  <2>2. \A m \in Msgs : Text[m] \in Texts /\ Text[m] # t
    BY NeighbourAssumption DEF Texts, Receiver!Texts
  <2>3. NeighbourTables' /\ \A x \in Texts : x # t => recent'[x] \in {recent[x], NoStamp}
    BY <1>5, <2>1, NoteOK DEF NeighbourInv
  <2>4. \A m \in Msgs : recent'[Text[m]] \in {recent[Text[m]], NoStamp}
    BY <2>2, <2>3
  <2>5. KeptOrForgotten'
    BY <1>3, <2>4 DEF NeighbourInv, KeptOrForgotten
  <2> QED
    BY <1>3, <2>3, <2>5 DEF NeighbourInv
<1> QED
  BY <1>3, <1>4, <1>5

\* Nothing but what it hears changes what the neighbour knows.
LEMMA NeighbourStep == NeighbourInv /\ [LinkNext]_linkVars => NeighbourInv'
<1>1. ASSUME NeighbourInv, UNCHANGED receiverVars
      PROVE  NeighbourInv'
  BY <1>1
  DEF NeighbourInv, NeighbourTables, KeptOrForgotten, receiverVars, Texts, Receiver!Texts,
      Direct!Unique, Direct!Ages, Direct!ToSet
<1> QED
  BY <1>1, ReachOK, HearsOK
  DEF LinkNext, linkVars, SenderThread, SenderRetries, Radiate, Relay, Echo, OtherTraffic

\* A neighbour with empty tables.
LEMMA NeighbourInit == LinkInit => NeighbourInv
<1> SUFFICES ASSUME LinkInit PROVE NeighbourInv
  OBVIOUS
<1>1. /\ recent = [t \in Texts |-> NoStamp] /\ recentOrder = <<>>
      /\ shown = [m \in Msgs |-> 0] /\ since = [t \in Texts |-> MAX_RECENT]
  BY DEF LinkInit, Receiver!Init, Texts
<1>2. MAX_RECENT \in Nat \ {0}
  BY NeighbourAssumption
<1>3. ToSet(recentOrder) = {t \in Texts : recent[t] # NoStamp}
  BY <1>1 DEF ToSet
<1>4. Direct!Unique(recentOrder) /\ Direct!Ages(since, recentOrder, MAX_RECENT)
  BY <1>1 DEF Direct!Unique, Direct!Ages
<1> QED
  BY <1>1, <1>2, <1>3, <1>4 DEF NeighbourInv, NeighbourTables, KeptOrForgotten

\* The neighbour sees a message a second time only when its text was pushed out of
\* the memory or shown again as another message's, however its attempts and the
\* relayed copies of them arrive (_dup_message), for any messages, also those that
\* say the same, any traffic of others and any length of the memory.
THEOREM MessageIsShownAgainIfForgotten == LinkSpec => ShownAgainIfForgotten
<1> DEFINE Again == \A m \in Msgs :
                      shown[m] > 0 /\ shown'[m] > shown[m]
                      => m \in repeated \/ since[Text[m]] >= MAX_RECENT
<1>1. NeighbourInv /\ [LinkNext]_linkVars => [Again]_linkVars
  <2> SUFFICES ASSUME NeighbourInv, [LinkNext]_linkVars, NEW m \in Msgs, shown[m] > 0,
                      shown'[m] > shown[m], m \notin repeated
               PROVE  since[Text[m]] >= MAX_RECENT
    OBVIOUS
  <2>1. shown \in [Msgs -> Nat] /\ shown' # shown
    BY DEF NeighbourInv
  <2>2. PICK n \in Msgs, a \in Attempts : Reach(n, a)
    BY <2>1
    DEF LinkNext, linkVars, receiverVars, SenderThread, SenderRetries, Radiate, Relay, Echo,
        OtherTraffic, NeighbourHears, Receiver!HearOther
  <2>3. ~Receiver!IsResend(Packet(n, a)) /\ Receiver!Show(n)
    BY <2>1, <2>2 DEF Reach, Receiver!Receive
  <2>4. n = m
    BY <2>1, <2>3 DEF Receiver!Show
  <2>5. recent[Text[m]] = NoStamp
    BY <2>3, <2>4, AttemptsAreClose DEF NeighbourInv, KeptOrForgotten
  <2>6. Text[m] \in Texts
    BY DEF Texts, Receiver!Texts
  <2>7. Text[m] \notin Direct!ToSet(recentOrder) /\ Text[m] \in DOMAIN since
    BY <2>5, <2>6, SameTables DEF NeighbourInv, NeighbourTables
  <2>8. since[Text[m]] = MAX_RECENT
    BY <2>7 DEF NeighbourInv, NeighbourTables, Direct!Ages
  <2> QED
    BY <2>8, NeighbourAssumption
<1> QED
  BY <1>1, NeighbourInit, NeighbourStep, PTL DEF LinkSpec, ShownAgainIfForgotten
==============================================================================
