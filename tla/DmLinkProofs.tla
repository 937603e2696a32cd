---------------------------- MODULE DmLinkProofs ----------------------------
(***************************************************************************)
(* Theorems about the sending side of direct messages (DmSender) and about *)
(* their exchange as a whole (DmLink), for any number of messages,         *)
(* companions and routes and any length of the tables.                     *)
(*                                                                         *)
(* The first part is about Spec, the sender against any acknowledgements.  *)
(* Its inductive invariant IInv is the conjunction of the invariants the   *)
(* runs check with what they rest on: a record in _retries belongs to a    *)
(* message whose send thread is through, and only such a one is past its   *)
(* first attempt. ExpectInv adds, for every expected hash that is one      *)
(* message's alone, its place in the order: the hashes behind it entered   *)
(* after it.                                                               *)
(*                                                                         *)
(* The second is about LinkSpec: each recipient behaves as DmReceiver says *)
(* and the sender as DmSender says, whatever the mesh does; and the marks  *)
(* in the chat keep the promise of DmPromise.                              *)
(***************************************************************************)
EXTENDS DmLink, TLAPS

\* The theorems about the recipients.
Device == INSTANCE DmReceiverProofs

\* The recipients get the constants they ask for.
LEMMA DeviceAssumption == Device!ReceiverAssumption
BY RecipientAssumption DEF Receiver!ReceiverAssumption, Device!ReceiverAssumption

(* The tables of both sides are the same, and so is what is known of them. *)

LEMMA SameTables ==
  /\ \A s, h, max : Device!Remember(s, h, max) = Remember(s, h, max)
  /\ \A s : Device!ToSet(s) = ToSet(s)
BY DEF Device!Push, Push, Device!Remember, Remember, Device!ToSet, ToSet

LEMMA RememberFacts ==
  ASSUME NEW S, NEW s \in Seq(S), NEW h \in S, NEW max \in Nat \ {0},
         Len(s) <= max
  PROVE  /\ Remember(s, h, max) \in Seq(S)
         /\ Len(Remember(s, h, max)) <= max
         /\ h \in ToSet(Remember(s, h, max))
BY DeviceAssumption, PathAssumption, SameTables, Device!RememberFacts

\* The counts of a table that something enters.
LEMMA NewerFacts ==
  ASSUME NEW S, NEW age, NEW max \in Nat, age \in [S -> 0..max], NEW e \in S
  PROVE  /\ Newer(age, e, max) \in [S -> 0..max]
         /\ Newer(age, e, max)[e] = 0
         /\ \A x \in S \ {e} : /\ age[x] = max => Newer(age, e, max)[x] = max
                               /\ age[x] # max => Newer(age, e, max)[x] = age[x] + 1
BY DEF Newer

\* What is left of a sequence: its elements are as far from the end as they
\* were, or nearer.
Part(t, s) ==
  \A j \in 1..Len(t) : \E i \in 1..Len(s) : t[j] = s[i] /\ Len(t) - j <= Len(s) - i

LEMMA PartFacts ==
  ASSUME NEW S, NEW s \in Seq(S), NEW t \in Seq(S), Part(t, s)
  PROVE  ToSet(t) \subseteq ToSet(s)
<1> SUFFICES ASSUME NEW x \in ToSet(t) PROVE x \in ToSet(s)
  OBVIOUS
<1>1. PICK j \in 1..Len(t) : t[j] = x
  BY DEF ToSet
<1>2. PICK i \in 1..Len(s) : t[j] = s[i]
  BY DEF Part
<1> QED
  BY <1>1, <1>2 DEF ToSet

\* Dropping the first elements.
LEMMA DropFacts ==
  ASSUME NEW S, NEW s \in Seq(S), NEW k \in 0..Len(s)
  PROVE  /\ SubSeq(s, k + 1, Len(s)) \in Seq(S)
         /\ Len(SubSeq(s, k + 1, Len(s))) = Len(s) - k
         /\ Part(SubSeq(s, k + 1, Len(s)), s)
         /\ \A i \in 1..k : s[i] \in ToSet(SubSeq(s, 1, k))
         /\ \A x \in ToSet(SubSeq(s, 1, k)) : \E i \in 1..k : x = s[i]
         /\ \A i \in (k + 1)..Len(s) : s[i] \in ToSet(SubSeq(s, k + 1, Len(s)))
<1> DEFINE t == SubSeq(s, k + 1, Len(s))
           gone == SubSeq(s, 1, k)
<1>1. /\ t \in Seq(S) /\ Len(t) = Len(s) - k
      /\ \A j \in 1..(Len(s) - k) : t[j] = s[j + k]
  OBVIOUS
<1>2. /\ gone \in Seq(S) /\ Len(gone) = k
      /\ \A j \in 1..k : gone[j] = s[j]
  OBVIOUS
<1> HIDE DEF t, gone
<1>3. Part(t, s)
  <2> SUFFICES ASSUME NEW j \in 1..Len(t)
               PROVE  \E i \in 1..Len(s) : t[j] = s[i] /\ Len(t) - j <= Len(s) - i
    BY DEF Part
  <2>1. j + k \in 1..Len(s) /\ t[j] = s[j + k] /\ Len(t) - j <= Len(s) - (j + k)
    BY <1>1
  <2> QED
    BY <2>1
<1>4. ASSUME NEW i \in (k + 1)..Len(s) PROVE s[i] \in ToSet(t)
  <2>1. i - k \in 1..Len(t) /\ t[i - k] = s[i]
    BY <1>1
  <2> QED
    BY <1>1, <2>1 DEF ToSet
<1>5. \A i \in 1..k : s[i] \in ToSet(gone)
  BY <1>2 DEF ToSet
<1>6. \A x \in ToSet(gone) : \E i \in 1..k : x = s[i]
  BY <1>2 DEF ToSet
<1> QED
  BY <1>1, <1>3, <1>4, <1>5, <1>6 DEF t, gone

\* Dropping the first.
LEMMA TailFacts ==
  ASSUME NEW S, NEW s \in Seq(S), s # <<>>
  PROVE  /\ Tail(s) \in Seq(S) /\ Len(Tail(s)) = Len(s) - 1 /\ Head(s) = s[1]
         /\ Head(s) \in S /\ 1 \in 1..Len(s)
         /\ Part(Tail(s), s)
         /\ \A x \in ToSet(s) : x = Head(s) \/ x \in ToSet(Tail(s))
<1>1. /\ Tail(s) \in Seq(S) /\ Len(Tail(s)) = Len(s) - 1 /\ Len(s) \in Nat \ {0}
      /\ \A j \in 1..(Len(s) - 1) : Tail(s)[j] = s[j + 1]
      /\ Head(s) = s[1] /\ Head(s) \in S
  OBVIOUS
<1>2. Part(Tail(s), s)
  <2> SUFFICES ASSUME NEW j \in 1..Len(Tail(s))
               PROVE  \E i \in 1..Len(s) :
                        Tail(s)[j] = s[i] /\ Len(Tail(s)) - j <= Len(s) - i
    BY DEF Part
  <2>1. j + 1 \in 1..Len(s) /\ Tail(s)[j] = s[j + 1] /\ Len(Tail(s)) - j <= Len(s) - (j + 1)
    BY <1>1
  <2> QED
    BY <2>1
<1>3. ASSUME NEW x \in ToSet(s), x # Head(s) PROVE x \in ToSet(Tail(s))
  <2>1. PICK i \in 1..Len(s) : s[i] = x
    BY DEF ToSet
  <2>2. i - 1 \in 1..Len(Tail(s)) /\ Tail(s)[i - 1] = x
    BY <1>1, <1>3, <2>1
  <2>3. DOMAIN Tail(s) = 1..Len(Tail(s))
    BY <1>1
  <2> QED
    BY <2>2, <2>3 DEF ToSet
<1> QED
  BY <1>1, <1>2, <1>3

\* Appending one.
LEMMA AppendFacts ==
  ASSUME NEW S, NEW s \in Seq(S), NEW e \in S
  PROVE  /\ Append(s, e) \in Seq(S) /\ Len(Append(s, e)) = Len(s) + 1
         /\ Append(s, e)[Len(s) + 1] = e
         /\ \A i \in 1..Len(s) : Append(s, e)[i] = s[i]
         /\ \A x : x \in ToSet(Append(s, e)) <=> x \in ToSet(s) \/ x = e
<1>1. /\ Append(s, e) \in Seq(S) /\ Len(Append(s, e)) = Len(s) + 1
      /\ Append(s, e)[Len(s) + 1] = e
      /\ \A i \in 1..Len(s) : Append(s, e)[i] = s[i]
      /\ DOMAIN Append(s, e) = 1..(Len(s) + 1) /\ DOMAIN s = 1..Len(s) /\ Len(s) \in Nat
  OBVIOUS
<1>2. \A i : i \in 1..(Len(s) + 1) <=> i \in 1..Len(s) \/ i = Len(s) + 1
  BY <1>1
<1>3. ASSUME NEW x PROVE x \in ToSet(Append(s, e)) <=> x \in ToSet(s) \/ x = e
  <2>1. x \in ToSet(Append(s, e)) <=> \E i \in 1..(Len(s) + 1) : Append(s, e)[i] = x
    BY <1>1 DEF ToSet
  <2>2. x \in ToSet(s) <=> \E i \in 1..Len(s) : s[i] = x
    BY <1>1 DEF ToSet
  <2> QED
    BY <1>1, <1>2, <2>1, <2>2
<1> QED
  BY <1>1, <1>3

\* The elements of a concatenation.
LEMMA ConcatFacts ==
  ASSUME NEW S, NEW a \in Seq(S), NEW b \in Seq(S)
  PROVE  /\ a \o b \in Seq(S)
         /\ Len(a \o b) = Len(a) + Len(b)
         /\ \A j \in 1..Len(a) : (a \o b)[j] = a[j]
         /\ \A j \in (Len(a) + 1)..(Len(a) + Len(b)) : (a \o b)[j] = b[j - Len(a)]
OBVIOUS

\* Removing a position closes the gap.
LEMMA RemoveAtFacts ==
  ASSUME NEW S, NEW s \in Seq(S), NEW i \in 1..Len(s)
  PROVE  /\ RemoveAt(s, i) \in Seq(S) /\ Len(RemoveAt(s, i)) = Len(s) - 1
         /\ \A j \in 1..(i - 1) : RemoveAt(s, i)[j] = s[j]
         /\ \A j \in i..(Len(s) - 1) : RemoveAt(s, i)[j] = s[j + 1]
<1> DEFINE t == RemoveAt(s, i)
           a == SubSeq(s, 1, i - 1)
           b == SubSeq(s, i + 1, Len(s))
<1>1. /\ a \in Seq(S) /\ Len(a) = i - 1
      /\ \A j \in 1..(i - 1) : a[j] = s[j]
  OBVIOUS
<1>2. /\ b \in Seq(S) /\ Len(b) = Len(s) - i
      /\ \A j \in 1..(Len(s) - i) : b[j] = s[i + j]
  OBVIOUS
<1>3. t = a \o b
  BY DEF RemoveAt
<1> HIDE DEF t, a, b
<1>4. /\ t \in Seq(S) /\ Len(t) = Len(a) + Len(b)
      /\ \A j \in 1..Len(a) : t[j] = a[j]
      /\ \A j \in (Len(a) + 1)..(Len(a) + Len(b)) : t[j] = b[j - Len(a)]
  <2>1. a \in Seq(S) /\ b \in Seq(S)
    BY <1>1, <1>2
  <2> QED
    BY <1>3, <2>1, ConcatFacts, ZenonT(30)
<1>5. ASSUME NEW j \in i..(Len(s) - 1)
      PROVE  t[j] = s[j + 1]
  <2> DEFINE k == j - (i - 1)
  <2>1. k \in 1..(Len(s) - i) /\ i + k = j + 1
    OBVIOUS
  <2>2. b[k] = s[j + 1]
    BY ONLY <1>2, <2>1
  <2>3. j \in (Len(a) + 1)..(Len(a) + Len(b)) /\ j - Len(a) = k
    BY <1>1, <1>2
  <2> HIDE DEF k
  <2>4. t[j] = b[k]
    BY ONLY <1>4, <2>3
  <2> QED
    BY ONLY <2>2, <2>4
<1>6. \A j \in 1..(i - 1) : t[j] = s[j]
  BY <1>1, <1>4
<1>7. t \in Seq(S) /\ Len(t) = Len(s) - 1
  BY <1>1, <1>2, <1>4
<1> QED
  BY <1>5, <1>6, <1>7 DEF t

\* Removing the first e leaves a part of a sequence that has lost nothing but e.
LEMMA WithoutFirstFacts ==
  ASSUME NEW S, NEW s \in Seq(S), NEW e, NEW t \in WithoutFirst(s, e)
  PROVE  /\ t \in Seq(S)
         /\ Len(t) <= Len(s)
         /\ Part(t, s)
         /\ \A x \in ToSet(s) : x # e => x \in ToSet(t)
<1>1. CASE e \notin ToSet(s)
  <2>1. t = s /\ Len(s) \in Nat
    BY <1>1 DEF WithoutFirst
  <2>2. Part(s, s)
    <3>1. \A j \in 1..Len(s) : s[j] = s[j] /\ Len(s) - j <= Len(s) - j
      BY <2>1
    <3> QED
      BY <3>1 DEF Part
  <2> QED
    BY <2>1, <2>2
<1>2. CASE e \in ToSet(s)
  <2>1. PICK i \in 1..Len(s) : s[i] = e /\ t = RemoveAt(s, i)
    BY <1>2 DEF WithoutFirst, FirstPositions
  <2>2. /\ t \in Seq(S) /\ Len(t) = Len(s) - 1
        /\ \A j \in 1..(i - 1) : t[j] = s[j]
        /\ \A j \in i..(Len(s) - 1) : t[j] = s[j + 1]
    BY ONLY s \in Seq(S), i \in 1..Len(s), <2>1, RemoveAtFacts, ZenonT(30)
  <2>3. ASSUME NEW x \in ToSet(s), x # e
        PROVE  x \in ToSet(t)
    <3>1. PICK j \in 1..Len(s) : s[j] = x
      BY DEF ToSet
    <3>2. CASE j < i
      BY <2>2, <3>1, <3>2 DEF ToSet
    <3>3. CASE j > i
      <4>1. j - 1 \in i..(Len(s) - 1) /\ t[j - 1] = x
        BY <2>2, <3>1, <3>3
      <4> QED
        BY <2>2, <4>1 DEF ToSet
    <3> QED
      BY <2>1, <2>3, <3>1, <3>2, <3>3
  <2>4. Part(t, s)
    <3> SUFFICES ASSUME NEW j \in 1..Len(t)
                 PROVE  \E k \in 1..Len(s) : t[j] = s[k] /\ Len(t) - j <= Len(s) - k
      BY DEF Part
    <3>1. CASE j < i
      <4>1. j \in 1..Len(s) /\ t[j] = s[j] /\ Len(t) - j <= Len(s) - j
        BY <2>2, <3>1
      <4> QED
        BY <4>1
    <3>2. CASE j >= i
      <4>1. j + 1 \in 1..Len(s) /\ t[j] = s[j + 1] /\ Len(t) - j <= Len(s) - (j + 1)
        BY <2>2, <3>2
      <4> QED
        BY <4>1
    <3> QED
      BY <3>1, <3>2
  <2> QED
    BY <2>2, <2>3, <2>4
<1> QED
  BY <1>1, <1>2

-----------------------------------------------------------------------------
(* The sender.                                                             *)

ArmedIsSent == \A m \in retries : pc[m] = "sent"

\* The worker alone makes further attempts, of what the send thread handed over.
FirstUntilSent == \A m \in Msgs : pc[m] # "sent" => attempt[m] = 0

\* _seen keeps within its bound.
SeenBounded == Len(seen) <= MAX_SEEN

IInv ==
  /\ TypeOK
  /\ SeenBounded
  /\ PendingTracked
  /\ PendingWasSent
  /\ FailedAfterAllSends
  /\ ArmedIsSent
  /\ FirstUntilSent

-----------------------------------------------------------------------------
\* The hashes and packets an attempt is made of.
LEMMA AttemptFacts ==
  ASSUME NEW m \in Msgs, NEW a \in Attempts
  PROVE  Ack(m, a) \in AckHashes /\ TxtHash(m, a) \in PacketHashes
BY DEF AckHashes, PacketHashes

\* The first attempt, and its hash.
LEMMA FirstAttempt ==
  ASSUME NEW m \in Msgs
  PROVE  /\ 0 \in Attempts /\ Ack(m, 0) \in AckHashes /\ TxtHash(m, 0) \in PacketHashes
         /\ attempt[m] \in Attempts => Ack(m, 0) \in AcksOf(m)
         /\ attempt[m] = 0 => \A h \in AcksOf(m) : h = Ack(m, 0)
<1>1. 0 \in Attempts
  BY SenderAssumption DEF Attempts
<1>2. attempt[m] \in Attempts => 0 \in 0..attempt[m]
  BY SenderAssumption DEF Attempts
<1>3. attempt[m] = 0 => \A a \in 0..attempt[m] : a = 0
  OBVIOUS
<1> QED
  BY <1>1, <1>2, <1>3, AttemptFacts DEF AcksOf

\* A route that is looked up, learned or forgotten is a path.
LEMMA RouteFacts ==
  ASSUME NEW entry \in ContactEntries
  PROVE  RouteFor(entry) \in Paths /\ ResetPath(entry) \in ContactEntries
BY DEF ContactEntries, Paths, RouteFor, ResetPath, HasRoute

\* How far an order is beyond its cap.
LEMMA ExcessFacts ==
  ASSUME NEW S, NEW s \in Seq(S)
  PROVE  /\ Excess(s) \in Nat /\ Excess(s) <= Len(s)
         /\ Excess(s) > 0 <=> Len(s) > MAX_PENDING
         /\ Excess(s) > 0 => Excess(s) = Len(s) - MAX_PENDING
BY SenderAssumption DEF Excess

\* Building an attempt.
LEMMA EncodeFacts ==
  ASSUME TypeOK, SeenBounded,
         NEW m \in Msgs, NEW a \in Attempts, NEW entry \in ContactEntries, Encode(m, a, entry)
  PROVE  /\ attempt' = [attempt EXCEPT ![m] = a]
         /\ attempt' \in [Msgs -> Attempts]
         /\ route' \in [Msgs -> Paths]
         /\ seen' \in Seq(PacketHashes)
         /\ SeenBounded'
<1>1. TxtHash(m, a) \in PacketHashes /\ RouteFor(entry) \in Paths
  BY AttemptFacts, RouteFacts
<1>2. seen' \in Seq(PacketHashes) /\ SeenBounded'
  BY <1>1, RememberFacts, SenderAssumption DEF Encode, TypeOK, SeenBounded
<1> QED
  BY <1>1, <1>2 DEF Encode, TypeOK

\* Queueing it.
LEMMA EnqueueFacts ==
  ASSUME TypeOK, NEW m \in Msgs, NEW a \in Attempts, NEW way \in Paths, Enqueue(m, a, way)
  PROVE  txQueue' \in Seq(TxtPackets)
<1>1. [msg |-> m, attempt |-> a, route |-> way] \in TxtPackets
  BY DEF TxtPackets
<1> QED
  BY <1>1 DEF Enqueue, TypeOK

\* Registering an attempt on the worker: what is in the tables and what is not.
LEMMA RegisterFacts ==
  ASSUME TypeOK, NEW m \in Msgs, NEW h \in AckHashes, RegisterPending(h, m)
  PROVE  /\ pendingAcks' \in [AckHashes -> Msgs \cup {NoMsg}]
         /\ pendingOrder' \in Seq(AckHashes)
         /\ Excess(pendingOrder') = 0
         /\ \A x \in AckHashes : \/ pendingAcks'[x] = NoMsg
                                 \/ x = h /\ pendingAcks'[x] = m /\ x \in ToSet(pendingOrder')
                                 \/ /\ x # h /\ pendingAcks'[x] = pendingAcks[x]
                                    /\ x \in ToSet(pendingOrder) => x \in ToSet(pendingOrder')
<1> DEFINE order == Append(pendingOrder, h)
           k     == Excess(order)
           gone  == SubSeq(order, 1, k)
<1>1. /\ pendingOrder \in Seq(AckHashes) /\ pendingAcks \in [AckHashes -> Msgs \cup {NoMsg}]
      /\ MAX_PENDING \in Nat \ {0}
  BY SenderAssumption DEF TypeOK
<1>2. /\ order \in Seq(AckHashes) /\ Len(order) = Len(pendingOrder) + 1
      /\ \A x : x \in ToSet(order) <=> x \in ToSet(pendingOrder) \/ x = h
  BY <1>1, AppendFacts
<1>3. /\ pendingOrder' = SubSeq(order, k + 1, Len(order))
      /\ pendingAcks' = WithoutAcks([pendingAcks EXCEPT ![h] = m], ToSet(gone))
  BY DEF RegisterPending
<1> HIDE DEF order
<1>4. k \in 0..Len(order) /\ (k > 0 <=> Len(order) > MAX_PENDING)
      /\ (k > 0 => k = Len(order) - MAX_PENDING)
  BY <1>2, ExcessFacts
<1> HIDE DEF k
<1>5. /\ pendingOrder' \in Seq(AckHashes) /\ Len(pendingOrder') = Len(order) - k
      /\ \A i \in 1..k : order[i] \in ToSet(gone)
      /\ \A i \in (k + 1)..Len(order) : order[i] \in ToSet(pendingOrder')
  BY <1>2, <1>3, <1>4, DropFacts
<1> HIDE DEF gone
<1>6. Excess(pendingOrder') = 0
  <2>1. Len(pendingOrder') <= MAX_PENDING
    BY <1>1, <1>2, <1>4, <1>5
  <2> QED
    BY <1>1, <1>5, <2>1 DEF Excess
<1>7. ASSUME NEW x \in ToSet(order), x \notin ToSet(gone) PROVE x \in ToSet(pendingOrder')
  <2>1. PICK i \in 1..Len(order) : order[i] = x
    BY DEF ToSet
  <2>2. i \in (k + 1)..Len(order)
    BY <1>2, <1>4, <1>5, <1>7, <2>1
  <2> QED
    BY <1>5, <2>1, <2>2
<1>8. ASSUME NEW x \in AckHashes
      PROVE  /\ x \in ToSet(gone) => pendingAcks'[x] = NoMsg
             /\ x \notin ToSet(gone) => pendingAcks'[x] = IF x = h THEN m ELSE pendingAcks[x]
  BY <1>1, <1>3 DEF WithoutAcks
<1>9. pendingAcks' \in [AckHashes -> Msgs \cup {NoMsg}]
  BY <1>1, <1>3 DEF WithoutAcks
<1> QED
  BY <1>2, <1>5, <1>6, <1>7, <1>8, <1>9

\* What _tx_dm on the worker does to the variables it changes.
LEMMA TxDmFacts ==
  ASSUME TypeOK, SeenBounded, PendingTracked,
         NEW m \in Msgs, NEW a \in Attempts, NEW entry \in ContactEntries,
         TxDm(m, a, entry), UNCHANGED pc
  PROVE  /\ attempt' = [attempt EXCEPT ![m] = a]
         /\ attempt' \in [Msgs -> Attempts] /\ route' \in [Msgs -> Paths]
         /\ seen' \in Seq(PacketHashes) /\ SeenBounded'
         /\ pendingAcks' \in [AckHashes -> Msgs \cup {NoMsg}]
         /\ \A h \in AckHashes : pendingAcks'[h] \in {pendingAcks[h], NoMsg}
                                   \/ (h = Ack(m, a) /\ pendingAcks'[h] = m)
         /\ pendingOrder' \in Seq(AckHashes)
         /\ later' \in [AckHashes -> Counts] /\ hasty' \subseteq AckHashes
         /\ PendingTracked'
         /\ txQueue' \in Seq(TxtPackets)
<1>1. Ack(m, a) \in AckHashes /\ RouteFor(entry) \in Paths
  BY AttemptFacts, RouteFacts
<1>2. /\ attempt' = [attempt EXCEPT ![m] = a]
      /\ attempt' \in [Msgs -> Attempts] /\ route' \in [Msgs -> Paths]
      /\ seen' \in Seq(PacketHashes) /\ SeenBounded'
  BY EncodeFacts DEF TxDm
<1>3. txQueue' \in Seq(TxtPackets)
  BY <1>1, EnqueueFacts DEF TxDm
<1>4. later' \in [AckHashes -> Counts] /\ hasty' \subseteq AckHashes
  <2>1. later' = Newer(later, Ack(m, a), MAX_PENDING) /\ hasty' = hasty
    BY DEF TxDm, RegisterPending
  <2> QED
    BY <1>1, <2>1, NewerFacts, SenderAssumption DEF TypeOK, Counts
<1>5. RegisterPending(Ack(m, a), m)
  BY DEF TxDm
<1> DEFINE h == Ack(m, a)
<1> HIDE DEF h
<1>6. /\ pendingAcks' \in [AckHashes -> Msgs \cup {NoMsg}]
      /\ pendingOrder' \in Seq(AckHashes)
      /\ Excess(pendingOrder') = 0
      /\ \A x \in AckHashes : \/ pendingAcks'[x] = NoMsg
                              \/ x = h /\ pendingAcks'[x] = m /\ x \in ToSet(pendingOrder')
                              \/ /\ x # h /\ pendingAcks'[x] = pendingAcks[x]
                                 /\ x \in ToSet(pendingOrder) => x \in ToSet(pendingOrder')
  BY <1>1, <1>5, RegisterFacts DEF h
<1>7. PendingTracked'
  <2>1. ASSUME NEW x \in AckHashes, pendingAcks'[x] # NoMsg
        PROVE  x \in ToSet(pendingOrder') \/ pc'[pendingAcks'[x]] = "append"
    <3>1. CASE x # h
      <4>1. x \in ToSet(pendingOrder) \/ pc[pendingAcks[x]] = "append"
        BY <1>6, <2>1, <3>1 DEF PendingTracked
      <4> QED
        BY <1>6, <2>1, <3>1, <4>1
    <3>2. CASE x = h
      BY <1>6, <2>1, <3>2
    <3> QED
      BY <3>1, <3>2
  <2>2. ~(Excess(pendingOrder') > 0)
    BY <1>6
  <2> QED
    BY <2>1, <2>2 DEF PendingTracked
<1> QED
  BY <1>2, <1>3, <1>4, <1>6, <1>7 DEF h

\* What handling an acknowledgement does to the variables it changes.
LEMMA AcknowledgeFacts ==
  ASSUME TypeOK, PendingTracked, NEW h, Acknowledge(h), UNCHANGED pc
  PROVE  /\ delivered' \subseteq Msgs
         /\ retries' \subseteq retries
         /\ pendingAcks' \in [AckHashes -> Msgs \cup {NoMsg}]
         /\ \A x \in AckHashes : pendingAcks'[x] \in {pendingAcks[x], NoMsg}
         /\ pendingOrder' \in Seq(AckHashes) /\ Part(pendingOrder', pendingOrder)
         /\ UNCHANGED <<later, hasty>>
         /\ PendingTracked'
<1>0. pendingOrder \in Seq(AckHashes)
  BY DEF TypeOK
<1>1. CASE h \in AckHashes /\ pendingAcks[h] # NoMsg
  <2>1. /\ delivered' = delivered \cup {pendingAcks[h]}
        /\ retries' = retries \ {pendingAcks[h]}
        /\ pendingOrder' \in WithoutFirst(pendingOrder, h)
        /\ UNCHANGED <<later, hasty>>
    BY <1>1 DEF Acknowledge, MarkDelivered
  <2>2. PICK cancelled : pendingAcks' = [x \in AckHashes |->
            IF x = h \/ x \in cancelled THEN NoMsg ELSE pendingAcks[x]]
    BY <1>1 DEF Acknowledge, MarkDelivered, WithoutAcks
  <2>3. pendingAcks[h] \in Msgs
    BY <1>1 DEF TypeOK
  <2>4. /\ pendingOrder' \in Seq(AckHashes)
        /\ Len(pendingOrder') <= Len(pendingOrder)
        /\ Part(pendingOrder', pendingOrder)
        /\ \A x \in ToSet(pendingOrder) : x # h => x \in ToSet(pendingOrder')
    BY <1>0, <2>1, WithoutFirstFacts
  <2>5. PendingTracked'
    <3>1. Excess(pendingOrder') > 0 => Excess(pendingOrder) > 0
      BY <1>0, <2>4, SenderAssumption DEF Excess
    <3>2. \A x \in AckHashes : pendingAcks'[x] # NoMsg =>
             \/ x \in ToSet(pendingOrder')
             \/ pc'[pendingAcks'[x]] = "append"
      BY <2>2, <2>4 DEF PendingTracked
    <3> QED
      BY <3>1, <3>2 DEF PendingTracked
  <2> QED
    BY <2>1, <2>2, <2>3, <2>4, <2>5 DEF TypeOK
<1>2. CASE ~(h \in AckHashes /\ pendingAcks[h] # NoMsg)
  <2>1. UNCHANGED <<delivered, retries, pendingAcks, pendingOrder, later, hasty>>
    BY <1>2 DEF Acknowledge, ackVars, orderVars
  <2>2. Part(pendingOrder, pendingOrder)
    <3>1. \A j \in 1..Len(pendingOrder) :
            pendingOrder[j] = pendingOrder[j] /\ Len(pendingOrder) - j <= Len(pendingOrder) - j
      BY <1>0
    <3> QED
      BY <3>1 DEF Part
  <2> QED
    BY <2>1, <2>2 DEF TypeOK, PendingTracked
<1> QED
  BY <1>1, <1>2

\* Sending an attempt that is not older than the last one keeps the expected
\* hashes those of attempts that were built.
LEMMA AttemptKeepsPendingWasSent ==
  ASSUME IInv, NEW m \in Msgs, NEW a \in Attempts,
         attempt' = [attempt EXCEPT ![m] = a],
         \A h \in AckHashes : pendingAcks'[h] \in {pendingAcks[h], NoMsg}
                                \/ (h = Ack(m, a) /\ pendingAcks'[h] = m),
         a >= attempt[m] \/ pc[m] = "tx",
         pc'[m] \notin {"idle", "tx", "refused"},
         \A n \in Msgs \ {m} : pc'[n] = pc[n]
  PROVE  PendingWasSent'
<1>1. TypeOK /\ PendingWasSent
  BY DEF IInv
<1>2. attempt \in [Msgs -> Attempts]
  BY <1>1 DEF TypeOK
<1>3. a \in 0..a /\ attempt[m] \in Nat /\ a \in Nat
  BY <1>2, SenderAssumption DEF Attempts
<1>4. AcksOf(m)' = {Ack(m, b) : b \in 0..a}
  BY <1>2 DEF AcksOf, Ack
<1>5. \A n \in Msgs \ {m} : AcksOf(n)' = AcksOf(n)
  BY <1>2 DEF AcksOf, Ack
<1>6. ASSUME a >= attempt[m]
      PROVE  AcksOf(m) \subseteq AcksOf(m)'
  <2>1. 0..attempt[m] \subseteq 0..a
    BY <1>3, <1>6
  <2> QED
    BY <1>4, <2>1 DEF AcksOf
<1>7. ASSUME NEW h \in AckHashes, pendingAcks'[h] # NoMsg
      PROVE  /\ pc'[pendingAcks'[h]] \notin {"idle", "tx", "refused"}
             /\ \E n \in Msgs : n = pendingAcks'[h] /\ h \in AcksOf(n)'
  <2>1. CASE h = Ack(m, a) /\ pendingAcks'[h] = m
    BY <1>3, <1>4, <2>1
  <2>2. CASE pendingAcks'[h] = pendingAcks[h]
    <3>1. PICK n \in Msgs : n = pendingAcks[h]
      BY <1>1, <1>7, <2>2 DEF TypeOK
    <3>2. pc[n] \notin {"idle", "tx", "refused"} /\ h \in AcksOf(n)
      BY <1>1, <1>7, <2>2, <3>1 DEF PendingWasSent
    <3>3. CASE n = m
      BY <1>6, <2>2, <3>1, <3>2, <3>3
    <3>4. CASE n # m
      BY <1>5, <2>2, <3>1, <3>2, <3>4
    <3> QED
      BY <3>3, <3>4
  <2> QED
    BY <1>7, <2>1, <2>2
<1> QED
  BY <1>7 DEF PendingWasSent

-----------------------------------------------------------------------------
LEMMA InitIInv == Init => IInv
<1> SUFFICES ASSUME Init PROVE IInv
  OBVIOUS
<1>1. TypeOK
  <2>1. 0 \in Attempts /\ MAX_PENDING \in Counts /\ NoPath \in Paths
    BY SenderAssumption DEF Attempts, Counts, Paths
  <2> QED
    BY <2>1 DEF Init, TypeOK, Pcs, ContactEntries, Paths
<1>2. SeenBounded
  BY SenderAssumption DEF Init, SeenBounded
<1>3. PendingTracked
  BY SenderAssumption DEF Init, PendingTracked, Excess
<1>4. PendingWasSent
  BY DEF Init, PendingWasSent
<1> QED
  BY <1>1, <1>2, <1>3, <1>4 DEF Init, IInv, FailedAfterAllSends, ArmedIsSent, FirstUntilSent

\* The invariants about messages survive a step that only forgets
\* acknowledgements and records, and leaves send threads and attempts alone.
LEMMA ForgettingStep ==
  ASSUME IInv, TypeOK',
         UNCHANGED <<pc, attempt, failed>>,
         retries' \subseteq retries,
         \A h \in AckHashes : pendingAcks'[h] \in {pendingAcks[h], NoMsg}
  PROVE  PendingWasSent' /\ FailedAfterAllSends' /\ ArmedIsSent' /\ FirstUntilSent'
<1>1. \A m \in Msgs : AcksOf(m)' = AcksOf(m)
  BY DEF AcksOf, Ack
<1>2. PendingWasSent'
  <2> SUFFICES ASSUME NEW h \in AckHashes, pendingAcks'[h] # NoMsg
               PROVE  /\ pc'[pendingAcks'[h]] \notin {"idle", "tx", "refused"}
                      /\ h \in AcksOf(pendingAcks[h])'
                      /\ pendingAcks'[h] = pendingAcks[h]
    BY DEF PendingWasSent
  <2>1. pendingAcks'[h] = pendingAcks[h] /\ pendingAcks[h] \in Msgs
    BY DEF IInv, TypeOK
  <2> QED
    BY <1>1, <2>1 DEF IInv, PendingWasSent
<1>3. FailedAfterAllSends' /\ ArmedIsSent' /\ FirstUntilSent'
  BY DEF IInv, FailedAfterAllSends, ArmedIsSent, FirstUntilSent
<1> QED
  BY <1>2, <1>3

\* A send thread goes on, and changes neither table nor attempt.
LEMMA ThreadStep ==
  ASSUME IInv, TypeOK', NEW m \in Msgs, NEW to,
         pc' = [pc EXCEPT ![m] = to],
         UNCHANGED <<attempt, failed, pendingAcks, pendingOrder, seen>>,
         pc[m] \notin {"append", "cut", "sent"},
         to \in {"idle", "tx", "refused"} => pc[m] = "idle",
         retries' \subseteq retries \cup (IF to = "sent" THEN {m} ELSE {})
  PROVE  IInv'
<1>0. /\ TypeOK /\ SeenBounded /\ PendingTracked /\ PendingWasSent
      /\ FailedAfterAllSends /\ ArmedIsSent /\ FirstUntilSent
      /\ pc \in [Msgs -> Pcs] /\ pendingAcks \in [AckHashes -> Msgs \cup {NoMsg}]
  BY DEF IInv, TypeOK
<1>1. pc'[m] = to /\ \A n \in Msgs \ {m} : pc'[n] = pc[n]
  BY <1>0
<1>2. SeenBounded'
  BY <1>0 DEF SeenBounded
<1>3. PendingTracked'
  BY <1>0, <1>1 DEF PendingTracked, Excess
<1>4. PendingWasSent'
  <2>1. \A n \in Msgs : AcksOf(n)' = AcksOf(n)
    BY DEF AcksOf, Ack
  <2> SUFFICES ASSUME NEW h \in AckHashes, pendingAcks[h] # NoMsg
               PROVE  /\ pc'[pendingAcks[h]] \notin {"idle", "tx", "refused"}
                      /\ h \in AcksOf(pendingAcks[h])'
    BY DEF PendingWasSent
  <2>2. /\ pendingAcks[h] \in Msgs
        /\ pc[pendingAcks[h]] \notin {"idle", "tx", "refused"}
        /\ h \in AcksOf(pendingAcks[h])
    BY <1>0 DEF PendingWasSent
  <2> QED
    BY <1>1, <2>1, <2>2
<1>5. FailedAfterAllSends' /\ ArmedIsSent' /\ FirstUntilSent'
  BY <1>0, <1>1 DEF FailedAfterAllSends, ArmedIsSent, FirstUntilSent
<1> QED
  BY <1>2, <1>3, <1>4, <1>5 DEF IInv

\* Every step keeps IInv.
THEOREM NextIInv == IInv /\ [Next]_vars => IInv'
<1> SUFFICES ASSUME IInv, [Next]_vars PROVE IInv'
  OBVIOUS
<1> USE DEF threadVars, msgVars, orderVars, ackVars
<1>0. /\ TypeOK /\ SeenBounded /\ PendingTracked /\ PendingWasSent
      /\ FailedAfterAllSends /\ ArmedIsSent /\ FirstUntilSent
  BY DEF IInv
<1>1. ASSUME NEW m \in Msgs, SendDm(m) PROVE IInv'
  <2>1. TypeOK'
    BY <1>0, <1>1 DEF SendDm, TypeOK, Pcs
  <2> QED
    BY <1>0, <1>1, <2>1, ThreadStep DEF SendDm
<1>2. ASSUME NEW m \in Msgs, FirstTx(m) PROVE IInv'
  <2>1. /\ 0 \in Attempts /\ Ack(m, 0) \in AckHashes
        /\ contacts[To[m]] \in ContactEntries
        /\ Encode(m, 0, contacts[To[m]])
    BY <1>0, <1>2, FirstAttempt, SenderAssumption DEF TypeOK, FirstTx
  <2>2. /\ pc[m] = "tx" /\ pc' = [pc EXCEPT ![m] = "append"]
        /\ pendingAcks' = [pendingAcks EXCEPT ![Ack(m, 0)] = m]
        /\ UNCHANGED <<contacts, chat, delivered, failed, retries, pendingOrder, later, hasty,
                       txQueue>>
    BY <1>2 DEF FirstTx
  <2>3. /\ attempt' = [attempt EXCEPT ![m] = 0]
        /\ attempt' \in [Msgs -> Attempts]
        /\ route' \in [Msgs -> Paths]
        /\ seen' \in Seq(PacketHashes)
        /\ SeenBounded'
    BY <1>0, <2>1, EncodeFacts
  <2>4. TypeOK'
    BY <1>0, <2>1, <2>2, <2>3 DEF TypeOK, Pcs
  <2>5. /\ pc'[m] = "append" /\ \A n \in Msgs \ {m} : pc'[n] = pc[n]
        /\ \A h \in AckHashes : \/ pendingAcks'[h] = pendingAcks[h] /\ h # Ack(m, 0)
                                \/ h = Ack(m, 0) /\ pendingAcks'[h] = m
    BY <1>0, <2>2 DEF TypeOK
  <2>6. PendingTracked'
    <3>1. ASSUME NEW h \in AckHashes, pendingAcks'[h] # NoMsg
          PROVE  h \in ToSet(pendingOrder') \/ pc'[pendingAcks'[h]] = "append"
      <4>1. CASE h = Ack(m, 0)
        BY <2>5, <4>1
      <4>2. CASE h # Ack(m, 0)
        <5>1. pendingAcks[h] \in Msgs /\ pendingAcks'[h] = pendingAcks[h]
          BY <1>0, <2>5, <3>1, <4>2 DEF TypeOK
        <5> QED
          BY <1>0, <2>2, <2>5, <3>1, <5>1 DEF PendingTracked
      <4> QED
        BY <4>1, <4>2
    <3>2. Excess(pendingOrder') > 0 => \E n \in Msgs : pc'[n] = "cut"
      BY <1>0, <2>2, <2>5 DEF PendingTracked, Excess
    <3> QED
      BY <3>1, <3>2 DEF PendingTracked
  <2>7. PendingWasSent'
    BY <2>1, <2>2, <2>3, <2>5, AttemptKeepsPendingWasSent, ZenonT(30)
  <2>8. FailedAfterAllSends' /\ ArmedIsSent' /\ FirstUntilSent'
    BY <1>0, <2>2, <2>3 DEF TypeOK, FailedAfterAllSends, ArmedIsSent, FirstUntilSent
  <2> QED
    BY <2>3, <2>4, <2>6, <2>7, <2>8 DEF IInv
<1>3. ASSUME NEW m \in Msgs, OrderAck(m) PROVE IInv'
  <2> DEFINE h == Ack(m, 0)
  <2>1. /\ h \in AckHashes /\ pendingOrder \in Seq(AckHashes)
        /\ pc \in [Msgs -> Pcs] /\ pendingAcks \in [AckHashes -> Msgs \cup {NoMsg}]
    BY <1>0, FirstAttempt DEF TypeOK
  <2>2. /\ pc[m] = "append" /\ attempt[m] = 0
        /\ pendingOrder' = Append(pendingOrder, h)
        /\ later' = Newer(later, h, MAX_PENDING)
        /\ pc' = [pc EXCEPT ![m] = IF Excess(pendingOrder') > 0 THEN "cut" ELSE "queue"]
        /\ UNCHANGED <<contacts, chat, attempt, route, delivered, failed, retries, pendingAcks,
                       hasty, seen, txQueue>>
    BY <1>0, <1>3 DEF OrderAck, FirstUntilSent
  <2> HIDE DEF h
  <2>3. /\ pendingOrder' \in Seq(AckHashes)
        /\ \A x : x \in ToSet(pendingOrder') <=> x \in ToSet(pendingOrder) \/ x = h
    BY <2>1, <2>2, AppendFacts
  <2>4. later' \in [AckHashes -> Counts]
    BY <1>0, <2>1, <2>2, NewerFacts, SenderAssumption DEF TypeOK, Counts
  <2>5. /\ pc'[m] \in {"cut", "queue"} /\ (Excess(pendingOrder') > 0 => pc'[m] = "cut")
        /\ \A n \in Msgs \ {m} : pc'[n] = pc[n]
    BY <2>1, <2>2
  <2>6. TypeOK'
    <3>1. pc' \in [Msgs -> Pcs]
      BY <2>1, <2>2 DEF Pcs
    <3> QED
      BY <1>0, <2>2, <2>3, <2>4, <3>1 DEF TypeOK
  <2>7. PendingTracked'
    <3>1. ASSUME NEW x \in AckHashes, pendingAcks[x] # NoMsg
          PROVE  x \in ToSet(pendingOrder') \/ pc'[pendingAcks[x]] = "append"
      <4>1. pendingAcks[x] \in Msgs /\ x \in AcksOf(pendingAcks[x])
        BY <1>0, <2>1, <3>1 DEF PendingWasSent
      <4>2. CASE pendingAcks[x] = m
        BY <2>2, <2>3, <4>1, <4>2, FirstAttempt DEF h
      <4>3. CASE pendingAcks[x] # m
        BY <1>0, <2>3, <2>5, <3>1, <4>1, <4>3 DEF PendingTracked
      <4> QED
        BY <4>2, <4>3
    <3> QED
      BY <2>2, <2>5, <3>1 DEF PendingTracked
  <2>8. PendingWasSent'
    <3>1. \A n \in Msgs : AcksOf(n)' = AcksOf(n)
      BY <2>2 DEF AcksOf, Ack
    <3> SUFFICES ASSUME NEW x \in AckHashes, pendingAcks[x] # NoMsg
                 PROVE  /\ pc'[pendingAcks[x]] \notin {"idle", "tx", "refused"}
                        /\ x \in AcksOf(pendingAcks[x])'
      BY <2>2 DEF PendingWasSent
    <3>2. /\ pendingAcks[x] \in Msgs
          /\ pc[pendingAcks[x]] \notin {"idle", "tx", "refused"}
          /\ x \in AcksOf(pendingAcks[x])
      BY <1>0, <2>1 DEF PendingWasSent
    <3> QED
      BY <2>2, <2>5, <3>1, <3>2
  <2>9. SeenBounded' /\ FailedAfterAllSends' /\ ArmedIsSent' /\ FirstUntilSent'
    BY <1>0, <2>2, <2>5 DEF SeenBounded, FailedAfterAllSends, ArmedIsSent, FirstUntilSent
  <2> QED
    BY <2>6, <2>7, <2>8, <2>9 DEF IInv
<1>4. ASSUME NEW m \in Msgs, CutOrder(m) PROVE IInv'
  <2>1. /\ pendingOrder \in Seq(AckHashes) /\ pc[m] = "cut"
        /\ pc \in [Msgs -> Pcs] /\ pendingAcks \in [AckHashes -> Msgs \cup {NoMsg}]
        /\ UNCHANGED <<contacts, chat, attempt, route, delivered, failed, retries, later, seen,
                       txQueue>>
    BY <1>0, <1>4 DEF CutOrder, TypeOK
  <2>2. \A n \in Msgs : AcksOf(n)' = AcksOf(n)
    BY <2>1 DEF AcksOf, Ack
  <2>3. CASE pendingOrder = <<>>
    <3>1. /\ pc' = [pc EXCEPT ![m] = "refused"]
          /\ UNCHANGED <<pendingAcks, pendingOrder, hasty>>
      BY <1>4, <2>3 DEF CutOrder
    <3>2. pc'[m] = "refused" /\ \A n \in Msgs \ {m} : pc'[n] = pc[n]
      BY <2>1, <3>1
    <3>3. TypeOK'
      <4>1. pc' \in [Msgs -> Pcs]
        BY <2>1, <3>1 DEF Pcs
      <4> QED
        BY <1>0, <2>1, <3>1, <4>1 DEF TypeOK
    <3>4. ASSUME NEW x \in AckHashes, pendingAcks[x] # NoMsg
          PROVE  pendingAcks[x] \in Msgs \ {m} /\ pc[pendingAcks[x]] = "append"
      <4>1. x \notin ToSet(pendingOrder)
        BY <2>3 DEF ToSet
      <4> QED
        BY <1>0, <2>1, <3>4, <4>1 DEF PendingTracked
    <3>5. PendingTracked'
      <4>1. Excess(pendingOrder') = 0
        BY <2>3, <3>1, SenderAssumption DEF Excess
      <4> QED
        BY <3>1, <3>2, <3>4, <4>1 DEF PendingTracked
    <3>6. PendingWasSent'
      BY <1>0, <2>2, <3>1, <3>2, <3>4 DEF PendingWasSent
    <3>7. SeenBounded' /\ FailedAfterAllSends' /\ ArmedIsSent' /\ FirstUntilSent'
      <4>1. failed \subseteq Msgs /\ retries \subseteq Msgs
        BY <1>0 DEF TypeOK
      <4>2. \A n \in Msgs : pc[n] = "sent" => pc'[n] = "sent"
        BY <2>1, <3>2
      <4>3. \A n \in Msgs : pc'[n] # "sent" => pc[n] # "sent"
        BY <4>2
      <4>4. FailedAfterAllSends' /\ ArmedIsSent'
        BY <1>0, <2>1, <4>1, <4>2 DEF FailedAfterAllSends, ArmedIsSent
      <4>5. SeenBounded' /\ FirstUntilSent'
        BY <1>0, <2>1, <4>3 DEF SeenBounded, FirstUntilSent
      <4> QED
        BY <4>4, <4>5
    <3> QED
      BY <3>3, <3>5, <3>6, <3>7 DEF IInv
  <2>4. CASE pendingOrder # <<>>
    <3>1. /\ pendingOrder' = Tail(pendingOrder)
          /\ pendingAcks' = WithoutAcks(pendingAcks, {Head(pendingOrder)})
          /\ hasty' \in {hasty, hasty \cup {Head(pendingOrder)}}
          /\ pc' = [pc EXCEPT ![m] = IF Excess(pendingOrder') > 0 THEN "cut" ELSE "queue"]
      BY <1>4, <2>4 DEF CutOrder
    <3>2. /\ pc'[m] \in {"cut", "queue"} /\ (Excess(pendingOrder') > 0 => pc'[m] = "cut")
          /\ \A n \in Msgs \ {m} : pc'[n] = pc[n]
      BY <2>1, <3>1
    <3>3. /\ Tail(pendingOrder) \in Seq(AckHashes) /\ Head(pendingOrder) \in AckHashes
          /\ \A x \in ToSet(pendingOrder) : x = Head(pendingOrder) \/ x \in ToSet(Tail(pendingOrder))
      BY <2>1, <2>4, TailFacts
    <3>4. /\ pendingAcks' \in [AckHashes -> Msgs \cup {NoMsg}]
          /\ \A x \in AckHashes : \/ pendingAcks'[x] = NoMsg
                                  \/ pendingAcks'[x] = pendingAcks[x] /\ x # Head(pendingOrder)
      BY <2>1, <3>1 DEF WithoutAcks
    <3>5. TypeOK'
      <4>1. pc' \in [Msgs -> Pcs]
        BY <2>1, <3>1 DEF Pcs
      <4>2. hasty' \subseteq AckHashes
        BY <1>0, <3>1, <3>3 DEF TypeOK
      <4> QED
        BY <1>0, <2>1, <3>1, <3>3, <3>4, <4>1, <4>2 DEF TypeOK
    <3>6. ASSUME NEW x \in AckHashes, pendingAcks'[x] # NoMsg
          PROVE  /\ pendingAcks'[x] = pendingAcks[x] /\ pendingAcks[x] \in Msgs
                 /\ x # Head(pendingOrder)
      BY <2>1, <3>4, <3>6
    <3>7. PendingTracked'
      <4>1. ASSUME NEW x \in AckHashes, pendingAcks'[x] # NoMsg
            PROVE  x \in ToSet(pendingOrder') \/ pc'[pendingAcks'[x]] = "append"
        <5>1. x \in ToSet(pendingOrder) \/ pc[pendingAcks[x]] = "append"
          BY <1>0, <3>6, <4>1 DEF PendingTracked
        <5> QED
          BY <2>1, <3>1, <3>2, <3>3, <3>6, <4>1, <5>1
      <4> QED
        BY <3>2, <4>1 DEF PendingTracked
    <3>8. PendingWasSent'
      <4>1. ASSUME NEW x \in AckHashes, pendingAcks'[x] # NoMsg
            PROVE  /\ pc'[pendingAcks'[x]] \notin {"idle", "tx", "refused"}
                   /\ x \in AcksOf(pendingAcks[x])'
        <5>1. pc[pendingAcks[x]] \notin {"idle", "tx", "refused"} /\ x \in AcksOf(pendingAcks[x])
          BY <1>0, <3>6, <4>1 DEF PendingWasSent
        <5> QED
          BY <2>2, <3>2, <3>6, <4>1, <5>1
      <4> QED
        BY <3>6, <4>1 DEF PendingWasSent
    <3>9. SeenBounded' /\ FailedAfterAllSends' /\ ArmedIsSent' /\ FirstUntilSent'
      <4>1. failed \subseteq Msgs /\ retries \subseteq Msgs
        BY <1>0 DEF TypeOK
      <4>2. \A n \in Msgs : pc[n] = "sent" => pc'[n] = "sent"
        BY <2>1, <3>2
      <4>3. \A n \in Msgs : pc'[n] # "sent" => pc[n] # "sent"
        BY <4>2
      <4>4. FailedAfterAllSends' /\ ArmedIsSent'
        BY <1>0, <2>1, <4>1, <4>2 DEF FailedAfterAllSends, ArmedIsSent
      <4>5. SeenBounded' /\ FirstUntilSent'
        BY <1>0, <2>1, <4>3 DEF SeenBounded, FirstUntilSent
      <4> QED
        BY <4>4, <4>5
    <3> QED
      BY <3>5, <3>7, <3>8, <3>9 DEF IInv
  <2> QED
    BY <2>3, <2>4
<1>5. ASSUME NEW m \in Msgs, QueueTx(m) PROVE IInv'
  <2>1. txQueue' \in Seq(TxtPackets)
    BY <1>0, <1>5, EnqueueFacts, FirstAttempt DEF QueueTx, TypeOK
  <2>2. TypeOK'
    BY <1>0, <1>5, <2>1 DEF QueueTx, TypeOK, Pcs
  <2> QED
    BY <1>0, <1>5, <2>2, ThreadStep DEF QueueTx
<1>6. ASSUME NEW m \in Msgs, AddDm(m) PROVE IInv'
  <2>1. TypeOK'
    BY <1>0, <1>6 DEF AddDm, TypeOK, Pcs
  <2> QED
    BY <1>0, <1>6, <2>1, ThreadStep DEF AddDm
<1>7. ASSUME NEW m \in Msgs, Arm(m) PROVE IInv'
  <2>1. TypeOK'
    BY <1>0, <1>7 DEF Arm, TypeOK, Pcs
  <2> QED
    BY <1>0, <1>7, <2>1, ThreadStep DEF Arm
<1>8. ASSUME NEW m \in Msgs, Resend(m) PROVE IInv'
  <2> DEFINE a == attempt[m] + 1
             entry == ContactAfterTimeout(m)
  <2>1. /\ m \in retries /\ pc[m] = "sent"
        /\ attempt[m] \in Attempts /\ a \in Attempts
    BY <1>0, <1>8, SenderAssumption
    DEF Resend, IsLastAttempt, Attempts, TypeOK, ArmedIsSent
  <2>2. entry \in ContactEntries
    BY <1>0, RouteFacts, SenderAssumption DEF ContactAfterTimeout, TypeOK
  <2>3. /\ TxDm(m, a, entry)
        /\ contacts' = [contacts EXCEPT ![To[m]] = entry]
        /\ UNCHANGED <<pc, chat, delivered, failed, retries>>
    BY <1>8 DEF Resend
  <2> HIDE DEF entry
  <2>4. a >= attempt[m]
    BY <2>1, SenderAssumption DEF Attempts
  <2> HIDE DEF a
  <2>5. /\ attempt' = [attempt EXCEPT ![m] = a]
        /\ SeenBounded' /\ PendingTracked'
    BY <1>0, <2>1, <2>2, <2>3, TxDmFacts
  <2>6. TypeOK'
    BY <1>0, <2>1, <2>2, <2>3, TxDmFacts DEF TypeOK
  <2>7. PendingWasSent'
    <3>1. \A h \in AckHashes : pendingAcks'[h] \in {pendingAcks[h], NoMsg}
                                 \/ (h = Ack(m, a) /\ pendingAcks'[h] = m)
      BY <1>0, <2>1, <2>2, <2>3, TxDmFacts
    <3>2. pc'[m] \notin {"idle", "tx", "refused"} /\ \A n \in Msgs \ {m} : pc'[n] = pc[n]
      BY <2>1, <2>3
    <3> QED
      BY <2>1, <2>4, <2>5, <3>1, <3>2, AttemptKeepsPendingWasSent
  <2>8. FailedAfterAllSends' /\ ArmedIsSent' /\ FirstUntilSent'
    BY <1>0, <2>1, <2>3, <2>5 DEF TypeOK, FailedAfterAllSends, ArmedIsSent, FirstUntilSent
  <2> QED
    BY <2>5, <2>6, <2>7, <2>8 DEF IInv
<1>9. ASSUME NEW m \in Msgs, GiveUp(m) PROVE IInv'
  <2>1. ContactAfterTimeout(m) \in ContactEntries
    BY <1>0, RouteFacts, SenderAssumption DEF ContactAfterTimeout, TypeOK
  <2>2. TypeOK'
    BY <1>0, <1>9, <2>1 DEF GiveUp, TypeOK
  <2>3. SeenBounded' /\ PendingTracked'
    BY <1>0, <1>9 DEF GiveUp, SeenBounded, PendingTracked, Excess
  <2>4. PendingWasSent'
    BY <1>0, <1>9 DEF GiveUp, PendingWasSent, AcksOf, Ack
  <2>5. attempt[m] = DM_MAX_SENDS - 1 /\ pc[m] = "sent"
    BY <1>0, <1>9, SenderAssumption
    DEF GiveUp, IsLastAttempt, TypeOK, Attempts, ArmedIsSent
  <2>6. FailedAfterAllSends' /\ ArmedIsSent' /\ FirstUntilSent'
    BY <1>0, <1>9, <2>5 DEF GiveUp, FailedAfterAllSends, ArmedIsSent, FirstUntilSent
  <2> QED
    BY <2>2, <2>3, <2>4, <2>6 DEF IInv
<1>10. ASSUME Transmit PROVE IInv'
  <2>1. TypeOK'
    BY <1>0, <1>10 DEF Transmit, TypeOK
  <2>2. SeenBounded' /\ PendingTracked'
    BY <1>0, <1>10 DEF Transmit, SeenBounded, PendingTracked, Excess
  <2> QED
    BY <1>0, <1>10, <2>1, <2>2
    DEF Transmit, IInv, PendingWasSent, AcksOf, Ack, FailedAfterAllSends, ArmedIsSent,
        FirstUntilSent
<1>11. ASSUME NEW p \in Peers, AddContact(p) \/ RemoveContact(p) PROVE IInv'
  <2>1. TypeOK'
    BY <1>0, <1>11 DEF AddContact, RemoveContact, TypeOK, ContactEntries, Paths
  <2>2. SeenBounded' /\ PendingTracked'
    BY <1>0, <1>11 DEF AddContact, RemoveContact, SeenBounded, PendingTracked, Excess
  <2> QED
    BY <1>0, <1>11, <2>1, <2>2
    DEF AddContact, RemoveContact, IInv, PendingWasSent, AcksOf, Ack,
        FailedAfterAllSends, ArmedIsSent, FirstUntilSent
<1>12. ASSUME NEW pkt \in AckPackets, HandleAck(pkt) PROVE IInv'
  <2>1. pkt \in PacketHashes
    BY DEF PacketHashes
  <2>2. /\ seen' = Remember(seen, pkt, MAX_SEEN)
        /\ Acknowledge(pkt.ack)
        /\ UNCHANGED <<contacts, pc, chat, attempt, route, failed, txQueue>>
    BY <1>12 DEF HandleAck
  <2>3. seen' \in Seq(PacketHashes) /\ SeenBounded'
    BY <1>0, <2>1, <2>2, RememberFacts, SenderAssumption DEF TypeOK, SeenBounded
  <2>4. TypeOK' /\ PendingTracked'
    BY <1>0, <2>2, <2>3, AcknowledgeFacts DEF TypeOK
  <2>5. /\ retries' \subseteq retries
        /\ \A h \in AckHashes : pendingAcks'[h] \in {pendingAcks[h], NoMsg}
    BY <1>0, <2>2, AcknowledgeFacts
  <2>6. PendingWasSent' /\ FailedAfterAllSends' /\ ArmedIsSent' /\ FirstUntilSent'
    BY <2>2, <2>4, <2>5, ForgettingStep
  <2> QED
    BY <2>3, <2>4, <2>6 DEF IInv
<1>13. ASSUME NEW pkt \in PathPackets, HandlePath(pkt) PROVE IInv'
  <2>1. /\ pkt \in PacketHashes /\ pkt.from \in Peers /\ pkt.path \in Paths
    BY DEF PacketHashes, PathPackets
  <2>2. /\ seen' = Remember(seen, pkt, MAX_SEEN)
        /\ UNCHANGED <<pc, chat, attempt, route, failed, txQueue>>
    BY <1>13 DEF HandlePath
  <2>3. seen' \in Seq(PacketHashes) /\ SeenBounded'
    BY <1>0, <2>1, <2>2, RememberFacts, SenderAssumption DEF TypeOK, SeenBounded
  <2>4. contacts' \in [Peers -> ContactEntries]
    BY <1>0, <1>13, <2>1 DEF HandlePath, TypeOK, LearnPath, ContactEntries
  <2>5. /\ delivered' \subseteq Msgs
        /\ retries' \subseteq retries
        /\ pendingAcks' \in [AckHashes -> Msgs \cup {NoMsg}]
        /\ \A h \in AckHashes : pendingAcks'[h] \in {pendingAcks[h], NoMsg}
        /\ pendingOrder' \in Seq(AckHashes)
        /\ UNCHANGED <<later, hasty>>
        /\ PendingTracked'
    <3>1. CASE Acknowledge(pkt.ack)
      BY <1>0, <2>2, <3>1, AcknowledgeFacts
    <3>2. CASE UNCHANGED <<delivered, retries, pendingAcks, pendingOrder, later, hasty>>
      BY <1>0, <2>2, <3>2 DEF TypeOK, PendingTracked, Excess
    <3> QED
      BY <1>13, <3>1, <3>2 DEF HandlePath
  <2>6. TypeOK'
    BY <1>0, <2>2, <2>3, <2>4, <2>5 DEF TypeOK
  <2>7. PendingWasSent' /\ FailedAfterAllSends' /\ ArmedIsSent' /\ FirstUntilSent'
    BY <2>2, <2>5, <2>6, ForgettingStep
  <2> QED
    BY <2>3, <2>5, <2>6, <2>7 DEF IInv
<1>14. CASE UNCHANGED vars
  BY <1>0, <1>14
  DEF vars, IInv, TypeOK, SeenBounded, PendingTracked, Excess, PendingWasSent, AcksOf, Ack,
      FailedAfterAllSends, ArmedIsSent, FirstUntilSent
<1> QED
  BY <1>1, <1>2, <1>3, <1>4, <1>5, <1>6, <1>7, <1>8, <1>9, <1>10, <1>11, <1>12, <1>13, <1>14
  DEF Next, LocalNext, SendThread, RetryTick

\* IInv holds in every reachable state.
THEOREM IInvIsInvariant == Spec => []IInv
  BY InitIInv, NextIInv, PTL DEF Spec

\* Every variable keeps its type.
THEOREM TypeCorrect == Spec => []TypeOK
<1>1. IInv => TypeOK
  BY DEF IInv
<1> QED
  BY <1>1, IInvIsInvariant, PTL

\* The dictionary of expected acknowledgements never holds a hash its order
\* has lost or will not get, and an order beyond its cap is being cut, through
\* every interleaving of send threads and worker in the two tables.
THEOREM PendingIsTracked == Spec => []PendingTracked
<1>1. IInv => PendingTracked
  BY DEF IInv
<1> QED
  BY <1>1, IInvIsInvariant, PTL

\* Whatever acknowledgements arrive, an expected hash belongs to a message that
\* has built it and that send_dm has not refused.
THEOREM PendingIsOfSent == Spec => []PendingWasSent
<1>1. IInv => PendingWasSent
  BY DEF IInv
<1> QED
  BY <1>1, IInvIsInvariant, PTL

\* A message is marked failed only after its last attempt, and is not retried
\* afterwards.
THEOREM FailedIsFinal == Spec => []FailedAfterAllSends
<1>1. IInv => FailedAfterAllSends
  BY DEF IInv
<1> QED
  BY <1>1, IInvIsInvariant, PTL

\* The attempt after an unanswered direct one is a flood.
THEOREM DirectIsFollowedByFlood == Spec => ResendAfterDirectFloods
<1>1. TypeOK /\ [Next]_vars
        => [\A m \in Msgs :
              HasRoute(route[m]) /\ attempt'[m] > attempt[m]
                => /\ ~HasRoute(route'[m])
                   /\ txQueue'[Len(txQueue')].route = NoPath]_vars
  <2> USE DEF threadVars, msgVars, orderVars, ackVars
  <2> SUFFICES ASSUME TypeOK, Next, NEW m \in Msgs, HasRoute(route[m]),
                      attempt'[m] > attempt[m]
               PROVE  ~HasRoute(route'[m]) /\ txQueue'[Len(txQueue')].route = NoPath
    OBVIOUS
  <2>1. attempt \in [Msgs -> Attempts] /\ \A n \in Msgs : attempt[n] \in Nat
    BY SenderAssumption DEF TypeOK, Attempts
  <2>2. Resend(m)
    <3>1. ASSUME NEW n \in Msgs, FirstTx(n) PROVE FALSE
      BY <2>1, <3>1 DEF FirstTx, Encode
    <3>2. ASSUME NEW n \in Msgs, Resend(n) PROVE n = m
      BY <2>1, <3>2 DEF Resend, TxDm, Encode
    <3> QED
      BY <2>1, <3>1, <3>2
      DEF Next, LocalNext, SendThread, RetryTick, SendDm, OrderAck, CutOrder, QueueTx, AddDm, Arm,
          GiveUp, Transmit, AddContact, RemoveContact, HandleAck, HandlePath
  <2>3. RouteFor(ContactAfterTimeout(m)) = NoPath
    BY PathAssumption DEF ContactAfterTimeout, ResetPath, RouteFor, HasRoute
  <2>4. /\ route'[m] = NoPath
        /\ txQueue' = Append(txQueue,
             [msg |-> m, attempt |-> attempt[m] + 1, route |-> NoPath])
    BY <2>2, <2>3 DEF Resend, TxDm, Encode, Enqueue, TypeOK
  <2> QED
    BY <2>4, PathAssumption DEF TypeOK, HasRoute
<1> QED
  BY <1>1, TypeCorrect, PTL DEF Spec, ResendAfterDirectFloods

-----------------------------------------------------------------------------
(* What an acknowledgement finds.                                          *)

\* The messages that are under way, and the hashes that are one message's alone.
Live(m)     == pc[m] \notin {"idle", "tx", "refused"}
Alone(h, m) == Live(m) /\ h \in AcksOf(m) /\ ~Shared(h, m)

\* What is in the order came there with an attempt.
OrderOfAttempts ==
  \A h \in ToSet(pendingOrder) : \E m \in Msgs : Live(m) /\ pc[m] # "append" /\ h \in AcksOf(m)

\* What is behind a hash in the order entered it later.
Counted(h) ==
  \A i \in 1..Len(pendingOrder) :
    pendingOrder[i] = h => later[h] = MAX_PENDING \/ later[h] >= Len(pendingOrder) - i

\* A hash leads to its message, until that is delivered or the cap has reached it.
Found(h, m) == m \in delivered \/ pendingAcks[h] = m \/ (pc[m] # "append" /\ Overtaken(h))

ExpectInv ==
  /\ IInv
  /\ OrderOfAttempts
  /\ \A m \in Msgs, h \in AckHashes : Alone(h, m) => Counted(h) /\ Found(h, m)

\* A message that was tried stays so, and keeps its attempts.
LEMMA AttemptsStay ==
  ASSUME IInv, [Next]_vars, NEW n \in Msgs, pc[n] \notin {"idle", "tx"}
  PROVE  /\ pc'[n] \notin {"idle", "tx"}
         /\ attempt[n] \in Nat /\ attempt'[n] \in Nat /\ attempt[n] <= attempt'[n]
<1> USE DEF threadVars, msgVars
<1>1. /\ attempt \in [Msgs -> Attempts] /\ \A m \in Msgs : attempt[m] \in Nat
      /\ pc \in [Msgs -> Pcs]
  BY SenderAssumption DEF IInv, TypeOK, Attempts
<1>2. ASSUME UNCHANGED attempt, pc' = pc \/ \E m \in Msgs : \E to \in Pcs \ {"idle", "tx"} :
                                              pc' = [pc EXCEPT ![m] = to]
      PROVE  /\ pc'[n] \notin {"idle", "tx"}
             /\ attempt[n] \in Nat /\ attempt'[n] \in Nat /\ attempt[n] <= attempt'[n]
  BY <1>1, <1>2
<1>3. ASSUME NEW m \in Msgs, SendDm(m)
      PROVE  /\ pc'[n] \notin {"idle", "tx"}
             /\ attempt[n] \in Nat /\ attempt'[n] \in Nat /\ attempt[n] <= attempt'[n]
  BY <1>1, <1>3 DEF SendDm
<1>4. ASSUME NEW m \in Msgs, FirstTx(m)
      PROVE  /\ pc'[n] \notin {"idle", "tx"}
             /\ attempt[n] \in Nat /\ attempt'[n] \in Nat /\ attempt[n] <= attempt'[n]
  BY <1>1, <1>4 DEF FirstTx, Encode
<1>5. ASSUME NEW m \in Msgs, Resend(m)
      PROVE  /\ pc'[n] \notin {"idle", "tx"}
             /\ attempt[n] \in Nat /\ attempt'[n] \in Nat /\ attempt[n] <= attempt'[n]
  BY <1>1, <1>5 DEF Resend, TxDm, Encode
<1>6. ASSUME NEW m \in Msgs, OrderAck(m) \/ CutOrder(m) \/ QueueTx(m) \/ AddDm(m) \/ Arm(m)
      PROVE  /\ pc'[n] \notin {"idle", "tx"}
             /\ attempt[n] \in Nat /\ attempt'[n] \in Nat /\ attempt[n] <= attempt'[n]
  <2>1. /\ UNCHANGED attempt
        /\ \E to \in {"cut", "queue", "refused", "log", "arm", "sent"} : pc' = [pc EXCEPT ![m] = to]
    BY <1>6 DEF OrderAck, CutOrder, QueueTx, AddDm, Arm
  <2>2. {"cut", "queue", "refused", "log", "arm", "sent"} \subseteq Pcs \ {"idle", "tx"}
    BY DEF Pcs
  <2> QED
    BY <1>2, <2>1, <2>2
<1> QED
  BY <1>2, <1>3, <1>4, <1>5, <1>6
  DEF Next, LocalNext, SendThread, RetryTick, GiveUp, Transmit, AddContact, RemoveContact, HandleAck,
      HandlePath, vars

\* What was shared stays shared: a hash that is one message's alone after a step
\* was so before, if the message had it.
LEMMA AloneBefore ==
  ASSUME IInv, [Next]_vars, NEW m \in Msgs, NEW h, Alone(h, m)', Live(m), h \in AcksOf(m)
  PROVE  Alone(h, m)
<1> SUFFICES ASSUME NEW n \in Msgs \ {m}, pc[n] \notin {"idle", "tx"}, h \in AcksOf(n)
             PROVE  FALSE
  BY DEF Alone, Shared
<1>1. /\ pc'[n] \notin {"idle", "tx"}
      /\ attempt[n] \in Nat /\ attempt'[n] \in Nat /\ attempt[n] <= attempt'[n]
  BY AttemptsStay
<1>2. 0..attempt[n] \subseteq 0..attempt'[n]
  BY <1>1
<1>3. h \in AcksOf(n)'
  BY <1>2 DEF AcksOf, Ack
<1> QED
  BY <1>1, <1>3 DEF Alone, Shared

\* A hash that is about to enter the order is not in it, unless it is shared.
LEMMA NotYetInOrder ==
  ASSUME OrderOfAttempts, NEW m \in Msgs, NEW h, Alone(h, m), pc[m] = "append"
  PROVE  h \notin ToSet(pendingOrder)
BY DEF OrderOfAttempts, Alone, Shared, Live

\* The order only loses hashes, and what it has left stays counted.
LEMMA CountedStays ==
  ASSUME IInv, UNCHANGED later, pendingOrder' \in Seq(AckHashes), Part(pendingOrder', pendingOrder),
         NEW h \in AckHashes, Counted(h)
  PROVE  Counted(h)'
<1>1. /\ pendingOrder \in Seq(AckHashes) /\ Len(pendingOrder) \in Nat /\ Len(pendingOrder') \in Nat
      /\ later[h] \in Nat
  BY SenderAssumption DEF IInv, TypeOK, Counts
<1> SUFFICES ASSUME NEW j \in 1..Len(pendingOrder'), pendingOrder'[j] = h
             PROVE  later[h] = MAX_PENDING \/ later[h] >= Len(pendingOrder') - j
  BY DEF Counted
<1>2. PICK i \in 1..Len(pendingOrder) :
        pendingOrder'[j] = pendingOrder[i] /\ Len(pendingOrder') - j <= Len(pendingOrder) - i
  BY DEF Part
<1>3. later[h] = MAX_PENDING \/ later[h] >= Len(pendingOrder) - i
  BY <1>2 DEF Counted
<1> QED
  BY <1>1, <1>2, <1>3

\* A step that lets nothing into the order, and leaves it or shortens it.
LEMMA ShortenStep ==
  ASSUME ExpectInv, [Next]_vars, IInv', UNCHANGED later,
         Part(pendingOrder', pendingOrder),
         \A m \in Msgs : /\ Live(m)' => Live(m)
                         /\ AcksOf(m)' = AcksOf(m)
                         /\ Live(m) /\ pc[m] # "append"
                              => (Live(m)' /\ pc'[m] # "append") \/ pendingOrder' = <<>>,
         \A m \in Msgs, h \in AckHashes : Alone(h, m) /\ Found(h, m) => Found(h, m)'
  PROVE  ExpectInv'
<1>1. /\ pendingOrder \in Seq(AckHashes) /\ pendingOrder' \in Seq(AckHashes)
      /\ IInv /\ OrderOfAttempts
  BY DEF ExpectInv, IInv, TypeOK
<1>2. OrderOfAttempts'
  <2>1. CASE pendingOrder' = <<>>
    <3>1. ToSet(pendingOrder') = {}
      BY <2>1 DEF ToSet
    <3> QED
      BY <3>1 DEF OrderOfAttempts
  <2>2. CASE pendingOrder' # <<>>
    <3> SUFFICES ASSUME NEW h \in ToSet(pendingOrder')
                 PROVE  \E m \in Msgs : Live(m)' /\ pc'[m] # "append" /\ h \in AcksOf(m)'
      BY DEF OrderOfAttempts
    <3>1. h \in ToSet(pendingOrder)
      BY <1>1, PartFacts
    <3>2. PICK m \in Msgs : Live(m) /\ pc[m] # "append" /\ h \in AcksOf(m)
      BY <1>1, <3>1 DEF OrderOfAttempts
    <3> QED
      BY <2>2, <3>2
  <2> QED
    BY <2>1, <2>2
<1>3. ASSUME NEW m \in Msgs, NEW h \in AckHashes, Alone(h, m)'
      PROVE  Counted(h)' /\ Found(h, m)'
  <2>1. Live(m) /\ h \in AcksOf(m)
    BY <1>3 DEF Alone
  <2>2. Alone(h, m)
    BY <1>1, <1>3, <2>1, AloneBefore
  <2>3. Counted(h) /\ Found(h, m)
    BY <2>2 DEF ExpectInv
  <2> QED
    BY <1>1, <2>2, <2>3, CountedStays
<1>4. AckHashes' = AckHashes
  BY DEF AckHashes, Ack
<1> QED
  BY <1>2, <1>3, <1>4 DEF ExpectInv

\* A step that leaves the tables, the attempts and the verdicts alone.
LEMMA QuietStep ==
  ASSUME ExpectInv, [Next]_vars, IInv',
         UNCHANGED <<attempt, delivered, pendingAcks, pendingOrder, later, hasty>>,
         \A m \in Msgs : /\ Live(m)' <=> Live(m)
                         /\ Live(m) => (pc'[m] = "append" <=> pc[m] = "append")
  PROVE  ExpectInv'
<1>1. Part(pendingOrder, pendingOrder)
  <2>1. \A j \in 1..Len(pendingOrder) :
          pendingOrder[j] = pendingOrder[j] /\ Len(pendingOrder) - j <= Len(pendingOrder) - j
    BY DEF ExpectInv, IInv, TypeOK
  <2> QED
    BY <2>1 DEF Part
<1>2. \A m \in Msgs : AcksOf(m)' = AcksOf(m)
  BY DEF AcksOf, Ack
<1>3. \A h : Overtaken(h)' <=> Overtaken(h)
  BY DEF Overtaken
<1>4. ASSUME NEW m \in Msgs, NEW h \in AckHashes, Alone(h, m), Found(h, m) PROVE Found(h, m)'
  BY <1>3, <1>4 DEF Found, Alone
<1> QED
  BY <1>1, <1>2, <1>4, ShortenStep

\* A send thread registers its attempt in the dictionary.
LEMMA FirstTxExpects ==
  ASSUME ExpectInv, IInv', NEW m \in Msgs, FirstTx(m), [Next]_vars
  PROVE  ExpectInv'
<1> DEFINE a == Ack(m, 0)
<1>1. /\ pc[m] = "tx" /\ pc' = [pc EXCEPT ![m] = "append"]
      /\ pendingAcks' = [pendingAcks EXCEPT ![a] = m]
      /\ attempt' = [attempt EXCEPT ![m] = 0]
      /\ UNCHANGED <<delivered, pendingOrder, later, hasty>>
  BY DEF FirstTx, orderVars, Encode
<1>2. /\ IInv /\ OrderOfAttempts /\ attempt \in [Msgs -> Attempts] /\ pc \in [Msgs -> Pcs]
      /\ pendingAcks \in [AckHashes -> Msgs \cup {NoMsg}] /\ a \in AckHashes
      /\ attempt' \in [Msgs -> Attempts]
  BY FirstAttempt DEF ExpectInv, IInv, TypeOK
<1> HIDE DEF a
<1>3. /\ \A n \in Msgs \ {m} : pc'[n] = pc[n] /\ attempt'[n] = attempt[n]
      /\ pc'[m] = "append" /\ attempt'[m] = 0
  BY <1>1, <1>2
<1>4. \A n \in Msgs \ {m} : /\ Live(n)' <=> Live(n)
                            /\ AcksOf(n)' = AcksOf(n)
  BY <1>3 DEF Live, AcksOf, Ack
<1>5. AcksOf(m)' = {a}
  <2>1. AcksOf(m)' = {Ack(m, b) : b \in 0..0}
    BY <1>3 DEF AcksOf, Ack
  <2>2. \A b : b \in 0..0 <=> b = 0
    OBVIOUS
  <2> QED
    BY <2>1, <2>2 DEF a
<1>6. \A h \in AckHashes : h # a => pendingAcks'[h] = pendingAcks[h]
  BY <1>1, <1>2
<1>7. pendingAcks'[a] = m
  BY <1>1, <1>2
<1>8. OrderOfAttempts'
  <2> SUFFICES ASSUME NEW h \in ToSet(pendingOrder)
               PROVE  \E n \in Msgs : Live(n)' /\ pc'[n] # "append" /\ h \in AcksOf(n)'
    BY <1>1 DEF OrderOfAttempts
  <2>1. PICK n \in Msgs : Live(n) /\ pc[n] # "append" /\ h \in AcksOf(n)
    BY <1>2 DEF OrderOfAttempts
  <2>2. n # m
    BY <1>1, <2>1 DEF Live
  <2> QED
    BY <1>3, <1>4, <2>1, <2>2
<1>9. ASSUME NEW n \in Msgs, NEW h \in AckHashes, Alone(h, n)'
      PROVE  Counted(h)' /\ Found(h, n)'
  <2>1. CASE n = m
    <3>1. h = a
      BY <1>5, <1>9, <2>1 DEF Alone
    <3>2. h \notin ToSet(pendingOrder)
      <4>1. ASSUME NEW k \in Msgs, Live(k), pc[k] # "append", h \in AcksOf(k) PROVE FALSE
        <5>1. k # m
          BY <1>1, <4>1 DEF Live
        <5>2. pc'[k] \notin {"idle", "tx"} /\ h \in AcksOf(k)'
          BY <1>3, <1>4, <4>1, <5>1 DEF Live
        <5> QED
          BY <1>9, <2>1, <5>1, <5>2 DEF Alone, Shared
      <4> QED
        BY <1>2, <4>1 DEF OrderOfAttempts
    <3>3. Counted(h)'
      <4>1. \A i \in 1..Len(pendingOrder') : pendingOrder'[i] # h
        BY <1>1, <1>2, <3>2 DEF ToSet, IInv, TypeOK
      <4> QED
        BY <4>1 DEF Counted
    <3> QED
      BY <1>7, <2>1, <3>1, <3>3 DEF Found
  <2>2. CASE n # m
    <3>1. Live(n) /\ h \in AcksOf(n)
      BY <1>4, <1>9, <2>2 DEF Alone
    <3>2. Counted(h) /\ Found(h, n)
      BY <1>2, <1>9, <3>1, AloneBefore DEF ExpectInv
    <3>3. h # a
      <4>1. pc'[m] \notin {"idle", "tx"} /\ a \in AcksOf(m)'
        BY <1>3, <1>5
      <4> QED
        BY <1>9, <2>2, <4>1 DEF Alone, Shared
    <3>4. Counted(h)'
      BY <1>1, <3>2 DEF Counted
    <3>5. Overtaken(h)' <=> Overtaken(h)
      BY <1>1 DEF Overtaken
    <3> QED
      BY <1>1, <1>3, <1>6, <2>2, <3>2, <3>3, <3>4, <3>5 DEF Found
  <2> QED
    BY <2>1, <2>2
<1>10. AckHashes' = AckHashes
  BY DEF AckHashes, Ack
<1> QED
  BY <1>8, <1>9, <1>10 DEF ExpectInv

\* Something enters the order: every hash in it is counted again.
LEMMA CountedAppends ==
  ASSUME IInv, NEW a \in AckHashes, NEW h \in AckHashes, h # a,
         NEW order, order = Append(pendingOrder, a),
         later' = Newer(later, a, MAX_PENDING), Counted(h)
  PROVE  /\ \A i \in 1..Len(order) :
              order[i] = h => later'[h] = MAX_PENDING \/ later'[h] >= Len(order) - i
         /\ later'[h] \in Nat /\ (later[h] = MAX_PENDING => later'[h] = MAX_PENDING)
<1>1. /\ pendingOrder \in Seq(AckHashes) /\ later \in [AckHashes -> 0..MAX_PENDING]
      /\ MAX_PENDING \in Nat \ {0} /\ Len(pendingOrder) \in Nat
  BY SenderAssumption DEF IInv, TypeOK, Counts
<1>2. /\ Len(order) = Len(pendingOrder) + 1
      /\ order[Len(pendingOrder) + 1] = a
      /\ \A i \in 1..Len(pendingOrder) : order[i] = pendingOrder[i]
  BY <1>1, AppendFacts
<1>3. /\ later' \in [AckHashes -> 0..MAX_PENDING]
      /\ later[h] = MAX_PENDING => later'[h] = MAX_PENDING
      /\ later[h] # MAX_PENDING => later'[h] = later[h] + 1
  BY <1>1, NewerFacts
<1>4. later[h] \in Nat /\ later'[h] \in Nat
  BY <1>1, <1>3
<1>5. ASSUME NEW i \in 1..Len(order), order[i] = h
      PROVE  later'[h] = MAX_PENDING \/ later'[h] >= Len(order) - i
  <2>1. i \in 1..Len(pendingOrder) /\ pendingOrder[i] = h
    <3>1. i # Len(pendingOrder) + 1
      BY <1>2, <1>5
    <3> QED
      BY <1>1, <1>2, <1>5, <3>1
  <2>2. later[h] = MAX_PENDING \/ later[h] >= Len(pendingOrder) - i
    BY <2>1 DEF Counted
  <2> QED
    BY <1>1, <1>2, <1>3, <1>4, <2>1, <2>2
<1> QED
  BY <1>3, <1>4, <1>5

\* A send thread registers its attempt in the order.
LEMMA OrderAckExpects ==
  ASSUME ExpectInv, IInv', NEW m \in Msgs, OrderAck(m), [Next]_vars
  PROVE  ExpectInv'
<1> DEFINE a == Ack(m, 0)
<1>1. /\ pc[m] = "append"
      /\ pendingOrder' = Append(pendingOrder, a)
      /\ later' = Newer(later, a, MAX_PENDING)
      /\ pc' = [pc EXCEPT ![m] = IF Excess(pendingOrder') > 0 THEN "cut" ELSE "queue"]
      /\ UNCHANGED <<attempt, delivered, pendingAcks, hasty>>
  BY DEF OrderAck, msgVars
<1>2. /\ IInv /\ OrderOfAttempts /\ attempt \in [Msgs -> Attempts] /\ pc \in [Msgs -> Pcs]
      /\ pendingOrder \in Seq(AckHashes) /\ a \in AckHashes /\ a \in AcksOf(m)
      /\ attempt[m] = 0 /\ \A h \in AcksOf(m) : h = a
  BY <1>1, FirstAttempt DEF ExpectInv, IInv, TypeOK, FirstUntilSent
<1> HIDE DEF a
<1>3. /\ pc'[m] \in {"cut", "queue"} /\ \A n \in Msgs \ {m} : pc'[n] = pc[n]
      /\ \A n \in Msgs : AcksOf(n)' = AcksOf(n) /\ (Live(n)' <=> Live(n))
  <2>1. pc'[m] \in {"cut", "queue"} /\ \A n \in Msgs \ {m} : pc'[n] = pc[n]
    BY <1>1, <1>2
  <2>2. \A n \in Msgs : AcksOf(n)' = AcksOf(n)
    BY <1>1 DEF AcksOf, Ack
  <2>3. \A n \in Msgs : Live(n)' <=> Live(n)
    BY <1>1, <2>1 DEF Live
  <2> QED
    BY <2>1, <2>2, <2>3
<1>4. /\ Len(pendingOrder') = Len(pendingOrder) + 1 /\ Len(pendingOrder) \in Nat
      /\ pendingOrder'[Len(pendingOrder) + 1] = a
      /\ \A i \in 1..Len(pendingOrder) : pendingOrder'[i] = pendingOrder[i]
      /\ \A x : x \in ToSet(pendingOrder') <=> x \in ToSet(pendingOrder) \/ x = a
  BY <1>1, <1>2, AppendFacts
<1>5. OrderOfAttempts'
  <2> SUFFICES ASSUME NEW h \in ToSet(pendingOrder')
               PROVE  \E n \in Msgs : Live(n)' /\ pc'[n] # "append" /\ h \in AcksOf(n)'
    BY DEF OrderOfAttempts
  <2>1. CASE h = a
    BY <1>1, <1>2, <1>3, <2>1 DEF Live
  <2>2. CASE h \in ToSet(pendingOrder)
    <3>1. PICK n \in Msgs : Live(n) /\ pc[n] # "append" /\ h \in AcksOf(n)
      BY <1>2, <2>2 DEF OrderOfAttempts
    <3> QED
      BY <1>1, <1>3, <3>1
  <2> QED
    BY <1>4, <2>1, <2>2
<1>6. ASSUME NEW n \in Msgs, NEW h \in AckHashes, Alone(h, n)'
      PROVE  Counted(h)' /\ Found(h, n)'
  <2>1. Alone(h, n) /\ h \in AcksOf(n)
    BY <1>2, <1>3, <1>6, AloneBefore DEF Alone
  <2>2. Counted(h) /\ Found(h, n)
    BY <2>1 DEF ExpectInv
  <2>3. CASE h = a
    <3>1. n = m
      <4>1. pc[m] \notin {"idle", "tx"}
        BY <1>1
      <4> QED
        BY <1>2, <2>1, <2>3, <4>1 DEF Alone, Shared
    <3>2. h \notin ToSet(pendingOrder)
      BY <1>1, <1>2, <2>1, <3>1, NotYetInOrder
    <3>3. later'[h] = 0
      <4>1. later \in [AckHashes -> 0..MAX_PENDING] /\ MAX_PENDING \in Nat
        BY <1>2, SenderAssumption DEF IInv, TypeOK, Counts
      <4> QED
        BY <1>1, <1>2, <2>3, <4>1, NewerFacts
    <3>4. \A i \in 1..Len(pendingOrder) : pendingOrder[i] # h
      BY <1>2, <3>2 DEF ToSet
    <3>5. \A i \in 1..Len(pendingOrder') : pendingOrder'[i] = h => i = Len(pendingOrder')
      BY <1>4, <3>4
    <3>6. Counted(h)'
      BY <1>4, <3>3, <3>5 DEF Counted
    <3>7. n \in delivered \/ pendingAcks[h] = n
      BY <1>1, <2>2, <3>1 DEF Found
    <3> QED
      BY <1>1, <3>6, <3>7 DEF Found
  <2>4. CASE h # a
    <3>1. n # m
      BY <1>2, <2>1, <2>4
    <3>2. /\ \A i \in 1..Len(pendingOrder') :
               pendingOrder'[i] = h => later'[h] = MAX_PENDING \/ later'[h] >= Len(pendingOrder') - i
          /\ later'[h] \in Nat /\ (later[h] = MAX_PENDING => later'[h] = MAX_PENDING)
      BY <1>1, <1>2, <2>2, <2>4, CountedAppends
    <3>3. Counted(h)'
      BY <3>2 DEF Counted
    <3>4. Overtaken(h) => Overtaken(h)'
      BY <1>1, <3>2 DEF Overtaken
    <3> QED
      BY <1>1, <1>3, <2>2, <3>1, <3>3, <3>4 DEF Found
  <2> QED
    BY <2>3, <2>4
<1>7. AckHashes' = AckHashes
  BY DEF AckHashes, Ack
<1> QED
  BY <1>5, <1>6, <1>7 DEF ExpectInv

\* A send thread cuts the order.
LEMMA CutOrderExpects ==
  ASSUME ExpectInv, IInv', NEW m \in Msgs, CutOrder(m), [Next]_vars
  PROVE  ExpectInv'
<1>1. /\ pc[m] = "cut" /\ UNCHANGED <<attempt, delivered, later>>
      /\ IInv /\ OrderOfAttempts /\ pc \in [Msgs -> Pcs] /\ pendingOrder \in Seq(AckHashes)
      /\ pendingAcks \in [AckHashes -> Msgs \cup {NoMsg}]
  BY DEF CutOrder, msgVars, ackVars, orderVars, ExpectInv, IInv, TypeOK
<1>2. \A n \in Msgs : AcksOf(n)' = AcksOf(n)
  BY <1>1 DEF AcksOf, Ack
<1>3. CASE pendingOrder = <<>>
  <2>1. /\ pc' = [pc EXCEPT ![m] = "refused"]
        /\ UNCHANGED <<pendingAcks, pendingOrder, hasty>>
    BY <1>3 DEF CutOrder, ackVars, orderVars
  <2>2. pc'[m] = "refused" /\ \A n \in Msgs \ {m} : pc'[n] = pc[n]
    BY <1>1, <2>1
  <2>3. Part(pendingOrder', pendingOrder)
    BY <1>3, <2>1 DEF Part
  <2>4. \A n \in Msgs : /\ Live(n)' => Live(n)
                        /\ AcksOf(n)' = AcksOf(n)
                        /\ Live(n) /\ pc[n] # "append"
                             => (Live(n)' /\ pc'[n] # "append") \/ pendingOrder' = <<>>
    BY <1>2, <1>3, <2>1, <2>2 DEF Live
  <2>5. ASSUME NEW n \in Msgs, NEW h \in AckHashes, Alone(h, n), Found(h, n) PROVE Found(h, n)'
    <3>1. Overtaken(h)' <=> Overtaken(h)
      BY <1>1, <2>1 DEF Overtaken
    <3>2. pc[n] # "append" => pc'[n] # "append"
      BY <2>2
    <3> QED
      BY <1>1, <2>1, <2>5, <3>1, <3>2 DEF Found
  <2> QED
    BY <1>1, <2>3, <2>4, <2>5, ShortenStep
<1>4. CASE pendingOrder # <<>>
  <2> DEFINE first == Head(pendingOrder)
  <2>1. /\ pendingOrder' = Tail(pendingOrder)
        /\ pendingAcks' = WithoutAcks(pendingAcks, {first})
        /\ hasty' = IF Excess(pendingOrder) = 0 THEN hasty \cup {first} ELSE hasty
        /\ pc' = [pc EXCEPT ![m] = IF Excess(pendingOrder') > 0 THEN "cut" ELSE "queue"]
    BY <1>4 DEF CutOrder
  <2>2. /\ Part(pendingOrder', pendingOrder) /\ first = pendingOrder[1] /\ 1 \in 1..Len(pendingOrder)
        /\ first \in AckHashes /\ first \in ToSet(pendingOrder)
    BY <1>1, <1>4, <2>1, TailFacts DEF ToSet
  <2> HIDE DEF first
  <2>3. pc'[m] \in {"cut", "queue"} /\ \A n \in Msgs \ {m} : pc'[n] = pc[n]
    BY <1>1, <2>1
  <2>4. \A n \in Msgs : /\ Live(n)' => Live(n)
                        /\ AcksOf(n)' = AcksOf(n)
                        /\ Live(n) /\ pc[n] # "append"
                             => (Live(n)' /\ pc'[n] # "append") \/ pendingOrder' = <<>>
    BY <1>1, <1>2, <2>3 DEF Live
  <2>5. ASSUME NEW n \in Msgs, NEW h \in AckHashes, Alone(h, n), Found(h, n) PROVE Found(h, n)'
    <3>1. Counted(h)
      BY <2>5 DEF ExpectInv
    <3>2. Overtaken(h) => Overtaken(h)'
      BY <1>1, <2>1 DEF Overtaken
    <3>3. pc[n] # "append" => pc'[n] # "append"
      BY <1>1, <2>3
    <3>4. CASE h # first
      <4>1. pendingAcks'[h] = pendingAcks[h]
        BY <1>1, <2>1, <3>4 DEF WithoutAcks
      <4> QED
        BY <1>1, <2>5, <3>2, <3>3, <4>1 DEF Found
    <3>5. CASE h = first
      <4>1. pc[n] # "append"
        BY <1>1, <2>2, <2>5, <3>5, NotYetInOrder
      <4>2. Overtaken(h)'
        <5>1. CASE Excess(pendingOrder) = 0
          BY <2>1, <3>5, <5>1 DEF Overtaken
        <5>2. CASE Excess(pendingOrder) # 0
          <6>1. Len(pendingOrder) > MAX_PENDING /\ Len(pendingOrder) \in Nat
            BY <1>1, <5>2, ExcessFacts
          <6>2. later[h] = MAX_PENDING \/ later[h] >= Len(pendingOrder) - 1
            BY <2>2, <3>1, <3>5 DEF Counted
          <6>3. later[h] \in 0..MAX_PENDING
            BY <1>1 DEF IInv, TypeOK, Counts
          <6>4. later[h] = MAX_PENDING
            BY <6>1, <6>2, <6>3, SenderAssumption
          <6> QED
            BY <1>1, <6>4 DEF Overtaken
        <5> QED
          BY <5>1, <5>2
      <4> QED
        BY <3>3, <4>1, <4>2 DEF Found
    <3> QED
      BY <3>4, <3>5
  <2> QED
    BY <1>1, <2>2, <2>4, <2>5, ShortenStep
<1> QED
  BY <1>3, <1>4

\* A hash tells its attempt.
LEMMA AckTellsAttempt ==
  ASSUME NEW m \in Msgs, NEW a \in Attempts, NEW b \in Attempts, Ack(m, a) = Ack(m, b)
  PROVE  a = b
<1>1. a \in 0..3 /\ b \in 0..3
  BY SenderAssumption DEF Attempts
<1> QED
  BY <1>1 DEF Ack, AckHash, Flags

\* The worker registers a further attempt, and cuts the order to its cap.
LEMMA ResendExpects ==
  ASSUME ExpectInv, IInv', NEW m \in Msgs, Resend(m), [Next]_vars
  PROVE  ExpectInv'
<1> DEFINE b == attempt[m] + 1
           a == Ack(m, b)
<1>1. /\ m \in retries /\ pc[m] = "sent" /\ UNCHANGED <<pc, delivered>>
      /\ IInv /\ OrderOfAttempts /\ attempt \in [Msgs -> Attempts]
      /\ pendingOrder \in Seq(AckHashes)
      /\ pendingAcks \in [AckHashes -> Msgs \cup {NoMsg}]
      /\ retries \subseteq Msgs
  BY DEF Resend, threadVars, ExpectInv, IInv, ArmedIsSent, TypeOK
<1>2. /\ b \in Attempts /\ b \in Nat /\ attempt[m] \in Attempts /\ attempt[m] \in Nat
  BY <1>1, SenderAssumption DEF Resend, IsLastAttempt, Attempts
<1>3. a \in AckHashes
  BY <1>2, AttemptFacts
<1>4. /\ attempt' = [attempt EXCEPT ![m] = b]
      /\ RegisterPending(a, m)
  BY DEF Resend, TxDm, Encode
<1>5. /\ AcksOf(m)' = AcksOf(m) \cup {a}
      /\ \A n \in Msgs \ {m} : AcksOf(n)' = AcksOf(n)
  <2>1. AcksOf(m)' = {Ack(m, c) : c \in 0..b}
    BY <1>1, <1>4 DEF AcksOf, Ack
  <2>2. \A c : c \in 0..b <=> c \in 0..attempt[m] \/ c = b
    BY <1>2
  <2>3. AcksOf(m)' = AcksOf(m) \cup {a}
    BY <2>1, <2>2 DEF AcksOf
  <2>4. \A n \in Msgs \ {m} : AcksOf(n)' = AcksOf(n)
    BY <1>1, <1>4 DEF AcksOf, Ack
  <2> QED
    BY <2>3, <2>4
<1>6. a \notin AcksOf(m)
  <2> SUFFICES ASSUME NEW c \in 0..attempt[m], Ack(m, b) = Ack(m, c) PROVE FALSE
    BY DEF AcksOf
  <2>1. c \in Attempts /\ c # b
    BY <1>2, SenderAssumption DEF Attempts
  <2> QED
    BY <1>2, <2>1, AckTellsAttempt
<1> HIDE DEF b, a
<1> DEFINE order == Append(pendingOrder, a)
           k     == Excess(order)
           gone  == SubSeq(order, 1, k)
<1>7. /\ pendingOrder' = SubSeq(order, k + 1, Len(order))
      /\ pendingAcks' = WithoutAcks([pendingAcks EXCEPT ![a] = m], ToSet(gone))
      /\ later' = Newer(later, a, MAX_PENDING) /\ hasty' = hasty
  BY <1>4 DEF RegisterPending
<1>8. /\ order \in Seq(AckHashes) /\ Len(order) = Len(pendingOrder) + 1
      /\ Len(pendingOrder) \in Nat /\ MAX_PENDING \in Nat \ {0}
      /\ order[Len(pendingOrder) + 1] = a
      /\ \A i \in 1..Len(pendingOrder) : order[i] = pendingOrder[i]
      /\ \A x : x \in ToSet(order) <=> x \in ToSet(pendingOrder) \/ x = a
  BY <1>1, <1>3, AppendFacts, SenderAssumption
<1>9. order = Append(pendingOrder, a)
  OBVIOUS
<1> HIDE DEF order
<1>10. k \in 0..Len(order) /\ (k > 0 => k = Len(order) - MAX_PENDING)
  BY <1>8, ExcessFacts
<1> HIDE DEF k
<1>11. /\ pendingOrder' \in Seq(AckHashes) /\ Len(pendingOrder') = Len(order) - k
       /\ Part(pendingOrder', order)
       /\ \A x \in ToSet(gone) : \E i \in 1..k : x = order[i]
  BY <1>7, <1>8, <1>10, DropFacts
<1> HIDE DEF gone
<1>12. ToSet(pendingOrder') \subseteq ToSet(order)
  BY <1>8, <1>11, PartFacts
<1>13. OrderOfAttempts'
  <2> SUFFICES ASSUME NEW h \in ToSet(pendingOrder')
               PROVE  \E n \in Msgs : Live(n)' /\ pc'[n] # "append" /\ h \in AcksOf(n)'
    BY DEF OrderOfAttempts
  <2>1. CASE h = a
    BY <1>1, <1>5, <2>1 DEF Live
  <2>2. CASE h \in ToSet(pendingOrder)
    <3>1. PICK n \in Msgs : Live(n) /\ pc[n] # "append" /\ h \in AcksOf(n)
      BY <1>1, <2>2 DEF OrderOfAttempts
    <3> QED
      BY <1>1, <1>5, <3>1 DEF Live
  <2> QED
    BY <1>8, <1>12, <2>1, <2>2
<1>14. ASSUME NEW h \in AckHashes
       PROVE  /\ h \in ToSet(gone) => pendingAcks'[h] = NoMsg
              /\ h \notin ToSet(gone) => pendingAcks'[h] = IF h = a THEN m ELSE pendingAcks[h]
  BY <1>1, <1>3, <1>7 DEF WithoutAcks
<1>15. ASSUME NEW n \in Msgs, NEW h \in AckHashes, Alone(h, n)'
       PROVE  Counted(h)' /\ Found(h, n)'
  <2>1. CASE h = a
    <3>1. n = m
      <4>1. pc'[m] \notin {"idle", "tx"} /\ a \in AcksOf(m)'
        BY <1>1, <1>5
      <4> QED
        BY <1>15, <2>1, <4>1 DEF Alone, Shared
    <3>2. h \notin ToSet(pendingOrder)
      <4>1. ASSUME NEW l \in Msgs, Live(l), h \in AcksOf(l) PROVE FALSE
        <5>1. l # m
          BY <1>6, <2>1, <4>1
        <5>2. pc'[l] \notin {"idle", "tx"} /\ h \in AcksOf(l)'
          BY <1>1, <1>5, <4>1, <5>1 DEF Live
        <5> QED
          BY <1>15, <3>1, <5>1, <5>2 DEF Alone, Shared
      <4> QED
        BY <1>1, <4>1 DEF OrderOfAttempts
    <3>3. \A i \in 1..Len(pendingOrder) : pendingOrder[i] # h
      BY <1>1, <3>2 DEF ToSet
    <3>4. \A i \in 1..Len(order) : order[i] = h => i = Len(order)
      BY <1>8, <3>3
    <3>5. h \notin ToSet(gone)
      <4> SUFFICES ASSUME NEW i \in 1..k, h = order[i] PROVE FALSE
        BY <1>11
      <4>1. i \in 1..Len(order)
        BY <1>8, <1>10
      <4>2. i = Len(order)
        BY <3>4, <4>1
      <4> QED
        BY <1>8, <1>10, <4>2
    <3>6. later'[h] = 0
      <4>1. later \in [AckHashes -> 0..MAX_PENDING] /\ MAX_PENDING \in Nat
        BY <1>1, SenderAssumption DEF IInv, TypeOK, Counts
      <4> QED
        BY <1>3, <1>7, <2>1, <4>1, NewerFacts
    <3>7. Counted(h)'
      <4> SUFFICES ASSUME NEW j \in 1..Len(pendingOrder'), pendingOrder'[j] = h
                   PROVE  later'[h] >= Len(pendingOrder') - j
        BY DEF Counted
      <4>1. PICK i \in 1..Len(order) :
              pendingOrder'[j] = order[i] /\ Len(pendingOrder') - j <= Len(order) - i
        BY <1>11 DEF Part
      <4>2. i = Len(order)
        BY <3>4, <4>1
      <4> QED
        BY <1>8, <1>11, <3>6, <4>1, <4>2
    <3> QED
      BY <1>14, <2>1, <3>1, <3>5, <3>7 DEF Found
  <2>2. CASE h # a
    <3>1. Live(n) /\ h \in AcksOf(n)
      BY <1>1, <1>5, <1>15, <2>2 DEF Alone, Live
    <3>2. Alone(h, n)
      BY <1>1, <1>15, <3>1, AloneBefore
    <3>3. Counted(h) /\ Found(h, n)
      BY <3>2 DEF ExpectInv
    <3>4. /\ \A i \in 1..Len(order) :
               order[i] = h => later'[h] = MAX_PENDING \/ later'[h] >= Len(order) - i
          /\ later'[h] \in Nat /\ (later[h] = MAX_PENDING => later'[h] = MAX_PENDING)
      BY <1>1, <1>3, <1>7, <1>9, <2>2, <3>3, CountedAppends
    <3>5. Counted(h)'
      <4> SUFFICES ASSUME NEW j \in 1..Len(pendingOrder'), pendingOrder'[j] = h
                   PROVE  later'[h] = MAX_PENDING \/ later'[h] >= Len(pendingOrder') - j
        BY DEF Counted
      <4>1. PICK i \in 1..Len(order) :
              pendingOrder'[j] = order[i] /\ Len(pendingOrder') - j <= Len(order) - i
        BY <1>11 DEF Part
      <4>2. later'[h] = MAX_PENDING \/ later'[h] >= Len(order) - i
        BY <3>4, <4>1
      <4> QED
        BY <1>8, <1>10, <1>11, <3>4, <4>1, <4>2
    <3>6. Overtaken(h) => Overtaken(h)'
      BY <1>7, <3>4 DEF Overtaken
    <3>7. CASE h \notin ToSet(gone)
      BY <1>1, <1>14, <2>2, <3>3, <3>5, <3>6, <3>7 DEF Found
    <3>8. CASE h \in ToSet(gone)
      <4>1. PICK i \in 1..k : h = order[i]
        BY <1>11, <3>8
      <4>2. i \in 1..Len(order) /\ k = Len(order) - MAX_PENDING /\ i <= k
        BY <1>8, <1>10
      <4>3. later'[h] = MAX_PENDING \/ later'[h] >= Len(order) - i
        BY <3>4, <4>1, <4>2
      <4>4. later'[h] \in 0..MAX_PENDING
        BY DEF IInv, TypeOK, Counts
      <4>5. later'[h] = MAX_PENDING
        BY <1>8, <4>2, <4>3, <4>4
      <4>6. h \in ToSet(pendingOrder)
        <5>1. i # Len(pendingOrder) + 1
          BY <1>8, <2>2, <4>1
        <5>2. i \in 1..Len(pendingOrder) /\ pendingOrder[i] = h
          BY <1>8, <4>1, <4>2, <5>1
        <5> QED
          BY <1>1, <5>2 DEF ToSet
      <4>7. pc[n] # "append"
        BY <1>1, <3>2, <4>6, NotYetInOrder
      <4> QED
        BY <1>1, <3>5, <4>5, <4>7 DEF Found, Overtaken
    <3> QED
      BY <3>7, <3>8
  <2> QED
    BY <2>1, <2>2
<1>16. AckHashes' = AckHashes
  BY DEF AckHashes, Ack
<1> QED
  BY <1>13, <1>15, <1>16 DEF ExpectInv

\* An acknowledgement takes away the hashes of its own message only.
LEMMA AcknowledgeExpects ==
  ASSUME ExpectInv, IInv', NEW h, Acknowledge(h), UNCHANGED <<pc, attempt>>, [Next]_vars
  PROVE  ExpectInv'
<1>1. /\ IInv /\ TypeOK /\ PendingTracked /\ PendingWasSent /\ retries \subseteq Msgs /\ ArmedIsSent
      /\ pendingAcks \in [AckHashes -> Msgs \cup {NoMsg}]
  BY DEF ExpectInv, IInv, TypeOK
<1>2. Part(pendingOrder', pendingOrder) /\ UNCHANGED <<later, hasty>>
  BY <1>1, AcknowledgeFacts
<1>3. \A m \in Msgs : AcksOf(m)' = AcksOf(m) /\ (Live(m)' <=> Live(m))
  BY DEF AcksOf, Ack, Live
<1>4. \A x : Overtaken(x)' <=> Overtaken(x)
  BY <1>2 DEF Overtaken
<1>5. CASE ~(h \in AckHashes /\ pendingAcks[h] # NoMsg)
  BY <1>1, <1>4, <1>5, QuietStep DEF Acknowledge, ackVars, orderVars, Live
<1>6. CASE h \in AckHashes /\ pendingAcks[h] # NoMsg
  <2> DEFINE k == pendingAcks[h]
  <2>1. /\ k \in Msgs /\ Live(k) /\ h \in AcksOf(k)
        /\ delivered' = delivered \cup {k}
        /\ \A x \in AckHashes : x # h /\ x \notin AcksOf(k) => pendingAcks'[x] = pendingAcks[x]
    BY <1>1, <1>6 DEF Acknowledge, MarkDelivered, WithoutAcks, PendingWasSent, Live
  <2> HIDE DEF k
  <2>2. ASSUME NEW m \in Msgs, NEW x \in AckHashes, Alone(x, m), Found(x, m) PROVE Found(x, m)'
    <3>1. CASE m = k
      BY <2>1, <3>1 DEF Found
    <3>2. CASE m # k
      <4>1. x \notin AcksOf(k)
        BY <2>1, <2>2, <3>2 DEF Alone, Shared, Live
      <4>2. pendingAcks'[x] = pendingAcks[x]
        BY <2>1, <4>1
      <4> QED
        BY <1>4, <2>1, <2>2, <4>2 DEF Found
    <3> QED
      BY <3>1, <3>2
  <2> QED
    BY <1>2, <1>3, <2>2, ShortenStep
<1> QED
  BY <1>5, <1>6

\* Every step keeps the hashes of the messages that are not delivered.
LEMMA ExpectStep == ExpectInv /\ [Next]_vars => ExpectInv'
<1> SUFFICES ASSUME ExpectInv, [Next]_vars PROVE ExpectInv'
  OBVIOUS
<1> USE DEF threadVars, msgVars, ackVars, orderVars
<1>1. IInv' /\ pc \in [Msgs -> Pcs] /\ pc' \in [Msgs -> Pcs]
  BY NextIInv DEF ExpectInv, IInv, TypeOK
<1>2. ASSUME NEW m \in Msgs, SendDm(m) \/ QueueTx(m) \/ AddDm(m) \/ Arm(m) PROVE ExpectInv'
  <2>1. /\ pc[m] \in {"idle", "tx", "refused"} <=> pc'[m] \in {"idle", "tx", "refused"}
        /\ pc[m] # "append" /\ pc'[m] # "append"
        /\ \A n \in Msgs \ {m} : pc'[n] = pc[n]
    BY <1>1, <1>2 DEF SendDm, QueueTx, AddDm, Arm
  <2>2. \A n \in Msgs : /\ Live(n)' <=> Live(n)
                        /\ Live(n) => (pc'[n] = "append" <=> pc[n] = "append")
    BY <2>1 DEF Live
  <2> QED
    BY <1>1, <1>2, <2>2, QuietStep DEF SendDm, QueueTx, AddDm, Arm
<1>3. ASSUME UNCHANGED <<pc, attempt, delivered, ackVars>>
      PROVE  ExpectInv'
  BY <1>1, <1>3, QuietStep DEF Live
<1>4. ASSUME NEW h, Acknowledge(h), UNCHANGED <<pc, attempt>> PROVE ExpectInv'
  BY <1>1, <1>4, AcknowledgeExpects
<1>5. ASSUME NEW pkt, HandleAck(pkt) \/ HandlePath(pkt) PROVE ExpectInv'
  <2>1. CASE Acknowledge(pkt.ack)
    BY <1>4, <1>5, <2>1 DEF HandleAck, HandlePath
  <2>2. CASE ~Acknowledge(pkt.ack)
    BY <1>3, <1>5, <2>2 DEF HandleAck, HandlePath
  <2> QED
    BY <2>1, <2>2
<1> QED
  BY <1>1, <1>2, <1>3, <1>5, FirstTxExpects, OrderAckExpects, CutOrderExpects, ResendExpects
  DEF Next, LocalNext, SendThread, RetryTick, GiveUp, Transmit, AddContact, RemoveContact, vars

\* A message that is retried is found by the acknowledgement of any of its
\* attempts (_tx_dm), through everything other messages register and take out,
\* unless the cap has reached the hash, or another message has it too.
THEOREM AttemptsAreExpected == Spec => []EveryAttemptIsExpected
<1>1. Init => ExpectInv
  BY InitIInv DEF Init, ExpectInv, OrderOfAttempts, Alone, Live, ToSet
<1>2. ExpectInv => EveryAttemptIsExpected
  <2> SUFFICES ASSUME ExpectInv, NEW m \in retries \ delivered, NEW h \in AcksOf(m), ~Shared(h, m)
               PROVE  pendingAcks[h] = m \/ Overtaken(h)
    BY DEF EveryAttemptIsExpected
  <2>1. m \in Msgs /\ pc[m] = "sent" /\ attempt[m] \in Attempts
    BY DEF ExpectInv, IInv, TypeOK, ArmedIsSent
  <2>2. h \in AckHashes
    <3>1. \A a \in 0..attempt[m] : a \in Attempts
      BY <2>1, SenderAssumption DEF Attempts
    <3> QED
      BY <2>1, <3>1, AttemptFacts DEF AcksOf
  <2>3. Alone(h, m)
    BY <2>1 DEF Alone, Live
  <2> QED
    BY <2>1, <2>2, <2>3 DEF ExpectInv, Found
<1> QED
  BY <1>1, <1>2, ExpectStep, PTL DEF Spec

-----------------------------------------------------------------------------
(* The exchange.                                                           *)

\* An acknowledgement tells which message it is of: no two messages have the
\* same text and second. (DmLink, known limits: otherwise one's acknowledgement
\* marks the other.)
DistinctMessages ==
  \A m, n \in Msgs : Text[m] = Text[n] /\ Stamp[m] = Stamp[n] => m = n

\* A message that was sent stays sent.
LEMMA SentStays ==
  ASSUME [Next]_vars, TypeOK
  PROVE  Sent \subseteq Sent'
BY DEF Next, LocalNext, SendThread, SendDm, FirstTx, OrderAck, CutOrder, QueueTx, AddDm, Arm, RetryTick,
       Resend, GiveUp, Transmit, AddContact, RemoveContact, HandleAck, HandlePath, vars, threadVars, Sent,
       TypeOK, Pcs

\* A hash tells its message.
LEMMA AckTells ==
  ASSUME DistinctMessages, NEW m \in Msgs, NEW n \in Msgs, NEW a, NEW b, Ack(m, a) = Ack(n, b)
  PROVE  m = n
BY DEF Ack, AckHash, DistinctMessages

\* What is on its way in either direction.
AcksTyped  == acks \subseteq AckPackets \cup PathPackets
QueuedSent == \A i \in DOMAIN txQueue : txQueue[i].msg \in Sent
AirSent    == air \subseteq TxtPackets /\ \A pkt \in air : pkt.msg \in Sent

\* What the recipients have been shown, and what follows of it.
ShownSent   == \A m \in Msgs : shown[m] > 0 => m \in Sent
RecentShown == \A m \in Msgs : recent[To[m]][Text[m]] = Stamp[m] => shown[m] > 0
AcksShown   == \A ack \in acks : \A m \in Msgs, a \in Attempts :
                 ack.ack = Ack(m, a) => shown[m] > 0

TravelInv == QueuedSent /\ AirSent
ShownInv  == ShownSent /\ RecentShown /\ AcksShown

\* What holds of both sides and of the packets between them, and with it what
\* holds as long as the messages are told apart.
BaseInv == IInv /\ Device!IInv /\ AcksTyped /\ TravelInv
LinkInv == BaseInv /\ ShownInv /\ DeliveredWasShown

-----------------------------------------------------------------------------
(* The recipients.                                                         *)

\* The recipients start as on their own.
LEMMA DeviceInit == LinkInit => Device!Init
BY DEF LinkInit, Receiver!Init, Device!Init, Receiver!Texts, Device!Texts

\* The two instances of the recipients mean the same.
LEMMA SameMemory ==
  /\ \A p, h : Receiver!Hear(p, h) = Device!Hear(p, h)
  /\ \A p, t, ts : Receiver!NoteRecent(p, t, ts) <=> Device!NoteRecent(p, t, ts)
  /\ \A m : Receiver!Show(m) <=> Device!Show(m)
BY DEF Receiver!Hear, Device!Hear, Receiver!Remember, Device!Remember, Receiver!Push, Device!Push,
       Receiver!ToSet, Device!ToSet, Receiver!NoteRecent, Device!NoteRecent,
       Receiver!Evicted, Device!Evicted, Receiver!Texts, Device!Texts,
       Receiver!Newer, Device!Newer, Receiver!Show, Device!Show, Receiver!SameText, Device!SameText

\* They answer the same, with what the sender waits for.
LEMMA SameAnswer ==
  /\ \A m, a : Receiver!Ack(m, a) = Ack(m, a) /\ Device!Ack(m, a) = Ack(m, a)
  /\ \A m, a : Receiver!TxtHash(m, a) = TxtHash(m, a) /\ Device!TxtHash(m, a) = TxtHash(m, a)
  /\ \A p, pkt, path, n : Receiver!Answer(p, pkt, path, n) = Device!Answer(p, pkt, path, n)
BY DEF Ack, Receiver!Ack, Device!Ack, AckHash, Receiver!AckHash, Device!AckHash, Flags,
       Receiver!Flags, Device!Flags, TxtHash, Receiver!TxtHash, Device!TxtHash,
       Receiver!Answer, Device!Answer, Receiver!HasRoute, Device!HasRoute

\* And their steps are the same.
LEMMA SameSteps ==
  /\ \A p, pkt, path, n : Receiver!Receive(p, pkt, path, n) => Device!Receive(p, pkt, path, n)
  /\ \A p, t : Receiver!HearOther(p, t) => Device!HearOther(p, t)
  /\ \A p, entry : Receiver!ChangeBack(p, entry) => Device!ChangeBack(p, entry)
<1>1. \A p, pkt, path, n : Receiver!Receive(p, pkt, path, n) => Device!Receive(p, pkt, path, n)
  BY SameMemory, SameAnswer
  DEF Receiver!Receive, Device!Receive, Receiver!IsNewTo, Device!IsNewTo, Receiver!IsResend,
      Device!IsResend, Receiver!memory, Device!memory,
      Receiver!Remember, Device!Remember, Receiver!Push, Device!Push, Receiver!ToSet, Device!ToSet
<1>2. \A p, t : Receiver!HearOther(p, t) => Device!HearOther(p, t)
  BY SameMemory
  DEF Receiver!HearOther, Device!HearOther, Receiver!OtherHash, Device!OtherHash,
      Receiver!ToSet, Device!ToSet
<1>3. \A p, entry : Receiver!ChangeBack(p, entry) => Device!ChangeBack(p, entry)
  BY DEF Receiver!ChangeBack, Device!ChangeBack, Receiver!memory, Device!memory
<1> QED
  BY <1>1, <1>2, <1>3

\* A step of the link is a step of a recipient, or leaves all of them alone.
LEMMA DeviceStep ==
  ASSUME AirSent, [LinkNext]_linkVars
  PROVE  [Device!Next]_(Device!vars)
<1>1. ASSUME UNCHANGED receiverVars
      PROVE  UNCHANGED Device!vars
  BY <1>1 DEF receiverVars, Device!vars, Device!memory
<1>2. ASSUME NEW pkt \in air, Reach(pkt)
      PROVE  Device!Next
  <2>1. PICK n \in Nonces, path \in Receiver!ArrivesWith(pkt) :
          Receiver!Receive(To[pkt.msg], pkt, path, n)
    BY <1>2 DEF Reach
  <2>2. path \in Device!ArrivesWith(pkt) /\ pkt \in Device!TxtPackets /\ To[pkt.msg] \in Peers
    BY SenderAssumption
    DEF AirSent, TxtPackets, Device!TxtPackets, Attempts, Device!Attempts, Paths, Device!Paths,
        Device!ArrivesWith, Receiver!ArrivesWith, Receiver!Paths
  <2> QED
    BY <2>1, <2>2, SameSteps DEF Device!Next
<1>3. ASSUME RecipientStep \/ RecipientHears
      PROVE  Device!Next
  BY <1>3, SameSteps
  DEF RecipientStep, RecipientHears, Device!Next, ContactEntries, Device!ContactEntries, Paths,
      Device!Paths
<1> QED
  BY <1>1, <1>2, <1>3
  DEF LinkNext, linkVars, SenderThread, SenderRetries, SenderEdits, Radiate, ReachBack

-----------------------------------------------------------------------------
(* The sender.                                                             *)

\* A step of the link is a step of the sender, or leaves it alone.
LEMMA SenderStep ==
  ASSUME AcksTyped, [LinkNext]_linkVars
  PROVE  [Next]_vars
<1>1. ASSUME NEW pkt \in acks, ReachBack(pkt)
      PROVE  Next
  <2>1. pkt.kind = "ACK" => pkt \in AckPackets
    BY DEF AcksTyped, PathPackets
  <2>2. pkt.kind # "ACK" => pkt \in PathPackets
    BY DEF AcksTyped, AckPackets
  <2> QED
    BY <1>1, <2>1, <2>2 DEF ReachBack, Next
<1>2. ASSUME SenderEdits
      PROVE  Next
  BY <1>2, EditableAssumption DEF SenderEdits, Next, LocalNext
<1> QED
  BY <1>1, <1>2
  DEF LinkNext, linkVars, SenderThread, SenderRetries, Radiate, Reach, RecipientStep,
      RecipientHears, Next, LocalNext

\* Recipients answer with acknowledgements of what they were sent.
LEMMA AcksStayTyped ==
  ASSUME AcksTyped, AirSent, [LinkNext]_linkVars
  PROVE  AcksTyped'
<1>1. ASSUME NEW pkt \in air, Reach(pkt)
      PROVE  AcksTyped'
  <2>1. PICK n \in Nonces, path \in Receiver!ArrivesWith(pkt) :
          Receiver!Receive(To[pkt.msg], pkt, path, n)
    BY <1>1 DEF Reach
  <2>2. pkt \in TxtPackets /\ To[pkt.msg] \in Peers /\ path \in Paths
    BY SenderAssumption DEF AirSent, TxtPackets, Receiver!ArrivesWith, Paths, Receiver!Paths
  <2>3. Receiver!Ack(pkt.msg, pkt.attempt) \in AckHashes
    BY <2>2, SameAnswer DEF TxtPackets, AckHashes
  <2>4. Receiver!Answer(To[pkt.msg], pkt, path, n) \in AckPackets \cup PathPackets
    BY <2>2, <2>3 DEF Receiver!Answer, AckPackets, PathPackets
  <2> QED
    BY <2>1, <2>4 DEF Receiver!Receive, AcksTyped
<1>2. ASSUME UNCHANGED acks
      PROVE  AcksTyped'
  BY <1>2 DEF AcksTyped
<1> QED
  BY <1>1, <1>2
  DEF LinkNext, linkVars, receiverVars, SenderThread, SenderRetries, SenderEdits, Radiate, ReachBack,
      RecipientStep, RecipientHears, Receiver!ChangeBack, Receiver!HearOther

\* What waits for transmission is of messages that were sent.
LEMMA QueuedStays ==
  ASSUME IInv, QueuedSent, [Next]_vars
  PROVE  QueuedSent'
<1>1. TypeOK /\ txQueue \in Seq(TxtPackets)
  BY DEF IInv, TypeOK
<1>2. \A i \in DOMAIN txQueue : txQueue[i].msg \in Sent'
  BY <1>1, SentStays DEF QueuedSent
<1>3. ASSUME UNCHANGED txQueue
      PROVE  QueuedSent'
  BY <1>2, <1>3 DEF QueuedSent
<1>4. ASSUME NEW m \in Sent', NEW a, NEW way, Enqueue(m, a, way)
      PROVE  QueuedSent'
  <2>1. PICK pkt : pkt.msg = m /\ txQueue' = Append(txQueue, pkt)
    BY <1>4 DEF Enqueue
  <2>2. \A i \in DOMAIN txQueue' :
           \/ i \in DOMAIN txQueue /\ txQueue'[i] = txQueue[i]
           \/ txQueue'[i] = pkt
    BY <1>1, <2>1
  <2> QED
    BY <1>2, <1>4, <2>1, <2>2 DEF QueuedSent
<1>5. ASSUME NEW m \in Msgs, QueueTx(m)
      PROVE  QueuedSent'
  <2>1. m \in Sent'
    BY <1>1, <1>5 DEF QueueTx, Sent, TypeOK
  <2> QED
    BY <1>4, <1>5, <2>1 DEF QueueTx
<1>6. ASSUME NEW m \in Msgs, Resend(m)
      PROVE  QueuedSent'
  <2>1. m \in Sent
    BY <1>1, <1>6 DEF Resend, IInv, ArmedIsSent, Sent
  <2> QED
    BY <1>1, <1>4, <1>6, <2>1, SentStays DEF Resend, TxDm
<1>7. ASSUME Transmit
      PROVE  QueuedSent'
  <2>1. txQueue # <<>> /\ txQueue' = Tail(txQueue)
    BY <1>7 DEF Transmit
  <2>2. \A i \in DOMAIN Tail(txQueue) : i + 1 \in DOMAIN txQueue /\ Tail(txQueue)[i] = txQueue[i + 1]
    BY <1>1, <2>1
  <2> QED
    BY <1>2, <2>1, <2>2 DEF QueuedSent
<1> QED
  BY <1>3, <1>5, <1>6, <1>7
  DEF Next, LocalNext, SendThread, SendDm, FirstTx, OrderAck, CutOrder, AddDm, Arm, RetryTick, GiveUp,
      AddContact, RemoveContact, HandleAck, HandlePath, vars

\* What travels is of messages that were sent.
LEMMA TravelStays ==
  ASSUME IInv, AcksTyped, TravelInv, [LinkNext]_linkVars
  PROVE  TravelInv'
<1>1. [Next]_vars /\ TypeOK
  BY SenderStep DEF IInv
<1>2. QueuedSent'
  BY <1>1, QueuedStays DEF TravelInv
<1>3. \A pkt \in air : pkt \in TxtPackets /\ pkt.msg \in Sent'
  BY <1>1, SentStays DEF TravelInv, AirSent
<1>4. ASSUME Radiate
      PROVE  AirSent'
  <2>1. txQueue # <<>> /\ txQueue \in Seq(TxtPackets)
    BY <1>1, <1>4 DEF Radiate, Transmit, TypeOK
  <2>2. 1 \in DOMAIN txQueue /\ Head(txQueue) = txQueue[1] /\ Head(txQueue) \in TxtPackets
    BY <2>1
  <2>3. Head(txQueue).msg \in Sent'
    BY <1>1, <2>2, SentStays DEF TravelInv, QueuedSent
  <2> QED
    BY <1>3, <1>4, <2>2, <2>3 DEF Radiate, AirSent
<1>5. ASSUME UNCHANGED air
      PROVE  AirSent'
  BY <1>3, <1>5 DEF AirSent
<1> QED
  BY <1>2, <1>4, <1>5
  DEF TravelInv, LinkNext, linkVars, SenderThread, SenderRetries, SenderEdits, Reach, ReachBack,
      RecipientStep, RecipientHears

\* They hold at first, and every step of the link keeps them.
LEMMA BaseInit == LinkInit => BaseInv
<1> SUFFICES ASSUME LinkInit PROVE BaseInv
  OBVIOUS
<1>1. IInv
  BY InitIInv DEF LinkInit
<1>2. Device!IInv
  BY DeviceInit, DeviceAssumption, Device!InitOK, PathAssumption
<1>3. acks = {} /\ air = {} /\ txQueue = <<>>
  BY DEF LinkInit, Receiver!Init, Init
<1> QED
  BY <1>1, <1>2, <1>3 DEF BaseInv, AcksTyped, TravelInv, QueuedSent, AirSent

LEMMA BaseStep == BaseInv /\ [LinkNext]_linkVars => BaseInv'
<1> SUFFICES ASSUME BaseInv, [LinkNext]_linkVars PROVE BaseInv'
  OBVIOUS
<1>1. IInv'
  BY SenderStep, NextIInv DEF BaseInv
<1>2. Device!IInv'
  BY DeviceStep, DeviceAssumption, Device!StepOK, PathAssumption DEF BaseInv, TravelInv
<1>3. AcksTyped' /\ TravelInv'
  BY AcksStayTyped, TravelStays DEF BaseInv, TravelInv
<1> QED
  BY <1>1, <1>2, <1>3 DEF BaseInv

-----------------------------------------------------------------------------
(* Both sides behave within the link as they do on their own: what is       *)
(* proved of them there holds here.                                        *)

\* What both sides and the packets between them keep to.
THEOREM BaseIsInvariant == LinkSpec => []BaseInv
BY BaseInit, BaseStep, PTL DEF LinkSpec

\* The sender of the link is DmSender.
THEOREM LinkHasSender == LinkSpec => Spec
<1>1. LinkInit => Init
  BY DEF LinkInit
<1>2. BaseInv /\ [LinkNext]_linkVars => [Next]_vars
  BY SenderStep DEF BaseInv
<1> QED
  BY <1>1, <1>2, BaseIsInvariant, PTL DEF LinkSpec, Spec

\* The recipients of the link are DmReceiver.
THEOREM LinkHasRecipients == LinkSpec => Device!Spec
<1>1. BaseInv /\ [LinkNext]_linkVars => [Device!Next]_(Device!vars)
  BY DeviceStep DEF BaseInv, TravelInv
<1> QED
  BY <1>1, DeviceInit, BaseIsInvariant, PTL DEF LinkSpec, Device!Spec

\* The two memories of what was shown hold the same texts on every recipient,
\* whatever arrives there (_dup_message).
THEOREM LinkTracksRecent == LinkSpec => []RecentTracked
<1>1. Device!Spec => []Device!RecentTracked
  BY DeviceAssumption, Device!RecentIsTracked, PathAssumption
<1>2. Device!RecentTracked => RecentTracked
  <2>1. \A S : Receiver!Cardinality(S) = Device!Cardinality(S)
    BY DEF Receiver!Cardinality, Device!Cardinality
  <2> QED
    BY <2>1
    DEF Device!RecentTracked, RecentTracked, Receiver!RecentTracked, Device!Texts, Receiver!Texts,
        Device!ToSet, Receiver!ToSet
<1> QED
  BY <1>1, <1>2, LinkHasRecipients, PTL

\* Every copy of an attempt that a recipient takes in from a contact is
\* acknowledged (_handle_dm).
THEOREM LinkAcksCopies == LinkSpec => EveryCopyIsAcked
<1>1. Device!Spec => Device!EveryCopyIsAcked
  BY DeviceAssumption, Device!CopiesAreAcked, PathAssumption
<1> DEFINE DeviceAcks   == \A m \in Msgs, a \in Device!Attempts :
                             /\ Device!TxtHash(m, a)
                                  \in Device!ToSet(heard'[To[m]]) \ Device!ToSet(heard[To[m]])
                             /\ back[To[m]] # Absent
                             => \E ack \in acks' : ack.ack = Device!Ack(m, a)
           ReceiverAcks == \A m \in Msgs, a \in Receiver!Attempts :
                             /\ Receiver!TxtHash(m, a)
                                  \in Receiver!ToSet(heard'[To[m]]) \ Receiver!ToSet(heard[To[m]])
                             /\ back[To[m]] # Absent
                             => \E ack \in acks' : ack.ack = Receiver!Ack(m, a)
<1>2. [DeviceAcks]_(Device!vars) => [ReceiverAcks]_(Receiver!vars)
  <2>1. DeviceAcks => ReceiverAcks
    BY SameAnswer DEF Device!Attempts, Receiver!Attempts, Device!ToSet, Receiver!ToSet
  <2>2. UNCHANGED Device!vars => UNCHANGED Receiver!vars
    BY DEF Device!vars, Receiver!vars, Device!memory, Receiver!memory
  <2> QED
    BY <2>1, <2>2
<1>3. Device!EveryCopyIsAcked => EveryCopyIsAcked
  BY <1>2, PTL DEF Device!EveryCopyIsAcked, EveryCopyIsAcked, Receiver!EveryCopyIsAcked
<1> QED
  BY <1>1, <1>3, LinkHasRecipients, PTL

\* A message is shown a second time within the link only when its recipient had
\* to forget it (_dup_message): nothing the mesh loses, delays, reorders and
\* repeats, and no resend, does it otherwise.
THEOREM LinkShowsAgainIfForgotten == LinkSpec => ShownAgainIfForgotten
<1>1. Device!Spec => Device!ShownAgainIfForgotten
  BY DeviceAssumption, Device!MessageIsShownAgainIfForgotten, PathAssumption
<1> DEFINE Again == \A m \in Msgs :
                      shown[m] > 0 /\ shown'[m] > shown[m]
                      => m \in repeated \/ since[To[m]][Text[m]] >= MAX_RECENT
<1>2. [Again]_(Device!vars) => [Again]_(Receiver!vars)
  BY DEF Device!vars, Receiver!vars, Device!memory, Receiver!memory
<1>3. Device!ShownAgainIfForgotten => ShownAgainIfForgotten
  BY <1>2, PTL
  DEF Device!ShownAgainIfForgotten, ShownAgainIfForgotten, Receiver!ShownAgainIfForgotten
<1> QED
  BY <1>1, <1>3, LinkHasRecipients, PTL

\* A message that is retried within the link is found by the acknowledgement of
\* any of its attempts (_pending_acks), whatever has come back before, unless the
\* cap has reached the hash, or another message has it too.
THEOREM LinkExpectsAttempts == LinkSpec => []EveryAttemptIsExpected
BY AttemptsAreExpected, LinkHasSender, PTL

-----------------------------------------------------------------------------
(* What a recipient has been shown.                                        *)

\* What is remembered or acknowledged was shown, and of what was sent.
LEMMA ShownStays ==
  ASSUME DistinctMessages, BaseInv, ShownInv, [LinkNext]_linkVars
  PROVE  ShownInv' /\ \A m \in Msgs : shown[m] > 0 => shown'[m] > 0
<1>1. Sent \subseteq Sent'
  BY SenderStep, SentStays DEF BaseInv, IInv
<1>2. ShownInv /\ shown \in [Msgs -> 0..MAX_SHOWN] /\ MAX_SHOWN \in Nat \ {0, 1}
  BY DeviceAssumption DEF BaseInv, Device!IInv, Device!TypeOK, Device!ReceiverAssumption
<1>3. \A m \in Msgs : /\ To[m] \in Peers /\ Text[m] \in Device!Texts /\ Text[m] \notin Others
                      /\ Stamp[m] # NoStamp
  BY SenderAssumption, DeviceAssumption DEF Device!Texts, Device!ReceiverAssumption
<1>4. ASSUME UNCHANGED <<recent, shown, acks>>
      PROVE  ShownInv' /\ \A m \in Msgs : shown[m] > 0 => shown'[m] > 0
  BY <1>1, <1>4 DEF ShownInv, ShownSent, RecentShown, AcksShown
<1>5. ASSUME NEW pkt \in air, Reach(pkt)
      PROVE  ShownInv' /\ \A m \in Msgs : shown[m] > 0 => shown'[m] > 0
  <2>1. PICK n \in Nonces, path \in Receiver!ArrivesWith(pkt) :
          Device!Receive(To[pkt.msg], pkt, path, n)
    BY <1>5, SameSteps DEF Reach
  <2> DEFINE k      == pkt.msg
             p      == To[pkt.msg]
             answer == Device!Answer(p, pkt, path, n)
  <2>2. k \in Msgs /\ k \in Sent /\ p \in Peers
    BY <1>3 DEF BaseInv, TravelInv, AirSent, TxtPackets
  <2>3. answer.ack = Ack(k, pkt.attempt)
    BY SameAnswer DEF Device!Answer
  <2>4. CASE UNCHANGED Device!memory /\ acks' = acks
    BY <1>4, <2>4 DEF Device!memory
  <2>5. CASE /\ acks' = acks \cup {answer}
             /\ \/ UNCHANGED Device!memory /\ Device!IsResend(p, k)
                \/ Device!NoteRecent(p, Text[k], Stamp[k]) /\ Device!Show(k)
    <3>1. \A m \in Msgs : shown[m] > 0 => shown'[m] > 0
      BY <1>2, <2>2, <2>5 DEF Device!memory, Device!Show
    <3>2. shown'[k] > 0
      <4>1. Device!IsResend(p, k) => shown[k] > 0
        BY <1>2, <2>2 DEF ShownInv, RecentShown, Device!IsResend
      <4>2. Device!Show(k) => shown'[k] > 0
        BY <1>2, <2>2 DEF Device!Show
      <4> QED
        BY <2>2, <2>5, <3>1, <4>1, <4>2
    <3>3. \A m \in Msgs : m # k => shown'[m] = shown[m]
      BY <1>2, <2>2, <2>5 DEF Device!memory, Device!Show
    <3>4. ShownSent'
      BY <1>1, <1>2, <2>2, <3>3 DEF ShownInv, ShownSent
    <3>5. AcksShown'
      <4> SUFFICES ASSUME NEW ack \in acks', NEW m \in Msgs, NEW a \in Attempts,
                          ack.ack = Ack(m, a)
                   PROVE  shown'[m] > 0
        BY DEF AcksShown
      <4>1. CASE ack \in acks
        BY <1>2, <3>1, <4>1 DEF ShownInv, AcksShown
      <4>2. CASE ack = answer
        <5>1. m = k
          BY <2>2, <2>3, <4>2, AckTells
        <5> QED
          BY <3>2, <5>1
      <4> HIDE DEF answer
      <4> QED
        BY <2>5, <4>1, <4>2
    <3>6. RecentShown'
      <4> SUFFICES ASSUME NEW m \in Msgs, recent'[To[m]][Text[m]] = Stamp[m]
                   PROVE  shown'[m] > 0
        BY DEF RecentShown
      <4>1. CASE recent'[To[m]][Text[m]] = recent[To[m]][Text[m]]
        BY <1>2, <3>1, <4>1 DEF ShownInv, RecentShown
      <4>2. CASE Text[m] = Text[k] /\ recent'[To[m]][Text[m]] = Stamp[k]
        <5>1. m = k
          BY <2>2, <4>2 DEF DistinctMessages
        <5> QED
          BY <3>2, <5>1
      <4>3. CASE recent' = recent
        BY <4>1, <4>3
      <4>4. CASE Device!NoteRecent(p, Text[k], Stamp[k])
        BY <1>3, <2>2, <4>1, <4>2, <4>4, Device!NoteChanges, PathAssumption DEF BaseInv
      <4> QED
        BY <2>5, <4>3, <4>4 DEF Device!memory
    <3> QED
      BY <3>1, <3>4, <3>5, <3>6 DEF ShownInv
  <2> QED
    BY <2>1, <2>4, <2>5 DEF Device!Receive
<1>6. ASSUME NEW p \in Peers, NEW t \in Others, Device!HearOther(p, t)
      PROVE  ShownInv' /\ \A m \in Msgs : shown[m] > 0 => shown'[m] > 0
  <2>1. t \in Device!Texts /\ shown' = shown /\ acks' = acks
    BY <1>6 DEF Device!HearOther, Device!Texts
  <2>2. ASSUME NEW m \in Msgs, recent'[To[m]][Text[m]] = Stamp[m]
        PROVE  recent[To[m]][Text[m]] = Stamp[m]
    <3>1. CASE recent' = recent
      BY <2>2, <3>1
    <3>2. CASE Device!NoteRecent(p, t, 0)
      BY <1>3, <2>1, <2>2, <3>2, Device!NoteChanges, PathAssumption DEF BaseInv
    <3> QED
      BY <1>6, <3>1, <3>2 DEF Device!HearOther
  <2> QED
    BY <1>1, <1>2, <2>1, <2>2 DEF ShownInv, ShownSent, RecentShown, AcksShown
<1>7. ASSUME RecipientHears
      PROVE  \E p \in Peers, t \in Others : Device!HearOther(p, t)
  BY <1>7, SameSteps DEF RecipientHears
<1> QED
  BY <1>4, <1>5, <1>6, <1>7
  DEF LinkNext, linkVars, receiverVars, SenderThread, SenderRetries, SenderEdits, Radiate, ReachBack,
      RecipientStep, Receiver!ChangeBack, Receiver!memory

-----------------------------------------------------------------------------
(* What the chat is told.                                                  *)

\* An acknowledgement marks a message it is an acknowledgement of.
LEMMA MarksItsOwn ==
  ASSUME IInv, NEW h, Acknowledge(h), delivered' # delivered
  PROVE  \E m \in Msgs : /\ delivered' = delivered \cup {m}
                         /\ \E a \in Attempts : h = Ack(m, a)
<1>1. h \in AckHashes /\ pendingAcks[h] # NoMsg /\ MarkDelivered(h)
  BY DEF Acknowledge
<1> DEFINE m == pendingAcks[h]
<1>2. m \in Msgs /\ h \in AcksOf(m) /\ attempt[m] \in Attempts
  BY <1>1 DEF IInv, TypeOK, PendingWasSent
<1>3. delivered' = delivered \cup {m}
  BY <1>1 DEF MarkDelivered
<1>4. PICK a \in 0..attempt[m] : h = Ack(m, a)
  BY <1>2 DEF AcksOf
<1>5. a \in Attempts
  BY <1>2, <1>4, SenderAssumption DEF Attempts
<1> QED
  BY <1>2, <1>3, <1>4, <1>5

\* The marks change nothing else when an acknowledgement comes back.
LEMMA DeliveryStep ==
  ASSUME LinkInv, NEW pkt \in acks, ReachBack(pkt)
  PROVE  /\ UNCHANGED <<failed, pc, shown>>
         /\ \/ UNCHANGED delivered
            \/ \E m \in Msgs : delivered' = delivered \cup {m} /\ m \in Sent /\ shown[m] > 0
<1>1. UNCHANGED <<failed, pc, shown>>
  BY DEF ReachBack, HandleAck, HandlePath, threadVars, receiverVars
<1>2. ASSUME delivered' # delivered
      PROVE  \E m \in Msgs : delivered' = delivered \cup {m} /\ m \in Sent /\ shown[m] > 0
  <2>1. Acknowledge(pkt.ack)
    BY <1>2 DEF ReachBack, HandleAck, HandlePath
  <2>2. PICK m \in Msgs : /\ delivered' = delivered \cup {m}
                          /\ \E a \in Attempts : pkt.ack = Ack(m, a)
    BY <1>2, <2>1, MarksItsOwn DEF LinkInv, BaseInv
  <2>3. shown[m] > 0 /\ m \in Sent
    BY <2>2 DEF LinkInv, ShownInv, AcksShown, ShownSent
  <2> QED
    BY <2>2, <2>3
<1> QED
  BY <1>1, <1>2

\* A check mark is set only for what was shown, and that stays shown.
LEMMA DeliveredStays ==
  ASSUME DistinctMessages, LinkInv, [LinkNext]_linkVars
  PROVE  DeliveredWasShown'
<1>1. /\ \A m \in Msgs : shown[m] > 0 => shown'[m] > 0
      /\ \A m \in delivered : m \in Msgs /\ shown[m] > 0
  BY ShownStays DEF LinkInv, DeliveredWasShown, BaseInv, IInv, TypeOK
<1>2. ASSUME NEW pkt \in acks, ReachBack(pkt)
      PROVE  DeliveredWasShown'
  BY <1>1, <1>2, DeliveryStep DEF DeliveredWasShown
<1>3. ASSUME UNCHANGED delivered
      PROVE  DeliveredWasShown'
  BY <1>1, <1>3 DEF DeliveredWasShown
<1> QED
  BY <1>2, <1>3
  DEF LinkNext, linkVars, vars, msgVars, SenderThread, SendThread, SendDm, FirstTx, OrderAck, CutOrder,
      QueueTx, AddDm, Arm, SenderRetries, RetryTick, Resend, GiveUp, SenderEdits, AddContact,
      RemoveContact, Radiate, Transmit, Reach, RecipientStep, RecipientHears

\* The whole invariant holds at first, and every step keeps it.
LEMMA LinkInvInit == LinkInit => LinkInv
<1>1. LinkInit => /\ BaseInv /\ acks = {} /\ delivered = {} /\ shown = [m \in Msgs |-> 0]
                  /\ recent = [p \in Peers |-> [t \in Receiver!Texts |-> NoStamp]]
  BY BaseInit DEF LinkInit, Receiver!Init, Init
<1>2. \A m \in Msgs : To[m] \in Peers /\ Text[m] \in Receiver!Texts /\ Stamp[m] # NoStamp
  BY SenderAssumption, RecipientAssumption DEF Receiver!ReceiverAssumption, Receiver!Texts
<1> QED
  BY <1>1, <1>2 DEF LinkInv, ShownInv, ShownSent, RecentShown, AcksShown, DeliveredWasShown

LEMMA LinkInvStep ==
  ASSUME DistinctMessages
  PROVE  LinkInv /\ [LinkNext]_linkVars => LinkInv'
BY BaseStep, ShownStays, DeliveredStays DEF LinkInv

\* Both sides, what travels between them, what was shown and what is marked fit
\* together in every reachable state.
THEOREM LinkInvIsInvariant == ASSUME DistinctMessages PROVE LinkSpec => []LinkInv
BY LinkInvInit, LinkInvStep, PTL DEF LinkSpec

\* A check mark in the chat is true: the message was shown to its recipient.
THEOREM CheckMarkIsTrue == ASSUME DistinctMessages PROVE LinkSpec => []DeliveredWasShown
BY LinkInvIsInvariant, PTL DEF LinkInv

-----------------------------------------------------------------------------
(* The promise of the marks.                                               *)

\* What the chat shows, by what is known of the message.
MarkIs ==
  \A m \in Msgs :
    /\ m \in delivered => Mark(m) = "delivered"
    /\ m \notin delivered /\ m \in failed => Mark(m) = "failed"
    /\ m \notin delivered /\ m \notin failed /\ m \in Sent => Mark(m) = "sending"
    /\ m \notin delivered /\ m \notin failed /\ m \notin Sent => Mark(m) = "new"

\* In a state and in the next.
LEMMA MarkFacts == TypeOK => MarkIs
BY DEF TypeOK, MarkIs, Mark, Sent, Pcs

LEMMA MarkFactsNext == TypeOK' => MarkIs'
BY DEF TypeOK, MarkIs, Mark, Sent, Pcs

\* The marks and the messages that were shown, as the promise sees them.
Marks    == [m \in Msgs |-> Mark(m)]
Received == {m \in Msgs : shown[m] > 0}

\* At first nothing is marked and nothing was shown.
LEMMA PromiseInit == LinkInit => Promise!Init
<1> SUFFICES ASSUME LinkInit PROVE Promise!Init
  OBVIOUS
<1>1. /\ pc = [m \in Msgs |-> "idle"] /\ delivered = {} /\ failed = {}
      /\ shown = [m \in Msgs |-> 0]
  BY DEF LinkInit, Init, Receiver!Init
<1>2. \A m \in Msgs : Mark(m) = "new"
  BY <1>1 DEF Mark, Sent
<1> QED
  BY <1>1, <1>2 DEF Promise!Init

\* One mark changes.
LEMMA OneMark ==
  ASSUME NEW m \in Msgs, NEW mark, Mark(m)' = mark,
         \A n \in Msgs : n # m => Mark(n)' = Mark(n)
  PROVE  Marks' = [Marks EXCEPT ![m] = mark]
BY DEF Marks

\* A message was sent, or is given up.
LEMMA SendsOrGivesUp ==
  ASSUME LinkInv, LinkInv', NEW m \in Msgs, SendThread(m) \/ RetryTick(m), UNCHANGED shown
  PROVE  Promise!Send(m) \/ Promise!GiveUp(m) \/ UNCHANGED Promise!vars
<1>1. /\ MarkIs /\ MarkIs' /\ TypeOK /\ FailedAfterAllSends /\ ArmedIsSent
      /\ \A n \in delivered : shown[n] > 0 /\ n \in Sent
  BY MarkFacts, MarkFactsNext
  DEF LinkInv, BaseInv, IInv, DeliveredWasShown, ShownInv, ShownSent, TypeOK
<1>2. Received' = Received
  BY DEF Received
<1>3. CASE QueueTx(m)
  <2>1. /\ m \notin Sent /\ Sent' = Sent \cup {m} /\ delivered' = delivered /\ failed' = failed
    BY <1>1, <1>3 DEF QueueTx, msgVars, Sent, TypeOK
  <2>2. m \notin delivered /\ m \notin failed
    BY <1>1, <2>1 DEF FailedAfterAllSends, Sent
  <2>3. /\ Mark(m) = "new" /\ Mark(m)' = "sending"
        /\ \A n \in Msgs : n # m => Mark(n)' = Mark(n)
    BY <1>1, <2>1, <2>2 DEF MarkIs
  <2>4. Marks' = [Marks EXCEPT ![m] = "sending"]
    BY <2>3, OneMark
  <2> QED
    BY <1>2, <2>3, <2>4 DEF Promise!Send, Marks, Received
<1>4. CASE GiveUp(m)
  <2>1. /\ m \in Sent /\ Sent' = Sent /\ delivered' = delivered /\ failed' = failed \cup {m}
        /\ m \notin failed
    BY <1>1, <1>4 DEF GiveUp, Sent, threadVars, ArmedIsSent, FailedAfterAllSends
  <2>2. CASE m \in delivered
    <3>1. \A n \in Msgs : Mark(n)' = Mark(n)
      BY <1>1, <2>1, <2>2 DEF MarkIs
    <3>2. Marks' = Marks
      BY <3>1 DEF Marks
    <3> QED
      BY <1>2, <3>2 DEF Promise!vars, Marks, Received
  <2>3. CASE m \notin delivered
    <3>1. /\ Mark(m) = "sending" /\ Mark(m)' = "failed"
          /\ \A n \in Msgs : n # m => Mark(n)' = Mark(n)
      BY <1>1, <2>1, <2>3 DEF MarkIs
    <3>2. Marks' = [Marks EXCEPT ![m] = "failed"]
      BY <3>1, OneMark
    <3> QED
      BY <1>2, <3>1, <3>2 DEF Promise!GiveUp, Marks, Received
  <2> QED
    BY <2>2, <2>3
<1>5. CASE \/ SendDm(m) \/ FirstTx(m) \/ OrderAck(m) \/ CutOrder(m) \/ AddDm(m) \/ Arm(m)
           \/ Resend(m)
  <2>1. Sent' = Sent /\ delivered' = delivered /\ failed' = failed
    BY <1>1, <1>5
    DEF SendDm, FirstTx, OrderAck, CutOrder, AddDm, Arm, Resend, threadVars, msgVars, Sent, TypeOK
  <2>2. \A n \in Msgs : Mark(n)' = Mark(n)
    BY <1>1, <2>1 DEF MarkIs
  <2>3. Marks' = Marks
    BY <2>2 DEF Marks
  <2> QED
    BY <1>2, <2>3 DEF Promise!vars, Marks, Received
<1> QED
  BY <1>3, <1>4, <1>5 DEF SendThread, RetryTick

\* A message is shown to its recipient.
LEMMA Arrives ==
  ASSUME LinkInv, NEW pkt \in air, Reach(pkt)
  PROVE  (\E m \in Msgs : Promise!Receive(m)) \/ UNCHANGED Promise!vars
<1> DEFINE k == pkt.msg
<1>1. /\ k \in Msgs /\ k \in Sent /\ To[k] \in Peers
      /\ shown \in [Msgs -> 0..MAX_SHOWN] /\ MAX_SHOWN \in Nat \ {0, 1}
  BY SenderAssumption, DeviceAssumption
  DEF LinkInv, BaseInv, TravelInv, AirSent, TxtPackets, Device!IInv, Device!TypeOK,
      Device!ReceiverAssumption
<1>2. UNCHANGED <<pc, delivered, failed>>
  BY DEF Reach, vars, threadVars, msgVars
<1>3. \A m \in Msgs : Mark(m)' = Mark(m)
  BY <1>2 DEF Mark, Sent
<1>4. Marks' = Marks
  BY <1>3 DEF Marks
<1>5. Mark(k) # "new"
  BY <1>1, MarkFacts DEF LinkInv, BaseInv, IInv, MarkIs
<1>6. shown' = shown \/ Device!Show(k)
  <2>1. \E n \in Nonces, path \in Receiver!ArrivesWith(pkt) :
          Device!Receive(To[pkt.msg], pkt, path, n)
    BY SameSteps DEF Reach
  <2> QED
    BY <2>1 DEF Device!Receive, Device!memory
<1>7. CASE shown' = shown
  BY <1>4, <1>7 DEF Promise!vars, Marks
<1>8. CASE Device!Show(k)
  <2>1. Received' = Received \cup {k}
    BY <1>1, <1>8 DEF Device!Show, Received
  <2> QED
    BY <1>1, <1>4, <1>5, <2>1 DEF Promise!Receive, Marks, Received
<1> QED
  BY <1>6, <1>7, <1>8

\* A message is marked delivered, perhaps again.
LEMMA Delivers ==
  ASSUME LinkInv, LinkInv', NEW pkt \in acks, ReachBack(pkt)
  PROVE  (\E m \in Msgs : Promise!Deliver(m)) \/ UNCHANGED Promise!vars
<1>1. MarkIs /\ MarkIs'
  BY MarkFacts, MarkFactsNext DEF LinkInv, BaseInv, IInv
<1>2. UNCHANGED <<failed, shown>> /\ Sent' = Sent
  BY DeliveryStep DEF Sent
<1>3. ASSUME UNCHANGED delivered
      PROVE  UNCHANGED Promise!vars
  <2>1. \A n \in Msgs : Mark(n)' = Mark(n)
    BY <1>1, <1>2, <1>3 DEF MarkIs
  <2>2. Marks' = Marks /\ Received' = Received
    BY <1>2, <2>1 DEF Marks, Received
  <2> QED
    BY <2>2 DEF Promise!vars, Marks, Received
<1>4. ASSUME NEW m \in Msgs, delivered' = delivered \cup {m}, m \in Sent, shown[m] > 0,
             m \notin delivered
      PROVE  Promise!Deliver(m)
  <2>1. /\ Mark(m) \in {"sending", "failed"} /\ Mark(m)' = "delivered"
        /\ \A n \in Msgs : n # m => Mark(n)' = Mark(n)
    BY <1>1, <1>2, <1>4 DEF MarkIs
  <2>2. Marks' = [Marks EXCEPT ![m] = "delivered"] /\ Received' = Received /\ m \in Received
    BY <1>2, <1>4, <2>1, OneMark DEF Received
  <2> QED
    BY <2>1, <2>2 DEF Promise!Deliver, Marks, Received
<1> QED
  BY <1>3, <1>4, DeliveryStep

\* Every step of the exchange is a step of the promise, or none.
LEMMA PromiseStep ==
  ASSUME DistinctMessages, LinkInv, [LinkNext]_linkVars
  PROVE  [Promise!Next]_(Promise!vars)
<1>1. LinkInv'
  BY LinkInvStep
<1>2. ASSUME NEW m \in Msgs, SenderThread(m) \/ SenderRetries(m)
      PROVE  [Promise!Next]_(Promise!vars)
  BY <1>1, <1>2, SendsOrGivesUp DEF SenderThread, SenderRetries, receiverVars, Promise!Next
<1>3. ASSUME NEW pkt \in air, Reach(pkt)
      PROVE  [Promise!Next]_(Promise!vars)
  BY <1>3, Arrives DEF Promise!Next
<1>4. ASSUME NEW pkt \in acks, ReachBack(pkt)
      PROVE  [Promise!Next]_(Promise!vars)
  BY <1>1, <1>4, Delivers DEF Promise!Next
<1>5. ASSUME UNCHANGED <<pc, delivered, failed, shown>>
      PROVE  UNCHANGED Promise!vars
  <2>1. \A m \in Msgs : Mark(m)' = Mark(m)
    BY <1>5 DEF Mark, Sent
  <2>2. Marks' = Marks /\ Received' = Received
    BY <1>5, <2>1 DEF Marks, Received
  <2> QED
    BY <2>2 DEF Promise!vars, Marks, Received
<1> QED
  BY <1>2, <1>3, <1>4, <1>5
  DEF LinkNext, linkVars, vars, threadVars, msgVars, receiverVars, SenderEdits, AddContact,
      RemoveContact, Radiate, Transmit, RecipientStep, RecipientHears, Receiver!ChangeBack,
      Receiver!HearOther, Receiver!memory

\* The exchange implements the promise of the marks.
THEOREM PromiseIsKept == ASSUME DistinctMessages PROVE LinkSpec => PromiseKept
BY PromiseInit, PromiseStep, LinkInvIsInvariant, PTL DEF LinkSpec, PromiseKept, Promise!Spec
=============================================================================
