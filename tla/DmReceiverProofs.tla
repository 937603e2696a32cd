-------------------------- MODULE DmReceiverProofs ---------------------------
(***************************************************************************)
(* Theorems about the receiving side of direct messages, for any number of *)
(* messages and devices and any length of the tables.                      *)
(***************************************************************************)
EXTENDS DmReceiver, TLAPS, FiniteSetTheorems

(* The bounded tables of MeshPackets, for sequences over any set.          *)

\* Appending to a bounded FIFO gives a FIFO within its bound that holds the new
\* element and all old ones but the oldest, which falls off a full one.
LEMMA PushFacts ==
  ASSUME NEW S, NEW s \in Seq(S), NEW e \in S, NEW max \in Nat \ {0},
         Len(s) <= max
  PROVE  /\ Push(s, e, max) \in Seq(S)
         /\ Len(Push(s, e, max)) <= max
         /\ e \in ToSet(Push(s, e, max))
         /\ \A x \in ToSet(s) :
              x \in ToSet(Push(s, e, max)) \/ (Len(s) = max /\ x = Head(s))
<1>1. CASE Len(s) < max
  <2>1. Push(s, e, max) = Append(s, e)
    BY <1>1 DEF Push
  <2>2. /\ Append(s, e) \in Seq(S)
        /\ Len(Append(s, e)) = Len(s) + 1
        /\ Append(s, e)[Len(s) + 1] = e
        /\ \A i \in 1..Len(s) : Append(s, e)[i] = s[i]
    OBVIOUS
  <2> QED
    BY <1>1, <2>1, <2>2 DEF ToSet
<1>2. CASE Len(s) = max
  <2>1. Push(s, e, max) = Append(Tail(s), e)
    BY <1>2 DEF Push
  <2>2. /\ Tail(s) \in Seq(S)
        /\ Len(Tail(s)) = Len(s) - 1
        /\ \A i \in 1..(Len(s) - 1) : Tail(s)[i] = s[i + 1]
    BY <1>2
  <2>3. /\ Append(Tail(s), e) \in Seq(S)
        /\ Len(Append(Tail(s), e)) = Len(s)
        /\ Append(Tail(s), e)[Len(s)] = e
        /\ \A i \in 1..(Len(s) - 1) : Append(Tail(s), e)[i] = s[i + 1]
    BY <1>2, <2>2
  <2>4. ASSUME NEW x \in ToSet(s), x # Head(s)
        PROVE  x \in ToSet(Append(Tail(s), e))
    <3>1. PICK i \in 1..Len(s) : s[i] = x
      BY DEF ToSet
    <3>2. i # 1
      BY <2>4, <3>1
    <3>3. i - 1 \in 1..(Len(s) - 1) /\ Append(Tail(s), e)[i - 1] = x
      BY <2>3, <3>1, <3>2
    <3>4. DOMAIN Append(Tail(s), e) = 1..Len(s)
      BY <2>3
    <3>5. i - 1 \in DOMAIN Append(Tail(s), e)
      BY <3>3, <3>4
    <3> QED
      BY <3>3, <3>5 DEF ToSet
  <2>5. e \in ToSet(Append(Tail(s), e))
    BY <1>2, <2>3 DEF ToSet
  <2> QED
    BY <1>2, <2>1, <2>3, <2>4, <2>5
<1> QED
  BY <1>1, <1>2

\* A position that is not the last one has a next.
LEMMA NextPosition ==
  ASSUME NEW n \in Nat, NEW i \in 1..n, i # n
  PROVE  i \in 1..(n - 1) /\ i + 1 \in 1..n
OBVIOUS

\* A bounded FIFO that holds nothing twice goes on so, and it is the oldest
\* element of a full one that falls off, and no other.
LEMMA PushUnique ==
  ASSUME NEW S, NEW s \in Seq(S), NEW e \in S, NEW max \in Nat \ {0},
         Len(s) <= max, e \notin ToSet(s),
         \A i, j \in 1..Len(s) : s[i] = s[j] => i = j
  PROVE  /\ \A i, j \in 1..Len(Push(s, e, max)) :
              Push(s, e, max)[i] = Push(s, e, max)[j] => i = j
         /\ ToSet(Push(s, e, max)) =
              (ToSet(s) \ (IF Len(s) < max THEN {} ELSE {Head(s)})) \cup {e}
<1>0. \A i \in 1..Len(s) : s[i] # e
  BY DEF ToSet
<1>1. CASE Len(s) < max
  <2>1. Push(s, e, max) = Append(s, e)
    BY <1>1 DEF Push
  <2>2. /\ Len(Append(s, e)) = Len(s) + 1 /\ DOMAIN Append(s, e) = 1..(Len(s) + 1)
        /\ Append(s, e)[Len(s) + 1] = e
        /\ \A i \in 1..Len(s) : Append(s, e)[i] = s[i]
    OBVIOUS
  <2>3. \A i, j \in 1..Len(Append(s, e)) : Append(s, e)[i] = Append(s, e)[j] => i = j
    BY <1>0, <2>2
  <2>4. ToSet(Append(s, e)) = ToSet(s) \cup {e}
    BY <2>2 DEF ToSet
  <2> QED
    BY <1>1, <2>1, <2>3, <2>4
<1>2. CASE Len(s) = max
  <2>1. Push(s, e, max) = Append(Tail(s), e)
    BY <1>2 DEF Push
  <2> DEFINE r == Append(Tail(s), e)
  <2>2. /\ Tail(s) \in Seq(S)
        /\ Len(Tail(s)) = Len(s) - 1
        /\ \A i \in 1..(Len(s) - 1) : Tail(s)[i] = s[i + 1]
    BY <1>2
  <2>3. /\ Len(r) = Len(s) /\ DOMAIN r = 1..Len(s)
        /\ r[Len(s)] = e
        /\ \A i \in 1..(Len(s) - 1) : r[i] = s[i + 1]
    BY <1>2, <2>2
  <2>4. Head(s) = s[1] /\ DOMAIN s = 1..Len(s) /\ Len(s) \in Nat \ {0}
    BY <1>2
  <2> HIDE DEF r
  <2>5. \A i, j \in 1..Len(r) : r[i] = r[j] => i = j
    <3>1. ASSUME NEW i \in 1..Len(r), NEW j \in 1..Len(r), r[i] = r[j], i # Len(s), j # Len(s)
          PROVE  i = j
      <4>1. /\ i \in 1..(Len(s) - 1) /\ i + 1 \in 1..Len(s)
            /\ j \in 1..(Len(s) - 1) /\ j + 1 \in 1..Len(s)
        BY <2>3, <2>4, <3>1, NextPosition
      <4>2. r[i] = s[i + 1] /\ r[j] = s[j + 1]
        BY <2>3, <4>1
      <4>3. i + 1 = j + 1
        BY <3>1, <4>1, <4>2
      <4> QED
        BY <4>3
    <3>2. ASSUME NEW i \in 1..Len(r), i # Len(s)
          PROVE  r[i] # r[Len(s)]
      <4>1. i \in 1..(Len(s) - 1) /\ i + 1 \in 1..Len(s)
        BY <2>3, <2>4, <3>2, NextPosition
      <4>2. r[i] = s[i + 1]
        BY <2>3, <4>1
      <4> QED
        BY <1>0, <2>3, <4>1, <4>2
    <3> QED
      BY <3>1, <3>2
  <2>6. ASSUME NEW x PROVE x \in ToSet(r) <=> x \in (ToSet(s) \ {Head(s)}) \cup {e}
    <3>1. ASSUME NEW i \in 1..(Len(s) - 1) PROVE r[i] \in ToSet(s) \ {Head(s)}
      <4>1. i + 1 \in 1..Len(s) /\ i + 1 # 1 /\ 1 \in 1..Len(s)
        BY <2>4
      <4>2. r[i] = s[i + 1] /\ s[i + 1] # s[1]
        BY <2>3, <4>1
      <4> QED
        BY <2>4, <4>1, <4>2 DEF ToSet
    <3>2. ASSUME NEW i \in 1..Len(s), s[i] # Head(s) PROVE s[i] \in ToSet(r)
      <4>1. i # 1 /\ i - 1 \in 1..(Len(s) - 1) /\ i - 1 \in 1..Len(s) /\ (i - 1) + 1 = i
        BY <2>4, <3>2
      <4>2. r[i - 1] = s[i]
        BY <2>3, <4>1
      <4> QED
        BY <2>3, <4>1, <4>2 DEF ToSet
    <3>3. e \in ToSet(r)
      BY <2>3, <2>4 DEF ToSet
    <3>4. ASSUME x \in ToSet(r) PROVE x \in (ToSet(s) \ {Head(s)}) \cup {e}
      <4>1. PICK i \in 1..Len(s) : r[i] = x
        BY <2>3, <3>4 DEF ToSet
      <4>2. i = Len(s) \/ i \in 1..(Len(s) - 1)
        BY <2>4, NextPosition
      <4> QED
        BY <2>3, <3>1, <4>1, <4>2
    <3>5. ASSUME x \in ToSet(s), x # Head(s) PROVE x \in ToSet(r)
      <4>1. PICK i \in 1..Len(s) : s[i] = x
        BY <2>4, <3>5 DEF ToSet
      <4> QED
        BY <3>2, <3>5, <4>1
    <3> QED
      BY <3>3, <3>4, <3>5
  <2>7. ToSet(r) = (ToSet(s) \ {Head(s)}) \cup {e}
    BY <2>6
  <2> QED
    BY <1>2, <2>1, <2>5, <2>7 DEF r
<1> QED
  BY <1>1, <1>2

\* Appending to a bounded FIFO brings in nothing but the new element.
LEMMA PushSubset ==
  ASSUME NEW S, NEW s \in Seq(S), NEW e \in S, NEW max \in Nat \ {0}, Len(s) <= max
  PROVE  ToSet(Push(s, e, max)) \subseteq ToSet(s) \cup {e}
<1>1. CASE Len(s) < max
  <2>1. Push(s, e, max) = Append(s, e)
    BY <1>1 DEF Push
  <2>2. /\ DOMAIN Append(s, e) = 1..(Len(s) + 1)
        /\ Append(s, e)[Len(s) + 1] = e
        /\ \A i \in 1..Len(s) : Append(s, e)[i] = s[i]
    OBVIOUS
  <2> QED
    BY <2>1, <2>2 DEF ToSet
<1>2. CASE Len(s) = max
  <2>1. Push(s, e, max) = Append(Tail(s), e)
    BY <1>2 DEF Push
  <2>2. /\ Tail(s) \in Seq(S)
        /\ Len(Tail(s)) = Len(s) - 1
        /\ \A i \in 1..(Len(s) - 1) : Tail(s)[i] = s[i + 1]
    BY <1>2
  <2>3. /\ DOMAIN Append(Tail(s), e) = 1..Len(s)
        /\ Append(Tail(s), e)[Len(s)] = e
        /\ \A i \in 1..(Len(s) - 1) : Append(Tail(s), e)[i] = s[i + 1] /\ i + 1 \in 1..Len(s)
    BY <1>2, <2>2
  <2> QED
    BY <2>1, <2>3 DEF ToSet
<1> QED
  BY <1>1, <1>2

\* Remembering a hash keeps the table of hashes within its bound.
LEMMA RememberFacts ==
  ASSUME NEW S, NEW s \in Seq(S), NEW h \in S, NEW max \in Nat \ {0},
         Len(s) <= max
  PROVE  /\ Remember(s, h, max) \in Seq(S)
         /\ Len(Remember(s, h, max)) <= max
         /\ h \in ToSet(Remember(s, h, max))
BY PushFacts DEF Remember

\* ... and brings nothing into it but that hash.
LEMMA RememberSubset ==
  ASSUME NEW S, NEW s \in Seq(S), NEW h \in S, NEW max \in Nat \ {0}, Len(s) <= max
  PROVE  ToSet(Remember(s, h, max)) \subseteq ToSet(s) \cup {h}
BY PushSubset DEF Remember

\* A sequence that holds nothing twice.
Unique(s) == \A i, j \in 1..Len(s) : s[i] = s[j] => i = j

\* It has as many elements as positions.
LEMMA UniqueCounts ==
  ASSUME NEW S, NEW s \in Seq(S), Unique(s)
  PROVE  Cardinality(ToSet(s)) = Len(s)
<1>1. s \in Bijection(1..Len(s), ToSet(s))
  <2>1. DOMAIN s = 1..Len(s) /\ s \in [1..Len(s) -> ToSet(s)]
    BY DEF ToSet
  <2>2. \A x \in ToSet(s) : \E i \in 1..Len(s) : s[i] = x
    BY <2>1 DEF ToSet
  <2> QED
    BY <2>1, <2>2 DEF Unique, Bijection, Injection, Surjection, IsInjective
<1>2. Len(s) \in Nat
  OBVIOUS
<1> QED
  BY <1>1, <1>2, FS_CountingElements DEF ExistsBijection

\* How long each entry of such a table has been in it: the last came in just now,
\* the others one after the other before it. What is not in it has max.
Ages(age, s, max) ==
  /\ \A i \in 1..Len(s) : age[s[i]] = Len(s) - i
  /\ \A x \in DOMAIN age : x \in ToSet(s) \/ age[x] = max

\* The history that Newer keeps is right.
LEMMA NewerFacts ==
  ASSUME NEW S, NEW s \in Seq(S), Unique(s), NEW e \in S, e \notin ToSet(s),
         NEW max \in Nat \ {0}, Len(s) <= max,
         NEW age \in [S -> 0..max], Ages(age, s, max)
  PROVE  /\ Newer(age, e, max) \in [S -> 0..max]
         /\ Ages(Newer(age, e, max), Push(s, e, max), max)
<1> DEFINE new == Newer(age, e, max)
           r   == Push(s, e, max)
<1>1. /\ new = [x \in S |-> IF x = e THEN 0 ELSE IF age[x] < max THEN age[x] + 1 ELSE max]
      /\ \A x \in S : age[x] \in 0..max
  BY DEF Newer
<1>2. new \in [S -> 0..max]
  BY <1>1
<1>3. new[e] = 0 /\ \A x \in S : x # e => new[x] = IF age[x] < max THEN age[x] + 1 ELSE max
  BY <1>1
<1>4. \A i \in 1..Len(s) : s[i] # e /\ s[i] \in S
  BY DEF ToSet
<1>5. /\ ToSet(r) = (ToSet(s) \ (IF Len(s) < max THEN {} ELSE {Head(s)})) \cup {e}
      /\ r \in Seq(S)
  <2>1. r \in Seq(S)
    BY PushFacts
  <2>2. \A i, j \in 1..Len(s) : s[i] = s[j] => i = j
    BY DEF Unique
  <2>3. ToSet(r) = (ToSet(s) \ (IF Len(s) < max THEN {} ELSE {Head(s)})) \cup {e}
    BY <2>2, PushUnique
  <2> QED
    BY <2>1, <2>3
<1> HIDE DEF new, r
<1>6. ASSUME NEW i \in 1..Len(s), age[s[i]] < max
      PROVE  new[s[i]] = Len(s) + 1 - i
  BY <1>1, <1>3, <1>4, <1>6 DEF Ages
<1>7. CASE Len(s) < max
  <2>1. /\ Len(r) = Len(s) + 1 /\ r[Len(s) + 1] = e
        /\ \A i \in 1..Len(s) : r[i] = s[i]
    <3>1. r = Append(s, e)
      BY <1>7 DEF Push, r
    <3> QED
      BY <3>1
  <2>2. \A i \in 1..Len(s) : age[s[i]] < max
    BY <1>7 DEF Ages
  <2>3. ASSUME NEW i \in 1..Len(r)
        PROVE  new[r[i]] = Len(r) - i
    <3>1. CASE i = Len(s) + 1
      BY <1>3, <2>1, <3>1
    <3>2. CASE i \in 1..Len(s)
      BY <1>6, <2>1, <2>2, <3>2
    <3> QED
      BY <2>1, <3>1, <3>2
  <2>4. ASSUME NEW x \in S, x \notin ToSet(r)
        PROVE  new[x] = max
    <3>1. x # e /\ x \notin ToSet(s)
      BY <1>5, <1>7, <2>4
    <3>2. age[x] = max
      BY <3>1 DEF Ages
    <3> QED
      BY <1>3, <3>1, <3>2
  <2> QED
    BY <1>2, <2>3, <2>4 DEF Ages, new, r
<1>8. CASE Len(s) = max
  <2>1. /\ Len(r) = Len(s) /\ r[Len(s)] = e
        /\ \A i \in 1..(Len(s) - 1) : r[i] = s[i + 1]
    <3>1. r = Append(Tail(s), e)
      BY <1>8 DEF Push, r
    <3>2. /\ Tail(s) \in Seq(S) /\ Len(Tail(s)) = Len(s) - 1
          /\ \A i \in 1..(Len(s) - 1) : Tail(s)[i] = s[i + 1]
      BY <1>8
    <3> QED
      BY <1>8, <3>1, <3>2
  <2>2. ASSUME NEW i \in 1..(Len(s) - 1)
        PROVE  i + 1 \in 1..Len(s) /\ age[s[i + 1]] < max
    BY <1>8 DEF Ages
  <2>3. ASSUME NEW i \in 1..Len(r)
        PROVE  new[r[i]] = Len(r) - i
    <3>1. CASE i = Len(s)
      BY <1>3, <2>1, <3>1
    <3>2. CASE i \in 1..(Len(s) - 1)
      BY <1>6, <2>1, <2>2, <3>2
    <3> QED
      BY <2>1, <3>1, <3>2
  <2>4. ASSUME NEW x \in S, x \notin ToSet(r)
        PROVE  new[x] = max
    <3>1. x # e /\ (x \notin ToSet(s) \/ x = Head(s))
      BY <1>5, <1>8, <2>4
    <3>2. CASE x \notin ToSet(s)
      <4>1. age[x] = max
        BY <3>2 DEF Ages
      <4> QED
        BY <1>3, <3>1, <4>1
    <3>3. CASE x = Head(s)
      <4>1. 1 \in 1..Len(s) /\ x = s[1]
        BY <1>8, <3>3
      <4>2. age[x] = max - 1
        BY <1>8, <4>1 DEF Ages
      <4> QED
        BY <1>3, <3>1, <4>2
    <3> QED
      BY <3>1, <3>2, <3>3
  <2> QED
    BY <1>2, <2>3, <2>4 DEF Ages, new, r
<1> QED
  BY <1>7, <1>8

-----------------------------------------------------------------------------
(* The recipients.                                                         *)

\* The hashes a device may remember: messages, channel messages, its own answers.
AckRecords ==
  [kind : {"PATH"}, from : Peers, path : Paths, ack : {Ack(m, a) : m \in Msgs, a \in Attempts},
   nonce : Nonces]
  \cup [kind : {"ACK"}, ack : {Ack(m, a) : m \in Msgs, a \in Attempts}, nonce : Nonces]
Hashes ==
  {TxtHash(m, a) : m \in Msgs, a \in Attempts} \cup {OtherHash(t) : t \in Others} \cup AckRecords

Tables ==
  /\ heard \in [Peers -> Seq(Hashes)]
  /\ recentOrder \in [Peers -> Seq(Texts)]

\* RecentTracked, with the positions of the order instead of their number.
OrderIsUnique ==
  \A p \in Peers :
    /\ ToSet(recentOrder[p]) = {t \in Texts : recent[p][t] # NoStamp}
    /\ Unique(recentOrder[p])
    /\ Len(recentOrder[p]) <= MAX_RECENT

\* The history of the memory fits it.
SinceIsRight == \A p \in Peers : Ages(since[p], recentOrder[p], MAX_RECENT)

IInv == TypeOK /\ Tables /\ OrderIsUnique /\ SinceIsRight

-----------------------------------------------------------------------------
\* Every device starts with empty tables.
LEMMA InitOK == ReceiverAssumption /\ Init => IInv
<1> SUFFICES ASSUME ReceiverAssumption, Init PROVE IInv
  OBVIOUS
<1>1. TypeOK /\ Tables
  BY DEF ReceiverAssumption, Init, TypeOK, Tables, ContactEntries, Paths
<1>2. ASSUME NEW p \in Peers
      PROVE  /\ recentOrder[p] = <<>> /\ \A t \in Texts : recent[p][t] = NoStamp
  BY DEF Init
<1>3. OrderIsUnique
  BY <1>2 DEF ReceiverAssumption, OrderIsUnique, Unique, ToSet
<1>4. SinceIsRight
  <2>1. ASSUME NEW p \in Peers PROVE since[p] = [t \in Texts |-> MAX_RECENT]
    BY DEF Init
  <2> QED
    BY <1>2, <2>1 DEF SinceIsRight, Ages
<1> QED
  BY <1>1, <1>3, <1>4 DEF IInv

\* What noting a text does: the tables keep their types, and go on to hold the
\* same texts, each once.
LEMMA NoteOK ==
  ASSUME ReceiverAssumption, IInv, NEW p \in Peers, NEW t \in Texts, NEW ts \in Stamps,
         NoteRecent(p, t, ts)
  PROVE  /\ recent' \in [Peers -> [Texts -> Stamps \cup {NoStamp}]]
         /\ recentOrder' \in [Peers -> Seq(Texts)]
         /\ OrderIsUnique'
         /\ since' \in [Peers -> [Texts -> 0..MAX_RECENT]]
         /\ SinceIsRight'
<1> DEFINE order == recentOrder[p]
           noted == [recent[p] EXCEPT ![t] = ts]
<1>1. /\ order \in Seq(Texts) /\ Unique(order) /\ Len(order) <= MAX_RECENT
      /\ ToSet(order) = {x \in Texts : recent[p][x] # NoStamp}
      /\ recent[p] \in [Texts -> Stamps \cup {NoStamp}]
      /\ MAX_RECENT \in Nat \ {0}
  BY DEF IInv, TypeOK, Tables, OrderIsUnique, ReceiverAssumption
<1>2. ts # NoStamp
  BY DEF ReceiverAssumption, Stamps
<1>3. noted \in [Texts -> Stamps \cup {NoStamp}] /\ noted[t] = ts
      /\ \A x \in Texts \ {t} : noted[x] = recent[p][x]
  BY <1>1
<1>4. CASE recent[p][t] # NoStamp
  <2>1. recent' = [recent EXCEPT ![p] = noted] /\ recentOrder' = recentOrder /\ since' = since
    BY <1>4 DEF NoteRecent
  <2>2. recent' \in [Peers -> [Texts -> Stamps \cup {NoStamp}]] /\ recent'[p] = noted
        /\ \A q \in Peers \ {p} : recent'[q] = recent[q]
    BY <1>3, <2>1 DEF IInv, TypeOK
  <2>3. {x \in Texts : noted[x] # NoStamp} = {x \in Texts : recent[p][x] # NoStamp}
    BY <1>2, <1>3, <1>4
  <2>4. OrderIsUnique'
    BY <1>1, <2>1, <2>2, <2>3 DEF IInv, OrderIsUnique
  <2> QED
    BY <2>1, <2>2, <2>4 DEF IInv, Tables, TypeOK, SinceIsRight
<1>5. CASE recent[p][t] = NoStamp
  <2> DEFINE pushed == Push(order, t, MAX_RECENT)
             gone   == Evicted(order)
             left   == [x \in Texts |-> IF x \in gone THEN NoStamp ELSE noted[x]]
  <2>1. recent' = [recent EXCEPT ![p] = left] /\ recentOrder' = [recentOrder EXCEPT ![p] = pushed]
    BY <1>5 DEF NoteRecent
  <2>2. t \notin ToSet(order)
    BY <1>1, <1>5
  <2>3. /\ Unique(pushed) /\ ToSet(pushed) = (ToSet(order) \ gone) \cup {t}
    BY <1>1, <2>2, PushUnique DEF Unique, Evicted
  <2>4. pushed \in Seq(Texts) /\ Len(pushed) <= MAX_RECENT
    BY <1>1, PushFacts
  <2>5. gone \subseteq ToSet(order)
    <3>1. CASE Len(order) < MAX_RECENT
      BY <3>1 DEF Evicted
    <3>2. CASE ~(Len(order) < MAX_RECENT)
      <4>1. Head(order) = order[1] /\ 1 \in DOMAIN order
        BY <1>1, <3>2
      <4> QED
        BY <3>2, <4>1 DEF Evicted, ToSet
    <3> QED
      BY <3>1, <3>2
  <2>11. since' \in [Peers -> [Texts -> 0..MAX_RECENT]] /\ SinceIsRight'
    <3> DEFINE aged == Newer(since[p], t, MAX_RECENT)
    <3>1. since[p] \in [Texts -> 0..MAX_RECENT] /\ Ages(since[p], order, MAX_RECENT)
      BY DEF IInv, TypeOK, SinceIsRight
    <3>2. aged \in [Texts -> 0..MAX_RECENT] /\ Ages(aged, pushed, MAX_RECENT)
      BY <1>1, <2>2, <3>1, NewerFacts
    <3>3. since' = [since EXCEPT ![p] = aged]
      BY <1>5 DEF NoteRecent
    <3> HIDE DEF aged, pushed, order
    <3>4. since' \in [Peers -> [Texts -> 0..MAX_RECENT]] /\ since'[p] = aged
          /\ \A q \in Peers \ {p} : since'[q] = since[q]
      BY <3>2, <3>3 DEF IInv, TypeOK
    <3>5. recentOrder'[p] = pushed /\ \A q \in Peers \ {p} : recentOrder'[q] = recentOrder[q]
      BY <2>1 DEF IInv, Tables
    <3>6. ASSUME NEW q \in Peers PROVE Ages(since'[q], recentOrder'[q], MAX_RECENT)
      <4>1. CASE q = p
        BY <3>2, <3>4, <3>5, <4>1
      <4>2. CASE q # p
        <5>1. since'[q] = since[q] /\ recentOrder'[q] = recentOrder[q]
          BY <3>4, <3>5, <4>2
        <5>2. Ages(since[q], recentOrder[q], MAX_RECENT)
          BY DEF IInv, SinceIsRight
        <5> QED
          BY <5>1, <5>2
      <4> QED
        BY <4>1, <4>2
    <3>7. SinceIsRight'
      BY <3>6 DEF SinceIsRight, Ages
    <3> QED
      BY <3>4, <3>7
  <2> HIDE DEF pushed, gone, order, noted
  <2>6. left \in [Texts -> Stamps \cup {NoStamp}]
    BY <1>3
  <2>7. {x \in Texts : left[x] # NoStamp} = ToSet(pushed)
    <3>1. t \notin gone
      BY <2>2, <2>5
    <3>2. ASSUME NEW x \in Texts PROVE left[x] # NoStamp <=> x \in ToSet(pushed)
      <4>1. CASE x \in gone
        BY <2>3, <3>1, <4>1
      <4>2. CASE x = t
        BY <1>2, <1>3, <2>3, <3>1, <4>2
      <4>3. CASE x \notin gone /\ x # t
        <5>1. left[x] = recent[p][x]
          BY <1>3, <4>3
        <5>2. x \in ToSet(order) <=> recent[p][x] # NoStamp
          BY <1>1
        <5> QED
          BY ONLY <2>3, <4>3, <5>1, <5>2
      <4> QED
        BY <4>1, <4>2, <4>3
    <3>3. ToSet(pushed) \subseteq Texts
      BY <1>1, <2>3
    <3> QED
      BY <3>2, <3>3
  <2> HIDE DEF left
  <2>8. recent' \in [Peers -> [Texts -> Stamps \cup {NoStamp}]] /\ recent'[p] = left
        /\ \A q \in Peers \ {p} : recent'[q] = recent[q]
    BY <2>1, <2>6 DEF IInv, TypeOK
  <2>9. recentOrder' \in [Peers -> Seq(Texts)] /\ recentOrder'[p] = pushed
        /\ \A q \in Peers \ {p} : recentOrder'[q] = recentOrder[q]
    BY <2>1, <2>4 DEF IInv, Tables
  <2>10. OrderIsUnique'
    <3>1. ASSUME NEW q \in Peers
          PROVE  /\ ToSet(recentOrder'[q]) = {x \in Texts : recent'[q][x] # NoStamp}
                 /\ Unique(recentOrder'[q])
                 /\ Len(recentOrder'[q]) <= MAX_RECENT
      <4>1. CASE q = p
        BY <2>3, <2>4, <2>7, <2>8, <2>9, <4>1
      <4>2. CASE q # p
        <5>1. recentOrder'[q] = recentOrder[q] /\ recent'[q] = recent[q]
          BY <2>8, <2>9, <4>2
        <5> QED
          BY <5>1 DEF IInv, OrderIsUnique
      <4> QED
        BY <4>1, <4>2
    <3> QED
      BY <3>1 DEF OrderIsUnique, Unique
  <2> QED
    BY <2>8, <2>9, <2>10, <2>11
<1> QED
  BY <1>4, <1>5

\* Hearing a packet keeps the table of hashes within its bound.
LEMMA HearOK ==
  ASSUME ReceiverAssumption, IInv, NEW p \in Peers, NEW h \in Hashes
  PROVE  Hear(p, h) \in Seq(Hashes) /\ Len(Hear(p, h)) <= MAX_SEEN
<1>1. heard[p] \in Seq(Hashes) /\ Len(heard[p]) <= MAX_SEEN /\ MAX_SEEN \in Nat \ {0}
  BY DEF IInv, TypeOK, Tables, ReceiverAssumption
<1> QED
  BY <1>1, RememberFacts DEF Hear

\* An answer is one of the records an acknowledgement is, and names the attempt.
LEMMA AnswerFacts ==
  ASSUME NEW p \in Peers, NEW pkt \in TxtPackets, NEW path \in Paths, NEW n \in Nonces
  PROVE  /\ Answer(p, pkt, path, n) \in AckRecords
         /\ Answer(p, pkt, path, n).ack = Ack(pkt.msg, pkt.attempt)
BY DEF Answer, AckRecords, TxtPackets

\* The hashes of messages, of channel messages and of answers are told apart.
LEMMA KindsDiffer ==
  ASSUME NEW m, NEW a
  PROVE  /\ \A r \in AckRecords : r # TxtHash(m, a)
         /\ \A t : OtherHash(t) # TxtHash(m, a)
<1>1. TxtHash(m, a).kind = "TXT"
  BY DEF TxtHash
<1>2. \A r \in AckRecords : r.kind # "TXT"
  BY DEF AckRecords
<1>3. \A t : OtherHash(t).kind = "GRP"
  BY DEF OtherHash
<1> QED
  BY <1>1, <1>2, <1>3

\* What a device still has after another packet.
LEMMA ArrivesFacts ==
  ASSUME NEW pkt \in TxtPackets, NEW path \in ArrivesWith(pkt)
  PROVE  path \in Paths
BY DEF ArrivesWith, Paths

\* A packet that reaches its recipient keeps the invariant.
LEMMA ReceiveOK ==
  ASSUME ReceiverAssumption, IInv, NEW p \in Peers, NEW pkt \in TxtPackets,
         NEW path \in Paths, NEW n \in Nonces, Receive(p, pkt, path, n)
  PROVE  IInv'
<1> DEFINE m      == pkt.msg
           hash   == TxtHash(pkt.msg, pkt.attempt)
           answer == Answer(p, pkt, path, n)
<1>1. m \in Msgs /\ pkt.attempt \in Attempts /\ hash \in Hashes /\ answer \in Hashes
  BY AnswerFacts DEF TxtPackets, Hashes
<1>2. Hear(p, hash) \in Seq(Hashes) /\ Len(Hear(p, hash)) <= MAX_SEEN /\ MAX_SEEN \in Nat \ {0}
  BY <1>1, HearOK DEF ReceiverAssumption
<1>3. Remember(Hear(p, hash), answer, MAX_SEEN) \in Seq(Hashes)
      /\ Len(Remember(Hear(p, hash), answer, MAX_SEEN)) <= MAX_SEEN
  BY <1>1, <1>2, RememberFacts
<1>4. \E h \in {Hear(p, hash), Remember(Hear(p, hash), answer, MAX_SEEN)} :
        heard' = [heard EXCEPT ![p] = h]
  BY DEF Receive
<1>5. heard' \in [Peers -> Seq(Hashes)] /\ \A q \in Peers : Len(heard'[q]) <= MAX_SEEN
  <2> HIDE DEF hash, answer
  <2> QED
    BY <1>2, <1>3, <1>4 DEF IInv, TypeOK, Tables
<1>6. Text[m] \in Texts /\ Stamp[m] \in Stamps
  BY <1>1 DEF Texts, Stamps
<1>7. back' = back
  BY DEF Receive
<1>8. CASE NoteRecent(p, Text[m], Stamp[m]) /\ Show(m)
  <2>1. shown' \in [Msgs -> 0..MAX_SHOWN] /\ repeated' \subseteq Msgs
    BY <1>1, <1>8 DEF Show, SameText, IInv, TypeOK, ReceiverAssumption
  <2> QED
    BY <1>5, <1>6, <1>7, <1>8, <2>1, NoteOK DEF IInv, TypeOK, Tables
<1>9. CASE UNCHANGED memory
  BY <1>5, <1>7, <1>9 DEF memory, IInv, TypeOK, Tables, OrderIsUnique, SinceIsRight
<1> QED
  BY <1>8, <1>9 DEF Receive, memory

\* Every step keeps the invariant.
LEMMA StepOK == ReceiverAssumption /\ IInv /\ [Next]_vars => IInv'
<1> SUFFICES ASSUME ReceiverAssumption, IInv, [Next]_vars PROVE IInv'
  OBVIOUS
<1>1. ASSUME NEW p \in Peers, NEW pkt \in TxtPackets, NEW n \in Nonces,
             NEW path \in ArrivesWith(pkt), Receive(p, pkt, path, n)
      PROVE  IInv'
  BY <1>1, ArrivesFacts, ReceiveOK
<1>2. ASSUME NEW p \in Peers, NEW t \in Others, HearOther(p, t) PROVE IInv'
  <2>1. t \in Texts /\ 0 \in Stamps /\ OtherHash(t) \in Hashes
    BY DEF Texts, Stamps, Hashes
  <2>2. Hear(p, OtherHash(t)) \in Seq(Hashes) /\ Len(Hear(p, OtherHash(t))) <= MAX_SEEN
    BY <2>1, HearOK
  <2>3. heard' \in [Peers -> Seq(Hashes)] /\ \A q \in Peers : Len(heard'[q]) <= MAX_SEEN
    BY <1>2, <2>2 DEF HearOther, IInv, TypeOK, Tables
  <2>4. CASE NoteRecent(p, t, 0)
    BY <1>2, <2>1, <2>3, <2>4, NoteOK DEF HearOther, IInv, TypeOK, Tables
  <2>5. CASE UNCHANGED <<recent, recentOrder, since>>
    BY <1>2, <2>3, <2>5 DEF HearOther, IInv, TypeOK, Tables, OrderIsUnique, SinceIsRight
  <2> QED
    BY <1>2, <2>4, <2>5 DEF HearOther
<1>3. ASSUME NEW p \in Peers, NEW entry \in ContactEntries, ChangeBack(p, entry) PROVE IInv'
  BY <1>3 DEF ChangeBack, memory, IInv, TypeOK, Tables, OrderIsUnique, SinceIsRight
<1>4. CASE UNCHANGED vars
  BY <1>4 DEF vars, memory, IInv, TypeOK, Tables, OrderIsUnique, SinceIsRight
<1> QED
  BY <1>1, <1>2, <1>3, <1>4 DEF Next

\* A packet brings its own hash and that of its answer into the table.
LEMMA HeardSubset ==
  ASSUME ReceiverAssumption, IInv, NEW p \in Peers, NEW h \in Hashes, NEW g \in Hashes
  PROVE  /\ ToSet(Hear(p, h)) \subseteq ToSet(heard[p]) \cup {h}
         /\ ToSet(Remember(Hear(p, h), g, MAX_SEEN)) \subseteq ToSet(heard[p]) \cup {h, g}
<1>1. heard[p] \in Seq(Hashes) /\ Len(heard[p]) <= MAX_SEEN /\ MAX_SEEN \in Nat \ {0}
  BY DEF IInv, TypeOK, Tables, ReceiverAssumption
<1>2. ToSet(Hear(p, h)) \subseteq ToSet(heard[p]) \cup {h}
  BY <1>1, RememberSubset DEF Hear
<1>3. ToSet(Remember(Hear(p, h), g, MAX_SEEN)) \subseteq ToSet(Hear(p, h)) \cup {g}
  BY <1>1, HearOK, RememberSubset
<1> QED
  BY <1>2, <1>3

\* A step that takes in a packet of a contact answers that very attempt.
LEMMA CopyOK ==
  ASSUME ReceiverAssumption, IInv, [Next]_vars, NEW m \in Msgs, NEW a \in Attempts,
         To[m] \in Peers,
         TxtHash(m, a) \in ToSet(heard'[To[m]]) \ ToSet(heard[To[m]]),
         back[To[m]] # Absent
  PROVE  \E ack \in acks' : ack.ack = Ack(m, a)
<1>1. ASSUME NEW p \in Peers, NEW pkt \in TxtPackets, NEW n \in Nonces,
             NEW path \in Paths, Receive(p, pkt, path, n)
      PROVE  \E ack \in acks' : ack.ack = Ack(m, a)
  <2> DEFINE hash   == TxtHash(pkt.msg, pkt.attempt)
             answer == Answer(p, pkt, path, n)
             after  == Remember(Hear(p, hash), answer, MAX_SEEN)
  <2>1. /\ hash \in Hashes /\ answer \in Hashes /\ answer \in AckRecords
        /\ answer.ack = Ack(pkt.msg, pkt.attempt)
    BY AnswerFacts DEF TxtPackets, Hashes
  <2>2. /\ ToSet(Hear(p, hash)) \subseteq ToSet(heard[p]) \cup {hash}
        /\ ToSet(after) \subseteq ToSet(heard[p]) \cup {hash, answer}
    BY <2>1, HeardSubset
  <2>3. answer # TxtHash(m, a)
    BY <2>1, KindsDiffer
  <2>4. \/ back[p] = Absent /\ heard' = [heard EXCEPT ![p] = Hear(p, hash)]
        \/ back[p] # Absent /\ heard' = [heard EXCEPT ![p] = after] /\ answer \in acks'
    BY <1>1 DEF Receive
  <2> HIDE DEF hash, answer, after
  <2>5. p = To[m]
    BY <2>4 DEF IInv, Tables
  <2>6. heard'[p] = after /\ answer \in acks'
    BY <2>4, <2>5 DEF IInv, Tables
  <2>7. TxtHash(m, a) = hash
    BY <2>2, <2>3, <2>5, <2>6
  <2>8. TxtHash(m, a).ack = Ack(m, a) /\ hash.ack = Ack(pkt.msg, pkt.attempt)
    BY DEF TxtHash, hash
  <2> QED
    BY <2>1, <2>6, <2>7, <2>8
<1>2. ASSUME NEW p \in Peers, NEW t \in Others, HearOther(p, t) PROVE FALSE
  <2>1. OtherHash(t) \in Hashes /\ OtherHash(t) # TxtHash(m, a)
    BY KindsDiffer DEF Hashes
  <2>2. ToSet(Hear(p, OtherHash(t))) \subseteq ToSet(heard[p]) \cup {OtherHash(t)}
    BY <2>1, HeardSubset
  <2>3. heard' = [heard EXCEPT ![p] = Hear(p, OtherHash(t))]
    BY <1>2 DEF HearOther
  <2> QED
    BY <2>1, <2>2, <2>3 DEF IInv, Tables
<1>3. ~(UNCHANGED heard)
  OBVIOUS
<1>4. \E p \in Peers, pkt \in TxtPackets, n \in Nonces : \E path \in Paths :
        Receive(p, pkt, path, n)
  BY <1>2, <1>3, ArrivesFacts DEF Next, ChangeBack, vars
<1> QED
  BY <1>1, <1>4

-----------------------------------------------------------------------------
\* The invariant holds in every reachable state.
THEOREM IInvIsInvariant == ASSUME ReceiverAssumption PROVE Spec => []IInv
BY InitOK, StepOK, PTL DEF Spec

\* Type correctness of the receiving side.
THEOREM TypeCorrect == ASSUME ReceiverAssumption PROVE Spec => []TypeOK
BY IInvIsInvariant, PTL DEF IInv

\* The dictionary of shown texts and its order never drift apart.
THEOREM RecentIsTracked == ASSUME ReceiverAssumption PROVE Spec => []RecentTracked
<1>1. IInv => RecentTracked
  BY UniqueCounts DEF IInv, Tables, OrderIsUnique, RecentTracked
<1> QED
  BY <1>1, IInvIsInvariant, PTL

\* Every copy of an attempt that a device takes in from a contact is answered,
\* whether it shows it or not.
THEOREM CopiesAreAcked == ASSUME ReceiverAssumption PROVE Spec => EveryCopyIsAcked
<1> DEFINE Acked == \A m \in Msgs, a \in Attempts :
                      /\ TxtHash(m, a) \in ToSet(heard'[To[m]]) \ ToSet(heard[To[m]])
                      /\ back[To[m]] # Absent
                      => \E ack \in acks' : ack.ack = Ack(m, a)
<1>1. \A m \in Msgs : To[m] \in Peers
  BY DEF ReceiverAssumption
<1>2. IInv /\ [Next]_vars => [Acked]_vars
  BY <1>1, CopyOK
<1> QED
  BY <1>2, IInvIsInvariant, PTL DEF Spec, EveryCopyIsAcked

-----------------------------------------------------------------------------
(* What is shown.                                                          *)

\* A message that was shown is remembered, or its text was pushed out, or was
\* shown again as another message's.
KeptOrForgotten ==
  \A m \in Msgs : shown[m] > 0 =>
    m \in repeated \/ recent[To[m]][Text[m]] \in {Stamp[m], NoStamp}

ShownInv == IInv /\ KeptOrForgotten

\* Noting a text changes its own timestamp, and at most forgets others.
LEMMA NoteChanges ==
  ASSUME IInv, NEW p \in Peers, NEW t \in Texts, NEW ts, NoteRecent(p, t, ts),
         NEW q \in Peers, NEW x \in Texts
  PROVE  \/ recent'[q][x] = recent[q][x]
         \/ recent'[q][x] = NoStamp
         \/ q = p /\ x = t /\ recent'[q][x] = ts
<1>1. recent \in [Peers -> [Texts -> Stamps \cup {NoStamp}]]
  BY DEF IInv, TypeOK
<1> DEFINE noted == [recent[p] EXCEPT ![t] = ts]
           gone  == Evicted(recentOrder[p])
<1>2. CASE recent' = [recent EXCEPT ![p] = noted]
  BY <1>1, <1>2
<1>3. CASE recent' = [recent EXCEPT ![p] =
                        [y \in Texts |-> IF y \in gone THEN NoStamp ELSE noted[y]]]
  <2> HIDE DEF gone
  <2> QED
    BY <1>1, <1>3
<1> QED
  BY <1>2, <1>3 DEF NoteRecent

\* Every step goes on to remember what was shown, unless it forgets it in turn.
LEMMA ShownStep ==
  ASSUME ReceiverAssumption
  PROVE  ShownInv /\ [Next]_vars => ShownInv'
<1> SUFFICES ASSUME ShownInv, [Next]_vars PROVE ShownInv'
  OBVIOUS
<1>1. /\ IInv /\ IInv' /\ repeated \subseteq Msgs
      /\ shown \in [Msgs -> 0..MAX_SHOWN] /\ MAX_SHOWN \in Nat \ {0, 1}
  BY StepOK DEF ShownInv, IInv, TypeOK, ReceiverAssumption
<1>2. \A m \in Msgs : To[m] \in Peers /\ Text[m] \in Texts /\ Text[m] \notin Others
  BY DEF ReceiverAssumption, Texts
<1>3. CASE UNCHANGED <<recent, shown, repeated>>
  BY <1>1, <1>3 DEF ShownInv, KeptOrForgotten
<1>4. ASSUME NEW p \in Peers, NEW pkt \in TxtPackets, NEW path, NEW n, Receive(p, pkt, path, n)
      PROVE  ShownInv'
  <2> DEFINE k == pkt.msg
  <2>1. k \in Msgs /\ p = To[k]
    BY <1>4 DEF Receive, TxtPackets
  <2>2. CASE UNCHANGED memory
    BY <1>3, <2>2 DEF memory
  <2>3. CASE NoteRecent(p, Text[k], Stamp[k]) /\ Show(k)
    <3>1. \A m \in Msgs : m # k => shown'[m] = shown[m]
      BY <1>1, <2>1, <2>3 DEF Show
    <3>2. ASSUME NEW m \in Msgs, shown'[m] > 0
          PROVE  m \in repeated' \/ recent'[To[m]][Text[m]] \in {Stamp[m], NoStamp}
      <4>1. CASE m \in SameText(k)
        BY <2>3, <4>1 DEF Show
      <4>2. CASE m = k
        <5>1. IInv /\ Text[k] \in Texts /\ p \in Peers /\ recent[p] \in [Texts -> Stamps \cup {NoStamp}]
          BY <1>1, <1>2, <2>1 DEF IInv, TypeOK
        <5>2. recent'[p][Text[k]] \in {Stamp[k], NoStamp}
          <6>1. PICK noted : noted = [recent[p] EXCEPT ![Text[k]] = Stamp[k]]
            OBVIOUS
          <6>2. noted[Text[k]] = Stamp[k] /\ recent \in [Peers -> [Texts -> Stamps \cup {NoStamp}]]
            BY <5>1, <6>1 DEF IInv, TypeOK
          <6>3. CASE recent' = [recent EXCEPT ![p] = noted]
            BY <5>1, <6>2, <6>3
          <6>4. CASE recent' = [recent EXCEPT ![p] =
                        [y \in Texts |-> IF y \in Evicted(recentOrder[p]) THEN NoStamp ELSE noted[y]]]
            BY <5>1, <6>2, <6>4
          <6> QED
            BY <2>3, <6>1, <6>3, <6>4 DEF NoteRecent
        <5> QED
          BY <2>1, <4>2, <5>2
      <4>3. CASE m # k /\ m \notin SameText(k)
        <5>1. To[m] # To[k] \/ Text[m] # Text[k]
          BY <4>3 DEF SameText
        <5>2. m \in repeated \/ recent[To[m]][Text[m]] \in {Stamp[m], NoStamp}
          BY <3>1, <3>2, <4>3 DEF ShownInv, KeptOrForgotten
        <5>3. recent'[To[m]][Text[m]] \in {recent[To[m]][Text[m]], NoStamp}
          BY <1>1, <1>2, <2>1, <2>3, <5>1, NoteChanges
        <5>4. m \in repeated => m \in repeated'
          BY <2>3, <4>3 DEF Show
        <5> QED
          BY <5>2, <5>3, <5>4
      <4> QED
        BY <4>1, <4>2, <4>3
    <3> QED
      BY <1>1, <3>2 DEF ShownInv, KeptOrForgotten
  <2> QED
    BY <1>4, <2>2, <2>3 DEF Receive
<1>5. ASSUME NEW p \in Peers, NEW t \in Others, HearOther(p, t)
      PROVE  ShownInv'
  <2>1. t \in Texts /\ shown' = shown /\ repeated' = repeated
    BY <1>5 DEF HearOther, Texts
  <2>2. CASE UNCHANGED recent
    BY <1>3, <2>1, <2>2
  <2>3. CASE NoteRecent(p, t, 0)
    <3>1. \A m \in Msgs : recent'[To[m]][Text[m]] \in {recent[To[m]][Text[m]], NoStamp}
      BY <1>1, <1>2, <2>1, <2>3, NoteChanges
    <3> QED
      BY <1>1, <2>1, <3>1 DEF ShownInv, KeptOrForgotten
  <2> QED
    BY <1>5, <2>2, <2>3 DEF HearOther
<1> QED
  BY <1>3, <1>4, <1>5 DEF Next, ChangeBack, memory, vars

\* Nothing but a packet of it that is no resend shows a message.
LEMMA ShowsNoResend ==
  ASSUME ReceiverAssumption, IInv, [Next]_vars, NEW m \in Msgs, shown'[m] > shown[m]
  PROVE  ~IsResend(To[m], m)
<1>1. shown \in [Msgs -> 0..MAX_SHOWN] /\ MAX_SHOWN \in Nat \ {0, 1}
  BY DEF IInv, TypeOK, ReceiverAssumption
<1>2. shown' # shown
  BY <1>1
<1>3. PICK p \in Peers, pkt \in TxtPackets, n \in Nonces :
        \E path \in ArrivesWith(pkt) : Receive(p, pkt, path, n)
  BY <1>2 DEF Next, HearOther, ChangeBack, memory, vars
<1>4. p = To[pkt.msg] /\ ~IsResend(p, pkt.msg) /\ Show(pkt.msg)
  BY <1>2, <1>3 DEF Receive, memory
<1>5. pkt.msg = m
  BY <1>1, <1>4 DEF Show
<1> QED
  BY <1>4, <1>5

\* A message is put into a chat a second time only when its text was pushed out
\* of the memory or shown again as another message's (_dup_message), for any
\* messages, also those that say the same, and any length of the memory.
THEOREM MessageIsShownAgainIfForgotten ==
  ASSUME ReceiverAssumption PROVE Spec => ShownAgainIfForgotten
<1> DEFINE Again == \A m \in Msgs :
                      shown[m] > 0 /\ shown'[m] > shown[m]
                      => m \in repeated \/ since[To[m]][Text[m]] >= MAX_RECENT
<1>1. Init => ShownInv
  BY InitOK DEF Init, ShownInv, KeptOrForgotten
<1>2. ShownInv /\ [Next]_vars => [Again]_vars
  <2> SUFFICES ASSUME ShownInv, [Next]_vars, NEW m \in Msgs, shown[m] > 0, shown'[m] > shown[m],
                      m \notin repeated
               PROVE  since[To[m]][Text[m]] >= MAX_RECENT
    OBVIOUS
  <2>1. ~IsResend(To[m], m)
    BY ShowsNoResend DEF ShownInv
  <2>2. recent[To[m]][Text[m]] = NoStamp
    BY <2>1 DEF ShownInv, KeptOrForgotten, IsResend
  <2>3. To[m] \in Peers /\ Text[m] \in Texts /\ MAX_RECENT \in Nat
    BY DEF ReceiverAssumption, Texts
  <2>4. Text[m] \notin ToSet(recentOrder[To[m]])
    BY <2>2, <2>3 DEF ShownInv, IInv, OrderIsUnique
  <2>5. Text[m] \in DOMAIN since[To[m]]
    BY <2>3 DEF ShownInv, IInv, TypeOK
  <2>6. since[To[m]][Text[m]] = MAX_RECENT
    BY <2>3, <2>4, <2>5 DEF ShownInv, IInv, SinceIsRight, Ages
  <2> QED
    BY <2>3, <2>6
<1> QED
  BY <1>1, <1>2, ShownStep, PTL DEF Spec, ShownAgainIfForgotten
==============================================================================
