-------------------------- MODULE ChatScreensProofs --------------------------
(***************************************************************************)
(* Theorems about messages on their way to the user, for any chats, bounds *)
(* and lengths of the histories.                                           *)
(***************************************************************************)
EXTENDS ChatScreens, SequenceTheorems, FiniteSetTheorems, TLAPS

Lists == {list \in Seq(Messages) : Len(list) <= MAX_MESSAGES}

Locals == [key : Chats \cup {Home}, id : Nat, count : Nat, todo : SUBSET Nat,
           visit : Nat, text : Lists]

Updates == [visit : Nat, chats : SUBSET Chats, text : Lists]

Types ==
  /\ joined \subseteq Chats
  /\ messages \in [Chats -> Lists]
  /\ unread \in [Chats -> Nat] /\ badges \in [Chats -> Nat]
  /\ visits \in Seq(Chats \cup {Home}) /\ foreground \in BOOLEAN
  /\ readCount \in 0..MAX_MESSAGES
  /\ label \in Lists
  /\ uiQueue \in Seq(Updates)
  /\ used \in 0..EVENTS
  /\ ghosts \in [Chats -> SUBSET Nat]

ThreadTypes == pc \in [Threads -> Pcs] /\ local \in [Threads -> Locals]

Rendering == {"clear", "tell", "copy", "post"}

\* What a thread at a place has in its local variables. At most one subscriber
\* is to be called, and no more when it renders: one screen is open at a time.
Sound(t, at, mine) ==
  /\ at \in Rendering \cup {"add", "bump", "store", "notify", "calls", "drop", "forget"} =>
       mine.key \in Chats
  /\ at \in {"add", "bump", "store"} => mine.id > 0
  /\ at \in {"bump", "store"} => t = "worker"
  /\ at \in {"count", "freeze", "refresh", "subscribe", "drop", "forget"} => t = "ui"
  /\ at # "post" => mine.text = <<>>
  /\ at # "calls" => mine.todo = {}
  /\ at \in Rendering => mine.visit \in 1..Visit /\ visits[mine.visit] = mine.key
  /\ mine.id <= used /\ ToSet(mine.text) \subseteq 1..used
  /\ mine.todo \subseteq 1..Visit
  /\ \A v \in mine.todo : \A w \in mine.todo : v = w

ThreadsSound == \A t \in Threads : Sound(t, pc[t], local[t])

\* The user interface is at work only while a screen is open, and only that one
\* is subscribed.
ScreenSound ==
  /\ foreground => Visit > 0
  /\ pc["ui"] # "idle" => foreground
  /\ pc["ui"] \in {"count", "freeze"} => Shown # Home
  /\ pc["ui"] = "refresh" => Shown = Home
  /\ subscribers \subseteq {Visit}
  /\ ~foreground => subscribers = {}

\* A counter counts messages that were heard.
CountersSound ==
  /\ \A k \in Chats : unread[k] <= used /\ badges[k] <= used
  /\ pc["worker"] \in {"add", "bump", "store"} => \A k \in Chats : unread[k] < used
  /\ pc["worker"] = "store" => local["worker"].count < used

MessagesOld ==
  /\ \A k \in Chats : ToSet(messages[k]) \subseteq 1..used
  /\ promised \subseteq 0..used
  /\ \A i \in DOMAIN uiQueue : uiQueue[i].visit \in 1..Visit

BInv == Types /\ ThreadTypes /\ ThreadsSound /\ ScreenSound /\ CountersSound /\ MessagesOld

-----------------------------------------------------------------------------
(* Sequences.                                                              *)

LEMMA ListFacts ==
  ASSUME NEW S, NEW list \in Seq(S)
  PROVE  /\ Len(list) \in Nat /\ DOMAIN list = 1..Len(list)
         /\ \A x : x \in ToSet(list) <=> \E i \in DOMAIN list : list[i] = x
         /\ ToSet(list) \subseteq S
BY DEF ToSet

LEMMA EmptyList == <<>> \in Lists /\ ToSet(<<>>) = {}
BY EmptySeq, ScreensAssumption DEF Lists, ToSet

LEMMA AppendFacts ==
  ASSUME NEW S, NEW list \in Seq(S), NEW x \in S
  PROVE  /\ Append(list, x) \in Seq(S) /\ Len(Append(list, x)) = Len(list) + 1
         /\ ToSet(Append(list, x)) = ToSet(list) \cup {x}
         /\ \A i \in DOMAIN list : i \in DOMAIN Append(list, x) /\ Append(list, x)[i] = list[i]
         /\ Len(list) + 1 \in DOMAIN Append(list, x) /\ Append(list, x)[Len(list) + 1] = x
         /\ \A i \in DOMAIN Append(list, x) :
              (i \in DOMAIN list /\ Append(list, x)[i] = list[i]) \/ Append(list, x)[i] = x
<1>1. PICK long : long = Append(list, x)
  OBVIOUS
<1>2. /\ long \in Seq(S) /\ Len(long) = Len(list) + 1 /\ Len(list) \in Nat
      /\ DOMAIN long = 1..(Len(list) + 1) /\ DOMAIN list = 1..Len(list)
      /\ \A i \in 1..Len(list) : long[i] = list[i]
      /\ long[Len(list) + 1] = x
  BY <1>1
<1>3. ToSet(long) = ToSet(list) \cup {x}
  BY <1>2 DEF ToSet
<1>4. \A i \in DOMAIN long : (i \in DOMAIN list /\ long[i] = list[i]) \/ long[i] = x
  BY <1>2
<1>5. \A i \in DOMAIN list : i \in DOMAIN long /\ long[i] = list[i]
  BY <1>2
<1>6. Len(list) + 1 \in DOMAIN long
  BY <1>2
<1> QED
  BY <1>1, <1>2, <1>3, <1>4, <1>5, <1>6

LEMMA TailFacts ==
  ASSUME NEW S, NEW list \in Seq(S), list # <<>>
  PROVE  /\ Tail(list) \in Seq(S) /\ Len(Tail(list)) = Len(list) - 1
         /\ Head(list) = list[1] /\ 1 \in DOMAIN list
         /\ \A i \in DOMAIN Tail(list) : i + 1 \in DOMAIN list /\ Tail(list)[i] = list[i + 1]
         /\ \A i \in DOMAIN list : i = 1 \/ (i - 1 \in DOMAIN Tail(list) /\ Tail(list)[i - 1] = list[i])
         /\ ToSet(Tail(list)) \subseteq ToSet(list)
<1>1. PICK short : short = Tail(list)
  OBVIOUS
<1>2. /\ short \in Seq(S) /\ Len(list) \in Nat /\ Len(list) > 0 /\ Len(short) = Len(list) - 1
      /\ DOMAIN list = 1..Len(list) /\ DOMAIN short = 1..(Len(list) - 1)
      /\ Head(list) = list[1]
      /\ \A i \in 1..(Len(list) - 1) : short[i] = list[i + 1]
  BY <1>1, EmptySeq
<1>3. \A i \in DOMAIN short : i + 1 \in DOMAIN list /\ short[i] = list[i + 1]
  BY <1>2
<1>4. \A i \in DOMAIN list : i = 1 \/ (i - 1 \in DOMAIN short /\ short[i - 1] = list[i])
  BY <1>2
<1>5. ToSet(short) \subseteq ToSet(list)
  BY <1>3 DEF ToSet
<1> QED
  BY <1>1, <1>2, <1>3, <1>4, <1>5

\* A history with another message keeps to its cap.
LEMMA CappedFacts ==
  ASSUME NEW list \in Lists, NEW x \in Messages
  PROVE  /\ Capped(Append(list, x)) \in Lists
         /\ ToSet(Capped(Append(list, x))) \subseteq ToSet(list) \cup {x}
<1>1. PICK long : long = Append(list, x)
  OBVIOUS
<1>2. /\ long \in Seq(Messages) /\ Len(long) = Len(list) + 1 /\ Len(list) \in Nat
      /\ Len(list) <= MAX_MESSAGES /\ MAX_MESSAGES \in Nat
      /\ ToSet(long) = ToSet(list) \cup {x}
  BY <1>1, AppendFacts, ScreensAssumption DEF Lists
<1>3. CASE Len(long) > MAX_MESSAGES
  <2>1. long # <<>>
    BY <1>2
  <2>2. /\ Tail(long) \in Seq(Messages) /\ Len(Tail(long)) = Len(long) - 1
        /\ ToSet(Tail(long)) \subseteq ToSet(long)
    BY <1>2, <2>1, TailFacts
  <2> QED
    BY <1>1, <1>2, <1>3, <2>2 DEF Capped, Lists
<1>4. CASE ~(Len(long) > MAX_MESSAGES)
  BY <1>1, <1>2, <1>4 DEF Capped, Lists
<1> QED
  BY <1>3, <1>4

LEMMA ConcatFacts ==
  ASSUME NEW S, NEW a \in Seq(S), NEW b \in Seq(S)
  PROVE  /\ a \o b \in Seq(S)
         /\ \A i \in DOMAIN a : i \in DOMAIN (a \o b) /\ (a \o b)[i] = a[i]
         /\ \A i \in DOMAIN b : Len(a) + i \in DOMAIN (a \o b) /\ (a \o b)[Len(a) + i] = b[i]
         /\ \A i \in DOMAIN (a \o b) :
              \/ i \in DOMAIN a /\ (a \o b)[i] = a[i]
              \/ i - Len(a) \in DOMAIN b /\ (a \o b)[i] = b[i - Len(a)]
<1>1. PICK c : c = a \o b
  OBVIOUS
<1>2. /\ c \in Seq(S) /\ Len(c) = Len(a) + Len(b) /\ Len(a) \in Nat /\ Len(b) \in Nat
      /\ DOMAIN a = 1..Len(a) /\ DOMAIN b = 1..Len(b) /\ DOMAIN c = 1..(Len(a) + Len(b))
      /\ \A i \in 1..Len(c) : c[i] = IF i <= Len(a) THEN a[i] ELSE b[i - Len(a)]
  BY <1>1
<1>3. \A i \in DOMAIN a : i \in DOMAIN c /\ c[i] = a[i]
  BY <1>2
<1>4. \A i \in DOMAIN b : Len(a) + i \in DOMAIN c /\ c[Len(a) + i] = b[i]
  BY <1>2
<1>5. \A i \in DOMAIN c :
        \/ i \in DOMAIN a /\ c[i] = a[i]
        \/ i - Len(a) \in DOMAIN b /\ c[i] = b[i - Len(a)]
  BY <1>2
<1> QED
  BY <1>1, <1>2, <1>3, <1>4, <1>5

\* A set of at most one element as a sequence.
LEMMA SetToSeqFacts ==
  ASSUME NEW x, NEW S, S = {} \/ S = {x}
  PROVE  /\ SetToSeq(S) \in Seq(S)
         /\ S = {x} => 1 \in DOMAIN SetToSeq(S) /\ SetToSeq(S)[1] = x
<1>1. CASE S = {}
  <2>1. Cardinality(S) = 0
    BY <1>1, FS_EmptySet
  <2>2. \E f : f \in [1..Cardinality(S) -> S] /\ IsInjective(f)
    <3>1. <<>> \in [1..Cardinality(S) -> S] /\ IsInjective(<<>>)
      BY <2>1 DEF IsInjective
    <3> QED
      BY <3>1
  <2>3. SetToSeq(S) \in [1..Cardinality(S) -> S]
    BY <2>2 DEF SetToSeq
  <2> QED
    BY <1>1, <2>1, <2>3
<1>2. CASE S = {x}
  <2>1. Cardinality(S) = 1
    BY <1>2, FS_Singleton
  <2>2. \E f : f \in [1..Cardinality(S) -> S] /\ IsInjective(f)
    <3>1. /\ [i \in 1..1 |-> x] \in [1..Cardinality(S) -> S]
          /\ IsInjective([i \in 1..1 |-> x])
      BY <1>2, <2>1 DEF IsInjective
    <3> QED
      BY <3>1
  <2>3. SetToSeq(S) \in [1..Cardinality(S) -> S]
    BY <2>2 DEF SetToSeq
  <2>4. PICK f : f = SetToSeq(S)
    OBVIOUS
  <2>5. f \in [1..1 -> S]
    BY <2>1, <2>3, <2>4
  <2>6. f \in Seq(S)
    <3>1. f = <<f[1]>> /\ f[1] \in S
      BY <2>5
    <3>2. <<f[1]>> \in Seq(S)
      BY <3>1
    <3> QED
      BY <3>1, <3>2
  <2>7. 1 \in DOMAIN f /\ f[1] = x
    BY <1>2, <2>5
  <2> QED
    BY <2>4, <2>6, <2>7
<1> QED
  BY <1>1, <1>2

-----------------------------------------------------------------------------
(* What a step does to the threads.                                        *)

Moved(t, at, mine) == pc' = [pc EXCEPT ![t] = at] /\ local' = [local EXCEPT ![t] = mine]

Others(t) == \A u \in Threads \ {t} : pc'[u] = pc[u] /\ local'[u] = local[u]

LEMMA MovedFacts ==
  ASSUME ThreadTypes, NEW t \in Threads, NEW at \in Pcs, NEW mine \in Locals, Moved(t, at, mine)
  PROVE  ThreadTypes' /\ pc'[t] = at /\ local'[t] = mine /\ Others(t)
BY DEF Moved, Others, ThreadTypes

\* Local variables stay sound while others move and events and visits are added.
LEMMA StaysSound ==
  ASSUME BInv, NEW t \in Threads, NEW at \in Pcs, NEW mine \in Locals, Moved(t, at, mine),
         used' \in Nat, used <= used', Visit' \in Nat, Visit <= Visit',
         \A v \in 1..Visit : visits'[v] = visits[v],
         Sound(t, at, mine)'
  PROVE  ThreadsSound' /\ ThreadTypes'
<1>1. ThreadTypes' /\ pc'[t] = at /\ local'[t] = mine /\ Others(t)
  BY MovedFacts DEF BInv
<1>2. ASSUME NEW u \in Threads, u # t
      PROVE  Sound(u, pc[u], local[u])'
  <2>1. Sound(u, pc[u], local[u]) /\ pc'[u] = pc[u] /\ local'[u] = local[u]
    BY <1>1, <1>2 DEF BInv, ThreadsSound, Others
  <2>2. used \in Nat /\ Visit \in Nat /\ local[u].id \in Nat
    BY DEF BInv, Types, ThreadTypes, Locals, Visit
  <2> QED
    BY <2>1, <2>2 DEF Sound
<1> QED
  BY <1>1, <1>2 DEF ThreadsSound

LEMMA UnusedFacts ==
  /\ Unused \in Locals /\ Unused.key = Home /\ Unused.id = 0 /\ Unused.count = 0
  /\ Unused.todo = {} /\ Unused.visit = 0 /\ Unused.text = <<>>
BY EmptyList DEF Unused, Locals

\* The local variables of a thread that sets out.
Beginning(k, id) == [Unused EXCEPT !.key = k, !.id = id]

LEMMA BeginFacts ==
  ASSUME BInv, NEW t \in Threads, NEW at \in Pcs, NEW k \in Chats, NEW id \in Nat,
         Begin(t, at, k, id)
  PROVE  /\ pc[t] = "idle" /\ used < EVENTS /\ used' = used + 1
         /\ Beginning(k, id) \in Locals /\ Moved(t, at, Beginning(k, id))
         /\ Beginning(k, id).key = k /\ Beginning(k, id).id = id /\ Beginning(k, id).count = 0
         /\ Beginning(k, id).todo = {} /\ Beginning(k, id).visit = 0
         /\ Beginning(k, id).text = <<>>
<1>1. /\ Beginning(k, id) \in Locals
      /\ Beginning(k, id).key = k /\ Beginning(k, id).id = id /\ Beginning(k, id).count = 0
      /\ Beginning(k, id).todo = {} /\ Beginning(k, id).visit = 0
      /\ Beginning(k, id).text = <<>>
  BY EmptyList DEF Beginning, Unused, Locals
<1>2. Moved(t, at, Beginning(k, id))
  BY DEF Begin, Goto, Moved, Beginning
<1> QED
  BY <1>1, <1>2 DEF Begin

LEMMA NextCallFacts ==
  ASSUME BInv, NEW t \in Threads, NEW todo \in SUBSET Nat, NextCall(t, todo)
  PROVE  \E mine \in Locals :
           /\ Moved(t, IF todo = {} THEN "idle" ELSE "calls", mine)
           /\ mine.todo = todo /\ mine.visit = 0 /\ mine.text = <<>>
           /\ todo # {} => mine.key = local[t].key /\ mine.id = local[t].id
           /\ todo = {} => mine = Unused
<1>1. PICK mine : mine = IF todo = {} THEN Unused
                         ELSE [local[t] EXCEPT !.todo = todo, !.visit = 0, !.text = <<>>]
  OBVIOUS
<1>2. /\ mine \in Locals /\ mine.todo = todo /\ mine.visit = 0 /\ mine.text = <<>>
      /\ todo # {} => mine.key = local[t].key /\ mine.id = local[t].id
      /\ todo = {} => mine = Unused
  <2>1. local[t] \in Locals
    BY DEF BInv, ThreadTypes
  <2> QED
    BY <1>1, <2>1, EmptyList, UnusedFacts DEF Locals
<1>3. Moved(t, IF todo = {} THEN "idle" ELSE "calls", mine)
  BY <1>1 DEF NextCall, Goto, Moved, BInv, ThreadTypes
<1> QED
  BY <1>2, <1>3

-----------------------------------------------------------------------------
(* What is true of each thread and of the screen.                          *)

\* A step of a thread that opens and leaves no screen.
LEMMA ScreenStays ==
  ASSUME BInv, NEW t \in Threads, NEW at \in Pcs, NEW mine \in Locals, Moved(t, at, mine),
         used' \in {used, used + 1}, UNCHANGED <<visits, foreground, subscribers>>,
         t = "ui" => /\ at # "idle" => foreground
                     /\ at \in {"count", "freeze"} => Shown # Home
                     /\ at # "refresh",
         Sound(t, at, mine)'
  PROVE  ThreadTypes' /\ ThreadsSound' /\ ScreenSound'
<1>1. used \in Nat /\ used' \in Nat /\ used <= used' /\ Visit \in Nat /\ Visit' = Visit
  BY ScreensAssumption DEF BInv, Types, Visit
<1>2. ThreadTypes' /\ ThreadsSound'
  BY <1>1, StaysSound
<1>3. pc'[t] = at /\ Others(t)
  BY MovedFacts DEF BInv
<1>4. ScreenSound'
  BY <1>3 DEF BInv, ScreenSound, Visit, Shown, Others, Threads
<1> QED
  BY <1>2, <1>4

\* A step that counts nothing.
LEMMA CountersStay ==
  ASSUME BInv, NEW t \in Threads, NEW at \in Pcs, NEW mine \in Locals, Moved(t, at, mine),
         UNCHANGED <<unread, badges>>, used' \in {used, used + 1},
         t = "worker" => at \notin {"bump", "store"} /\ (at = "add" => used' = used + 1)
  PROVE  CountersSound'
<1>1. pc'[t] = at /\ Others(t)
  BY MovedFacts DEF BInv
<1>2. used \in Nat /\ \A k \in Chats : unread[k] \in Nat /\ badges[k] \in Nat
  BY ScreensAssumption DEF BInv, Types
<1>3. pc["worker"] = "store" => local["worker"].count \in Nat
  BY DEF BInv, ThreadTypes, Locals, Threads
<1> QED
  BY <1>1, <1>2, <1>3 DEF BInv, CountersSound, Others, Threads

\* A step that adds and marshals nothing.
LEMMA OldStays ==
  ASSUME BInv, UNCHANGED <<messages, promised, uiQueue, visits>>, used' \in {used, used + 1}
  PROVE  MessagesOld'
<1>1. used \in Nat
  BY ScreensAssumption DEF BInv, Types
<1> QED
  BY <1>1 DEF BInv, MessagesOld, Visit

LEMMA HearKeeps ==
  ASSUME BInv, NEW k \in Chats, Hear(k) \/ HearMark(k) \/ Send \/ RemoveChat(k) \/ AddChat(k)
  PROVE  BInv'
<1>0. used \in Nat /\ Visit \in Nat
  BY ScreensAssumption DEF BInv, Types, Visit
<1>1. PICK t \in Threads, at \in {"add", "notify", "drop"}, c \in Chats, id \in {0, used + 1} :
        /\ Begin(t, at, c, id)
        /\ t = "ui" => foreground
        /\ at = "add" => id = used + 1
        /\ at = "drop" => t = "ui"
  <2>1. CASE Hear(k) \/ HearMark(k)
    BY <2>1 DEF Hear, HearMark, Threads
  <2>2. CASE Send
    BY <2>2 DEF Send, Threads, InChat, BInv, Types
  <2>3. CASE RemoveChat(k) \/ AddChat(k)
    BY <2>3 DEF RemoveChat, AddChat, Threads, InHome
  <2> QED
    BY <2>1, <2>2, <2>3
<1>2. /\ UNCHANGED <<messages, unread, subscribers, visits, foreground, readCount, label,
                     badges, uiQueue, ghosts, promised>>
      /\ joined' \subseteq Chats
  BY DEF Hear, HearMark, Send, RemoveChat, AddChat, manager, screen, history, BInv, Types
<1>3. at \in Pcs /\ id \in Nat
  BY <1>0 DEF Pcs
<1>b. Begin(t, at, c, id)
  BY <1>1
<1>4. used < EVENTS /\ used' = used + 1
  BY <1>3, <1>b, BeginFacts
<1>5. PICK mine \in Locals :
        /\ mine = Beginning(c, id) /\ Moved(t, at, mine) /\ mine.key = c /\ mine.id = id
        /\ mine.todo = {} /\ mine.visit = 0 /\ mine.text = <<>>
  BY <1>3, <1>b, BeginFacts
<1>6. Sound(t, at, mine)'
  BY <1>0, <1>1, <1>4, <1>5, EmptyList DEF Sound, Rendering
<1>7. ThreadTypes' /\ ThreadsSound' /\ ScreenSound'
  BY <1>1, <1>2, <1>3, <1>4, <1>5, <1>6, ScreenStays
<1>8. CountersSound' /\ MessagesOld'
  BY <1>1, <1>2, <1>3, <1>4, <1>5, CountersStay, OldStays
<1>9. Types'
  BY <1>0, <1>2, <1>4, ScreensAssumption DEF BInv, Types
<1> QED
  BY <1>7, <1>8, <1>9 DEF BInv

LEMMA ThreadFacts ==
  ASSUME BInv, NEW t \in Threads
  PROVE  /\ pc[t] \in Pcs /\ local[t] \in Locals /\ Sound(t, pc[t], local[t])
         /\ local[t].key \in Chats \cup {Home} /\ local[t].id \in Nat /\ local[t].count \in Nat
         /\ local[t].todo \in SUBSET Nat /\ local[t].visit \in Nat /\ local[t].text \in Lists
         /\ used \in Nat /\ used <= EVENTS /\ EVENTS \in Nat /\ Visit \in Nat
BY ScreensAssumption DEF BInv, ThreadsSound, ThreadTypes, Types, Locals, Visit

LEMMA GotoMoves ==
  ASSUME BInv, NEW t \in Threads, NEW at, Goto(t, at), UNCHANGED local
  PROVE  Moved(t, at, local[t])
BY DEF BInv, ThreadTypes, Goto, Moved

LEMMA AddKeeps ==
  ASSUME BInv, NEW t \in Threads, Add(t)
  PROVE  BInv'
<1>1. PICK at \in {"bump", "notify"} : Goto(t, at) /\ (at = "bump" <=> t = "worker")
  BY DEF Add
<1>2. PICK k \in Chats, m \in Messages :
        /\ k = local[t].key /\ m = local[t].id
        /\ messages' = [messages EXCEPT ![k] = Capped(Append(messages[k], m))]
        /\ ghosts' = [ghosts EXCEPT ![k] = IF k \in joined THEN @ ELSE @ \cup {m}]
  <2>1. local[t].key \in Chats /\ local[t].id \in Messages
    BY ThreadFacts DEF Add, Sound, Messages
  <2>2. /\ messages' = [messages EXCEPT ![local[t].key] =
                           Capped(Append(messages[local[t].key], local[t].id))]
        /\ ghosts' = [ghosts EXCEPT ![local[t].key] =
                         IF local[t].key \in joined THEN @ ELSE @ \cup {local[t].id}]
    BY DEF Add
  <2> QED
    BY <2>1, <2>2, Zenon
<1>3. /\ pc[t] = "add"
      /\ UNCHANGED <<joined, unread, subscribers, visits, foreground, readCount, label, badges,
                     uiQueue, local, used, promised>>
  BY DEF Add, screen
<1>4. Moved(t, at, local[t]) /\ at \in Pcs
  BY <1>1, <1>3, GotoMoves DEF Pcs
<1>5. used \in Nat /\ m <= used
  BY <1>2, ThreadFacts DEF Sound
<1>6. Sound(t, at, local[t])'
  BY <1>1, <1>3, ThreadFacts DEF Sound, Visit, Rendering
<1>7. ThreadTypes' /\ ThreadsSound' /\ ScreenSound'
  BY <1>1, <1>3, <1>4, <1>5, <1>6, ThreadFacts, ScreenStays DEF BInv, ScreenSound
<1>8. CountersSound'
  <2>1. pc'[t] = at /\ Others(t)
    BY <1>4, ThreadFacts, MovedFacts DEF BInv
  <2> QED
    BY <1>1, <1>3, <2>1 DEF BInv, CountersSound, Others, Threads
<1>9. messages[k] \in Lists
  BY DEF BInv, Types
<1>10. /\ Capped(Append(messages[k], m)) \in Lists
       /\ ToSet(Capped(Append(messages[k], m))) \subseteq ToSet(messages[k]) \cup {m}
  BY <1>9, CappedFacts
<1>11. Types'
  BY <1>2, <1>3, <1>10 DEF BInv, Types, Messages
<1>12. MessagesOld'
  <2>1. ASSUME NEW c \in Chats PROVE ToSet(messages'[c]) \subseteq 1..used
    <3>1. ToSet(messages[c]) \subseteq 1..used /\ m \in 1..used
      BY <1>2, <1>5 DEF BInv, MessagesOld, Messages
    <3>2. messages'[c] = IF c = k THEN Capped(Append(messages[k], m)) ELSE messages[c]
      BY <1>2 DEF BInv, Types
    <3> QED
      BY <1>10, <3>1, <3>2
  <2> QED
    BY <1>3, <2>1 DEF BInv, MessagesOld, Visit
<1> QED
  BY <1>7, <1>8, <1>11, <1>12 DEF BInv

LEMMA BumpKeeps ==
  ASSUME BInv, NEW t \in Threads, Bump(t)
  PROVE  BInv'
<1>1. /\ pc[t] = "bump"
      /\ UNCHANGED <<joined, messages, unread, subscribers, visits, foreground, readCount, label,
                     badges, uiQueue, used, ghosts, promised>>
  BY DEF Bump, manager, screen, history
<1>2. t = "worker" /\ local[t].key \in Chats
  BY <1>1, ThreadFacts DEF Sound
<1>3. unread[local[t].key] \in Nat /\ unread[local[t].key] < used
  BY <1>1, <1>2 DEF BInv, Types, CountersSound
<1>4. PICK mine : mine = [local[t] EXCEPT !.count = unread[local[t].key]]
  OBVIOUS
<1>5. /\ mine \in Locals /\ mine.count = unread[local[t].key] /\ mine.key = local[t].key
      /\ mine.id = local[t].id /\ mine.todo = local[t].todo /\ mine.visit = local[t].visit
      /\ mine.text = local[t].text
  BY <1>3, <1>4, ThreadFacts DEF Locals
<1>6. Moved(t, "store", mine) /\ "store" \in Pcs
  BY <1>4 DEF Bump, Goto, Moved, Pcs, BInv, ThreadTypes
<1>7. Sound(t, "store", mine)'
  BY <1>1, <1>2, <1>5, ThreadFacts DEF Sound, Visit, Rendering
<1>8. ThreadTypes' /\ ThreadsSound' /\ ScreenSound'
  BY <1>1, <1>2, <1>5, <1>6, <1>7, ThreadFacts, ScreenStays
<1>9. CountersSound'
  <2>1. pc'[t] = "store" /\ local'[t] = mine
    BY <1>5, <1>6, MovedFacts DEF BInv
  <2> QED
    BY <1>1, <1>2, <1>3, <1>5, <2>1 DEF BInv, CountersSound
<1>10. Types' /\ MessagesOld'
  BY <1>1, ThreadFacts, OldStays DEF BInv, Types
<1> QED
  BY <1>8, <1>9, <1>10 DEF BInv

LEMMA StoreKeeps ==
  ASSUME BInv, NEW t \in Threads, Store(t)
  PROVE  BInv'
<1>1. /\ pc[t] = "store"
      /\ UNCHANGED <<joined, messages, subscribers, visits, foreground, readCount, label,
                     badges, uiQueue, used, promised>>
  BY DEF Store, manager, screen
<1>2. t = "worker" /\ local[t].key \in Chats
  BY <1>1, ThreadFacts DEF Sound
<1>3. /\ unread' = [unread EXCEPT ![local[t].key] = local[t].count + 1]
      /\ local[t].count < used
      /\ ghosts' \in [Chats -> SUBSET Nat]
  BY <1>1, <1>2, ThreadFacts DEF Store, BInv, Types, CountersSound
<1>4. PICK mine : mine = [local[t] EXCEPT !.count = 0]
  OBVIOUS
<1>5. /\ mine \in Locals /\ mine.count = 0 /\ mine.key = local[t].key
      /\ mine.id = local[t].id /\ mine.todo = local[t].todo /\ mine.visit = local[t].visit
      /\ mine.text = local[t].text
  BY <1>4, ThreadFacts DEF Locals
<1>6. Moved(t, "notify", mine) /\ "notify" \in Pcs
  BY <1>4 DEF Store, Goto, Moved, Pcs, BInv, ThreadTypes
<1>7. Sound(t, "notify", mine)'
  BY <1>1, <1>2, <1>5, ThreadFacts DEF Sound, Visit, Rendering
<1>8. ThreadTypes' /\ ThreadsSound' /\ ScreenSound'
  BY <1>1, <1>2, <1>5, <1>6, <1>7, ThreadFacts, ScreenStays
<1>9. CountersSound'
  <2>1. pc'[t] = "notify"
    BY <1>5, <1>6, MovedFacts DEF BInv
  <2> QED
    BY <1>1, <1>2, <1>3, <2>1, ThreadFacts DEF BInv, CountersSound, Types
<1>10. MessagesOld'
  BY <1>1, ThreadFacts, OldStays
<1>11. Types'
  <2>1. unread' \in [Chats -> Nat]
    BY <1>2, <1>3, ThreadFacts DEF BInv, Types
  <2> QED
    BY <1>1, <1>3, <2>1 DEF BInv, Types
<1> QED
  BY <1>8, <1>9, <1>10, <1>11 DEF BInv

LEMMA NotifyKeeps ==
  ASSUME BInv, NEW t \in Threads, Notify(t)
  PROVE  BInv'
<1>1. /\ pc[t] = "notify" /\ NextCall(t, subscribers)
      /\ UNCHANGED <<joined, messages, unread, subscribers, visits, foreground, readCount, label,
                     badges, uiQueue, used, ghosts>>
      /\ promised' \subseteq promised \cup {local[t].id}
  BY DEF Notify, manager, screen
<1>2. subscribers \in SUBSET Nat /\ subscribers \subseteq {Visit}
  BY ThreadFacts DEF BInv, ScreenSound
<1>3. PICK mine \in Locals :
        /\ Moved(t, IF subscribers = {} THEN "idle" ELSE "calls", mine)
        /\ mine.todo = subscribers /\ mine.visit = 0 /\ mine.text = <<>>
        /\ subscribers # {} => mine.key = local[t].key /\ mine.id = local[t].id
        /\ subscribers = {} => mine = Unused
  BY <1>1, <1>2, NextCallFacts
<1>4. PICK at \in {"idle", "calls"} : at = IF subscribers = {} THEN "idle" ELSE "calls"
  OBVIOUS
<1>5. local[t].id <= used /\ local[t].key \in Chats
  BY <1>1, ThreadFacts DEF Sound
<1>6. Sound(t, at, mine)'
  <2>1. subscribers \subseteq 1..Visit
    BY <1>2, ThreadFacts DEF BInv, ScreenSound
  <2>2. UNCHANGED used /\ Visit' = Visit
    BY <1>1 DEF Visit
  <2>3. CASE subscribers = {}
    BY <1>3, <1>4, <2>2, <2>3, ThreadFacts, EmptyList, UnusedFacts DEF Sound, Rendering
  <2>4. CASE subscribers # {}
    <3>1. \A v \in subscribers : \A w \in subscribers : v = w
      BY <1>2
    <3> QED
      BY <1>3, <1>4, <1>5, <2>1, <2>2, <2>4, <3>1, EmptyList DEF Sound, Rendering
  <2> QED
    BY <2>3, <2>4
<1>7. ThreadTypes' /\ ThreadsSound' /\ ScreenSound'
  <2>1. at \in Pcs /\ Moved(t, at, mine) /\ (t = "ui" => foreground)
    BY <1>1, <1>3, <1>4 DEF Pcs, BInv, ScreenSound
  <2> QED
    BY <1>1, <1>4, <1>6, <2>1, ThreadFacts, ScreenStays
<1>8. CountersSound'
  BY <1>1, <1>3, <1>4, ThreadFacts, CountersStay DEF Pcs
<1>9. Types' /\ MessagesOld'
  BY <1>1, <1>5, ThreadFacts DEF BInv, Types, MessagesOld, Visit
<1> QED
  BY <1>7, <1>8, <1>9 DEF BInv

\* What a screen that was opened marshals is well-formed.
LEMMA UpdateFacts ==
  ASSUME BInv, NEW v \in 1..Visit, NEW chats \in SUBSET Chats, NEW text \in Lists
  PROVE  /\ Refresh(v, chats) \in Updates /\ Refresh(v, chats).visit = v
         /\ Refresh(v, chats).chats = chats /\ Refresh(v, chats).text = <<>>
         /\ Show(v, text) \in Updates /\ Show(v, text).visit = v
         /\ Show(v, text).chats = {} /\ Show(v, text).text = text
BY EmptyList DEF Refresh, Show, Updates

LEMMA QueueGrows ==
  ASSUME BInv, NEW u \in Updates, u.visit \in 1..Visit, uiQueue' = Append(uiQueue, u),
         UNCHANGED <<messages, promised, used, visits>>
  PROVE  uiQueue' \in Seq(Updates) /\ MessagesOld'
<1>1. /\ uiQueue' \in Seq(Updates)
      /\ \A i \in DOMAIN uiQueue' : (i \in DOMAIN uiQueue /\ uiQueue'[i] = uiQueue[i]) \/ uiQueue'[i] = u
  BY AppendFacts DEF BInv, Types
<1> QED
  BY <1>1 DEF BInv, MessagesOld, Visit

LEMMA CallKeeps ==
  ASSUME BInv, NEW t \in Threads, Call(t)
  PROVE  BInv'
<1>1. /\ pc[t] = "calls"
      /\ UNCHANGED <<joined, messages, unread, subscribers, visits, foreground, readCount, label,
                     badges, used, ghosts, promised>>
  BY DEF Call, manager, screen, history
<1>2. PICK v \in local[t].todo :
        IF visits[v] = local[t].key
        THEN /\ Goto(t, "clear")
             /\ local' = [local EXCEPT ![t].todo = @ \ {v}, ![t].visit = v]
             /\ UNCHANGED uiQueue
        ELSE /\ NextCall(t, local[t].todo \ {v})
             /\ uiQueue' = IF visits[v] = Home
                           THEN Append(uiQueue, Refresh(v, TabOf(local[t].key)))
                           ELSE uiQueue
  BY DEF Call
<1>3. /\ local[t].todo \ {v} = {} /\ v \in 1..Visit
      /\ local[t].key \in Chats /\ local[t].text = <<>>
      /\ t = "ui" => foreground
  BY <1>1, ThreadFacts DEF Sound, BInv, ScreenSound
<1>4. UNCHANGED used /\ Visit' = Visit
  BY <1>1 DEF Visit
<1>5. CASE visits[v] = local[t].key
  <2>1. PICK mine : mine = [[local[t] EXCEPT !.todo = {}] EXCEPT !.visit = v]
    OBVIOUS
  <2>2. /\ mine \in Locals /\ mine.count = local[t].count /\ mine.key = local[t].key
        /\ mine.id = local[t].id /\ mine.todo = {} /\ mine.visit = v /\ mine.text = local[t].text
    BY <1>3, <2>1, ThreadFacts DEF Locals
  <2>3. Moved(t, "clear", mine) /\ "clear" \in Pcs
    BY <1>2, <1>3, <1>5, <2>1 DEF Goto, Moved, Pcs, BInv, ThreadTypes
  <2>4. Sound(t, "clear", mine)'
    BY <1>1, <1>3, <1>4, <1>5, <2>2, ThreadFacts, EmptyList DEF Sound, Rendering
  <2>5. ThreadTypes' /\ ThreadsSound' /\ ScreenSound'
    BY <1>1, <1>3, <2>2, <2>3, <2>4, ThreadFacts, ScreenStays
  <2>6. CountersSound' /\ MessagesOld'
    BY <1>1, <1>2, <1>5, <2>2, <2>3, ThreadFacts, CountersStay, OldStays
  <2>7. Types'
    BY <1>1, <1>2, <1>5 DEF BInv, Types
  <2> QED
    BY <2>5, <2>6, <2>7 DEF BInv
<1>6. CASE visits[v] # local[t].key
  <2>1. PICK mine \in Locals : Moved(t, "idle", mine) /\ mine = Unused
    BY <1>2, <1>3, <1>6, NextCallFacts
  <2>2. Sound(t, "idle", mine)' /\ "idle" \in Pcs
    BY <2>1, <1>1, <1>4, ThreadFacts, UnusedFacts, EmptyList DEF Sound, Rendering, Pcs
  <2>3. ThreadTypes' /\ ThreadsSound' /\ ScreenSound'
    BY <1>1, <1>3, <2>1, <2>2, ThreadFacts, ScreenStays
  <2>4. CountersSound'
    BY <1>1, <2>1, <2>2, ThreadFacts, CountersStay
  <2>5. uiQueue' \in Seq(Updates) /\ MessagesOld'
    <3>1. CASE visits[v] = Home
      <4>1. TabOf(local[t].key) \in SUBSET Chats
        BY ScreensAssumption DEF TabOf
      <4> QED
        BY <1>1, <1>2, <1>3, <1>6, <3>1, <4>1, EmptyList, UpdateFacts, QueueGrows
    <3>2. CASE visits[v] # Home
      BY <1>1, <1>2, <1>6, <3>2, OldStays DEF BInv, Types
    <3> QED
      BY <3>1, <3>2
  <2>6. Types'
    BY <1>1, <2>5 DEF BInv, Types
  <2> QED
    BY <2>3, <2>4, <2>5, <2>6 DEF BInv
<1> QED
  BY <1>5, <1>6

LEMMA ClearKeeps ==
  ASSUME BInv, NEW t \in Threads, Clear(t)
  PROVE  BInv'
<1>1. PICK at \in {"tell", "copy"} : Goto(t, at)
  BY DEF Clear
<1>2. /\ pc[t] = "clear"
      /\ UNCHANGED <<joined, messages, subscribers, visits, foreground, readCount, label, badges,
                     uiQueue, local, used, ghosts, promised>>
      /\ unread' = [unread EXCEPT ![local[t].key] = 0]
  BY DEF Clear, screen, history
<1>3. Moved(t, at, local[t]) /\ at \in Pcs
  BY <1>1, <1>2, GotoMoves DEF Pcs
<1>4. Sound(t, at, local[t])'
  BY <1>1, <1>2, ThreadFacts DEF Sound, Visit, Rendering
<1>5. ThreadTypes' /\ ThreadsSound' /\ ScreenSound'
  BY <1>1, <1>2, <1>3, <1>4, ThreadFacts, ScreenStays DEF BInv, ScreenSound
<1>6. CountersSound'
  <2>1. pc'[t] = at /\ Others(t)
    BY <1>3, ThreadFacts, MovedFacts DEF BInv
  <2>2. \A k \in Chats : unread'[k] = IF k = local[t].key THEN 0 ELSE unread[k]
    BY <1>2 DEF BInv, Types
  <2>3. pc'["worker"] \in {"add", "bump", "store"} =>
          /\ pc["worker"] = pc'["worker"] /\ local'["worker"] = local["worker"]
          /\ used > 0
    <3>1. pc'["worker"] \in {"add", "bump", "store"} =>
            /\ pc["worker"] = pc'["worker"] /\ local'["worker"] = local["worker"]
      BY <1>1, <2>1 DEF Others, Threads
    <3>2. pc["worker"] \in {"add", "bump", "store"} => used > 0
      <4>1. pc["worker"] \in {"add", "bump", "store"} => local["worker"].id > 0
        BY ThreadFacts DEF Sound, Threads
      <4>2. local["worker"].id <= used /\ local["worker"].id \in Nat /\ used \in Nat
        BY ThreadFacts DEF Sound, Threads
      <4> QED
        BY <4>1, <4>2
    <3> QED
      BY <3>1, <3>2
  <2> QED
    BY <1>2, <2>2, <2>3, ThreadFacts DEF BInv, CountersSound
<1>7. Types' /\ MessagesOld'
  BY <1>2, ThreadFacts, OldStays DEF BInv, Types
<1> QED
  BY <1>5, <1>6, <1>7 DEF BInv

\* What Tell marshals, and that it does if the home screen is subscribed.
LEMMA TellMarshals ==
  ASSUME BInv, NEW t \in Threads, Tell(t)
  PROVE  /\ uiQueue' \in Seq(Updates)
         /\ \A i \in DOMAIN uiQueue : i \in DOMAIN uiQueue' /\ uiQueue'[i] = uiQueue[i]
         /\ \A i \in DOMAIN uiQueue' :
              \/ i \in DOMAIN uiQueue /\ uiQueue'[i] = uiQueue[i]
              \/ /\ Visit \in 1..Visit /\ Visit \in subscribers
                 /\ uiQueue'[i] = Refresh(Visit, Chats)
         /\ Visit \in subscribers /\ Shown = Home =>
              \E i \in DOMAIN uiQueue' : uiQueue'[i] = Refresh(Visit, Chats)
<1>1. PICK S : S = {Refresh(v, Chats) : v \in {w \in subscribers : visits[w] = Home}}
  OBVIOUS
<1>2. PICK told : told = SetToSeq(S)
  OBVIOUS
<1>3. uiQueue' = uiQueue \o told
  BY <1>1, <1>2 DEF Tell
<1>4. subscribers \subseteq {Visit} /\ subscribers \subseteq 1..Visit
  BY ThreadFacts DEF BInv, ScreenSound
<1>5. S = {} \/ S = {Refresh(Visit, Chats)}
  BY <1>1, <1>4
<1>6. /\ told \in Seq(S)
      /\ S = {Refresh(Visit, Chats)} => 1 \in DOMAIN told /\ told[1] = Refresh(Visit, Chats)
  BY <1>2, <1>5, SetToSeqFacts
<1>7. S \subseteq Updates /\ (S # {} => Visit \in 1..Visit /\ Visit \in subscribers)
  <2>1. S # {} => Visit \in 1..Visit /\ Visit \in subscribers
    BY <1>1, <1>4
  <2> QED
    BY <1>5, <2>1, EmptyList, UpdateFacts
<1>8. told \in Seq(Updates) /\ Len(told) \in Nat /\ DOMAIN told = 1..Len(told)
      /\ \A i \in DOMAIN told : told[i] \in S
  BY <1>6, <1>7
<1>9. uiQueue \in Seq(Updates)
  BY DEF BInv, Types
<1>10. /\ uiQueue \o told \in Seq(Updates)
       /\ \A i \in DOMAIN uiQueue : i \in DOMAIN (uiQueue \o told) /\ (uiQueue \o told)[i] = uiQueue[i]
       /\ \A i \in DOMAIN told : /\ Len(uiQueue) + i \in DOMAIN (uiQueue \o told)
                                /\ (uiQueue \o told)[Len(uiQueue) + i] = told[i]
       /\ \A i \in DOMAIN (uiQueue \o told) :
            \/ i \in DOMAIN uiQueue /\ (uiQueue \o told)[i] = uiQueue[i]
            \/ i - Len(uiQueue) \in DOMAIN told /\ (uiQueue \o told)[i] = told[i - Len(uiQueue)]
  BY <1>8, <1>9, ConcatFacts
<1>11. Visit \in subscribers /\ Shown = Home => S = {Refresh(Visit, Chats)}
  BY <1>1, <1>5 DEF Shown
<1>12. Visit \in subscribers /\ Shown = Home =>
         \E i \in DOMAIN uiQueue' : uiQueue'[i] = Refresh(Visit, Chats)
  BY <1>3, <1>6, <1>10, <1>11
<1>13. \A i \in DOMAIN uiQueue' :
         \/ i \in DOMAIN uiQueue /\ uiQueue'[i] = uiQueue[i]
         \/ /\ Visit \in 1..Visit /\ Visit \in subscribers
            /\ uiQueue'[i] = Refresh(Visit, Chats)
  BY <1>3, <1>5, <1>7, <1>8, <1>10
<1> QED
  BY <1>3, <1>10, <1>12, <1>13

LEMMA TellKeeps ==
  ASSUME BInv, NEW t \in Threads, Tell(t)
  PROVE  BInv'
<1>1. /\ pc[t] = "tell" /\ Goto(t, "copy")
      /\ UNCHANGED <<joined, messages, unread, subscribers, visits, foreground, readCount, label,
                     badges, local, used, ghosts, promised>>
  BY DEF Tell, manager, screen
<1>2. Moved(t, "copy", local[t]) /\ "copy" \in Pcs
  BY <1>1, GotoMoves DEF Pcs
<1>3. Sound(t, "copy", local[t])'
  BY <1>1, ThreadFacts DEF Sound, Visit, Rendering
<1>4. ThreadTypes' /\ ThreadsSound' /\ ScreenSound'
  BY <1>1, <1>2, <1>3, ThreadFacts, ScreenStays DEF BInv, ScreenSound
<1>5. CountersSound'
  BY <1>1, <1>2, ThreadFacts, CountersStay
<1>6. /\ uiQueue' \in Seq(Updates)
      /\ \A i \in DOMAIN uiQueue' : uiQueue'[i].visit \in 1..Visit
  <2>1. Visit \in 1..Visit => Refresh(Visit, Chats).visit \in 1..Visit
    BY EmptyList, UpdateFacts
  <2>2. \A i \in DOMAIN uiQueue : uiQueue[i].visit \in 1..Visit
    BY DEF BInv, MessagesOld
  <2> QED
    BY <2>1, <2>2, TellMarshals
<1>7. Types' /\ MessagesOld'
  BY <1>1, <1>6 DEF BInv, Types, MessagesOld, Visit
<1> QED
  BY <1>4, <1>5, <1>7 DEF BInv

LEMMA CopyKeeps ==
  ASSUME BInv, NEW t \in Threads, Copy(t)
  PROVE  BInv'
<1>1. /\ pc[t] = "copy"
      /\ UNCHANGED <<joined, messages, unread, subscribers, visits, foreground, readCount, label,
                     badges, uiQueue, used, ghosts, promised>>
  BY DEF Copy, manager, screen, history
<1>2. local[t].key \in Chats /\ (t = "ui" => foreground)
  BY <1>1, ThreadFacts DEF Sound, Rendering, BInv, ScreenSound
<1>3. messages[local[t].key] \in Lists /\ ToSet(messages[local[t].key]) \subseteq 1..used
  BY <1>2 DEF BInv, Types, MessagesOld
<1>4. PICK mine : mine = [local[t] EXCEPT !.text = messages[local[t].key]]
  OBVIOUS
<1>5. /\ mine \in Locals /\ mine.count = local[t].count /\ mine.key = local[t].key
      /\ mine.id = local[t].id /\ mine.todo = local[t].todo /\ mine.visit = local[t].visit
      /\ mine.text = messages[local[t].key]
  BY <1>3, <1>4, ThreadFacts DEF Locals
<1>6. Moved(t, "post", mine) /\ "post" \in Pcs
  BY <1>4 DEF Copy, Goto, Moved, Pcs, BInv, ThreadTypes
<1>7. Sound(t, "post", mine)'
  BY <1>1, <1>3, <1>5, ThreadFacts DEF Sound, Visit, Rendering
<1>8. ThreadTypes' /\ ThreadsSound' /\ ScreenSound'
  BY <1>1, <1>2, <1>5, <1>6, <1>7, ThreadFacts, ScreenStays
<1>9. CountersSound' /\ MessagesOld'
  BY <1>1, <1>5, <1>6, ThreadFacts, CountersStay, OldStays
<1>10. Types'
  BY <1>1 DEF BInv, Types
<1> QED
  BY <1>8, <1>9, <1>10 DEF BInv

\* Where Post leaves a thread.
LEMMA PostMoves ==
  ASSUME BInv, NEW t \in Threads, Post(t)
  PROVE  /\ Moved(t, IF t = "ui" /\ Visit \notin subscribers THEN "subscribe" ELSE "idle", Unused)
         /\ local[t].visit \in 1..Visit /\ visits[local[t].visit] = local[t].key
         /\ local[t].text \in Lists
<1>1. pc[t] = "post" /\ AfterRender(t)
  BY DEF Post
<1>2. /\ local[t].todo = {} /\ local[t].text \in Lists
      /\ local[t].visit \in 1..Visit /\ visits[local[t].visit] = local[t].key
  BY <1>1, ThreadFacts DEF Sound, Rendering
<1>3. CASE t = "ui" /\ Visit \notin subscribers
  BY <1>1, <1>2, <1>3 DEF AfterRender, Goto, Moved
<1>4. CASE ~(t = "ui" /\ Visit \notin subscribers)
  <2>1. NextCall(t, {})
    BY <1>1, <1>2, <1>4 DEF AfterRender
  <2>2. PICK mine \in Locals : Moved(t, "idle", mine) /\ mine = Unused
    BY <2>1, NextCallFacts
  <2> QED
    BY <1>2, <1>4, <2>2
<1> QED
  BY <1>3, <1>4

LEMMA PostKeeps ==
  ASSUME BInv, NEW t \in Threads, Post(t)
  PROVE  BInv'
<1>1. /\ pc[t] = "post" /\ uiQueue' = Append(uiQueue, Show(local[t].visit, local[t].text))
      /\ UNCHANGED <<joined, messages, unread, subscribers, visits, foreground, readCount, label,
                     badges, used, ghosts, promised>>
  BY DEF Post, manager, screen, history
<1>2. PICK at \in {"subscribe", "idle"}, mine \in Locals :
        /\ Moved(t, at, mine) /\ mine = Unused
        /\ at = "subscribe" => t = "ui"
  BY PostMoves, UnusedFacts
<1>3. at \in Pcs
  BY DEF Pcs
<1>4. Sound(t, at, mine)'
  BY <1>1, <1>2, ThreadFacts, UnusedFacts, EmptyList DEF Sound, Rendering, Visit
<1>5. ThreadTypes' /\ ThreadsSound' /\ ScreenSound'
  BY <1>1, <1>2, <1>3, <1>4, ThreadFacts, ScreenStays DEF BInv, ScreenSound
<1>6. CountersSound'
  BY <1>1, <1>2, <1>3, ThreadFacts, CountersStay
<1>7. uiQueue' \in Seq(Updates) /\ MessagesOld'
  <2>1. local[t].visit \in 1..Visit /\ local[t].text \in Lists
    BY PostMoves
  <2>2. /\ Show(local[t].visit, local[t].text) \in Updates
        /\ Show(local[t].visit, local[t].text).visit \in 1..Visit
    BY <2>1, UpdateFacts
  <2> QED
    BY <1>1, <2>2, QueueGrows
<1>8. Types'
  BY <1>1, <1>7 DEF BInv, Types
<1> QED
  BY <1>5, <1>6, <1>7, <1>8 DEF BInv

-----------------------------------------------------------------------------
(* The user interface.                                                     *)

LEMMA CountKeeps ==
  ASSUME BInv, Count
  PROVE  BInv'
<1>1. /\ pc["ui"] = "count" /\ "ui" \in Threads
      /\ UNCHANGED <<joined, messages, unread, subscribers, visits, foreground, readCount, label,
                     badges, uiQueue, used, ghosts, promised>>
  BY DEF Count, manager, screen, Threads
<1>2. foreground /\ Shown \in Chats
  <2>1. foreground /\ Shown # Home /\ Visit > 0
    BY <1>1 DEF BInv, ScreenSound
  <2>2. Visit \in 1..Visit
    BY <1>1, <2>1, ThreadFacts
  <2> QED
    BY <2>1, <2>2 DEF BInv, Types, Shown, Visit
<1>3. unread[Shown] \in Nat
  BY <1>2 DEF BInv, Types
<1>4. PICK mine : mine = [local["ui"] EXCEPT !.count = unread[Shown]]
  OBVIOUS
<1>5. /\ mine \in Locals /\ mine.count = unread[Shown] /\ mine.key = local["ui"].key
      /\ mine.id = local["ui"].id /\ mine.todo = local["ui"].todo /\ mine.visit = local["ui"].visit
      /\ mine.text = local["ui"].text
  BY <1>1, <1>3, <1>4, ThreadFacts DEF Locals
<1>6. Moved("ui", "freeze", mine) /\ "freeze" \in Pcs
  BY <1>1, <1>4 DEF Count, Goto, Moved, Pcs, BInv, ThreadTypes
<1>7. Sound("ui", "freeze", mine)'
  BY <1>1, <1>5, ThreadFacts DEF Sound, Visit, Rendering
<1>8. ThreadTypes' /\ ThreadsSound' /\ ScreenSound'
  <2>1. Shown # Home
    BY <1>2, ScreensAssumption
  <2> QED
    BY <1>1, <1>2, <1>5, <1>6, <1>7, <2>1, ThreadFacts, ScreenStays
<1>9. CountersSound' /\ MessagesOld'
  BY <1>1, <1>5, <1>6, ThreadFacts, CountersStay, OldStays
<1>10. Types'
  BY <1>1 DEF BInv, Types
<1> QED
  BY <1>8, <1>9, <1>10 DEF BInv

LEMMA FreezeKeeps ==
  ASSUME BInv, Freeze
  PROVE  BInv'
<1>1. /\ pc["ui"] = "freeze" /\ "ui" \in Threads
      /\ UNCHANGED <<joined, messages, unread, subscribers, visits, foreground, label,
                     badges, uiQueue, used, ghosts, promised>>
  BY DEF Freeze, manager, Threads
<1>2. foreground /\ Shown \in Chats /\ Visit \in 1..Visit
  <2>1. foreground /\ Shown # Home /\ Visit > 0
    BY <1>1 DEF BInv, ScreenSound
  <2>2. Visit \in 1..Visit
    BY <1>1, <2>1, ThreadFacts
  <2> QED
    BY <2>1, <2>2 DEF BInv, Types, Shown, Visit
<1>3. readCount' \in 0..MAX_MESSAGES
  <2>1. PICK n, c : n = Len(messages[Shown]) /\ c = local["ui"].count
    OBVIOUS
  <2>2. n \in Nat /\ n <= MAX_MESSAGES /\ c \in Nat
    BY <1>1, <1>2, <2>1, ThreadFacts DEF BInv, Types, Lists
  <2>3. readCount' = IF n - c > 0 THEN n - c ELSE 0
    BY <2>1 DEF Freeze
  <2> QED
    BY <2>2, <2>3, ScreensAssumption
<1>4. PICK mine : mine = [Unused EXCEPT !.key = Shown, !.visit = Visit]
  OBVIOUS
<1>5. /\ mine \in Locals /\ mine.count = 0 /\ mine.key = Shown
      /\ mine.id = 0 /\ mine.todo = {} /\ mine.visit = Visit /\ mine.text = <<>>
  BY <1>1, <1>2, <1>4, EmptyList, ThreadFacts DEF Unused, Locals
<1>6. Moved("ui", "clear", mine) /\ "clear" \in Pcs
  BY <1>4 DEF Freeze, Goto, Moved, Pcs
<1>7. Sound("ui", "clear", mine)'
  BY <1>1, <1>2, <1>5, EmptyList, ThreadFacts DEF Sound, Visit, Rendering, Shown
<1>8. ThreadTypes' /\ ThreadsSound' /\ ScreenSound'
  BY <1>1, <1>2, <1>5, <1>6, <1>7, ThreadFacts, ScreenStays
<1>9. CountersSound' /\ MessagesOld'
  BY <1>1, <1>5, <1>6, ThreadFacts, CountersStay, OldStays
<1>10. Types'
  BY <1>1, <1>3 DEF BInv, Types
<1> QED
  BY <1>8, <1>9, <1>10 DEF BInv

LEMMA RefreshHomeKeeps ==
  ASSUME BInv, RefreshHome
  PROVE  BInv'
<1>1. /\ pc["ui"] = "refresh" /\ "ui" \in Threads /\ Goto("ui", "subscribe") /\ badges' = unread
      /\ UNCHANGED <<joined, messages, unread, subscribers, visits, foreground, readCount, label,
                     uiQueue, local, used, ghosts, promised>>
  BY DEF RefreshHome, manager, history, Threads
<1>2. Moved("ui", "subscribe", local["ui"]) /\ "subscribe" \in Pcs
  BY <1>1, GotoMoves DEF Pcs
<1>3. Sound("ui", "subscribe", local["ui"])'
  BY <1>1, ThreadFacts DEF Sound, Visit, Rendering
<1>4. ThreadTypes' /\ ThreadsSound' /\ ScreenSound'
  BY <1>1, <1>2, <1>3, ThreadFacts, ScreenStays DEF BInv, ScreenSound
<1>5. CountersSound'
  <2>1. pc'["ui"] = "subscribe" /\ Others("ui")
    BY <1>1, <1>2, ThreadFacts, MovedFacts DEF BInv
  <2> QED
    BY <1>1, <2>1 DEF BInv, CountersSound, Others, Threads
<1>6. Types' /\ MessagesOld'
  BY <1>1, ThreadFacts, OldStays DEF BInv, Types
<1> QED
  BY <1>4, <1>5, <1>6 DEF BInv

LEMMA SubscribeKeeps ==
  ASSUME BInv, Subscribe
  PROVE  BInv'
<1>1. /\ pc["ui"] = "subscribe" /\ "ui" \in Threads /\ Goto("ui", "idle")
      /\ subscribers' = subscribers \cup {Visit}
      /\ UNCHANGED <<joined, messages, unread, visits, foreground, readCount, label, badges,
                     uiQueue, local, used, ghosts, promised>>
  BY DEF Subscribe, manager, screen, history, Threads
<1>2. Moved("ui", "idle", local["ui"]) /\ "idle" \in Pcs
  BY <1>1, GotoMoves DEF Pcs
<1>3. Sound("ui", "idle", local["ui"])'
  BY <1>1, ThreadFacts DEF Sound, Visit, Rendering
<1>4. ThreadTypes' /\ ThreadsSound'
  BY <1>1, <1>2, <1>3, ThreadFacts, StaysSound DEF Visit
<1>5. ScreenSound'
  <2>1. pc'["ui"] = "idle"
    BY <1>1, <1>2, ThreadFacts, MovedFacts DEF BInv
  <2> QED
    BY <1>1, <2>1 DEF BInv, ScreenSound, Visit, Shown
<1>6. CountersSound' /\ MessagesOld'
  BY <1>1, <1>2, ThreadFacts, CountersStay, OldStays
<1>7. Types'
  BY <1>1 DEF BInv, Types
<1> QED
  BY <1>4, <1>5, <1>6, <1>7 DEF BInv

LEMMA DropKeeps ==
  ASSUME BInv, Drop
  PROVE  BInv'
<1>1. /\ pc["ui"] = "drop" /\ "ui" \in Threads /\ Goto("ui", "forget")
      /\ messages' = [messages EXCEPT ![local["ui"].key] = <<>>]
      /\ UNCHANGED <<joined, unread, subscribers, visits, foreground, readCount, label, badges,
                     uiQueue, local, used, ghosts, promised>>
  BY DEF Drop, screen, history, Threads
<1>2. Moved("ui", "forget", local["ui"]) /\ "forget" \in Pcs
  BY <1>1, GotoMoves DEF Pcs
<1>3. Sound("ui", "forget", local["ui"])'
  BY <1>1, ThreadFacts DEF Sound, Visit, Rendering
<1>4. ThreadTypes' /\ ThreadsSound' /\ ScreenSound'
  BY <1>1, <1>2, <1>3, ThreadFacts, ScreenStays DEF BInv, ScreenSound
<1>5. CountersSound'
  BY <1>1, <1>2, ThreadFacts, CountersStay
<1>6. messages' \in [Chats -> Lists] /\ \A k \in Chats : messages'[k] = messages[k] \/ messages'[k] = <<>>
  BY <1>1, EmptyList DEF BInv, Types
<1>7. Types' /\ MessagesOld'
  BY <1>1, <1>6, EmptyList DEF BInv, Types, MessagesOld, Visit
<1> QED
  BY <1>4, <1>5, <1>7 DEF BInv

LEMMA ForgetKeeps ==
  ASSUME BInv, Forget
  PROVE  BInv'
<1>1. /\ pc["ui"] = "forget" /\ "ui" \in Threads /\ Goto("ui", "notify")
      /\ unread' = [unread EXCEPT ![local["ui"].key] = 0]
      /\ UNCHANGED <<joined, messages, subscribers, visits, foreground, readCount, label, badges,
                     uiQueue, local, used, ghosts, promised>>
  BY DEF Forget, screen, history, Threads
<1>2. Moved("ui", "notify", local["ui"]) /\ "notify" \in Pcs
  BY <1>1, GotoMoves DEF Pcs
<1>3. Sound("ui", "notify", local["ui"])'
  BY <1>1, ThreadFacts DEF Sound, Visit, Rendering
<1>4. ThreadTypes' /\ ThreadsSound' /\ ScreenSound'
  BY <1>1, <1>2, <1>3, ThreadFacts, ScreenStays DEF BInv, ScreenSound
<1>5. CountersSound'
  <2>1. pc'["ui"] = "notify" /\ Others("ui")
    BY <1>1, <1>2, ThreadFacts, MovedFacts DEF BInv
  <2>2. \A k \in Chats : unread'[k] = unread[k] \/ unread'[k] = 0
    BY <1>1 DEF BInv, Types
  <2>3. pc["worker"] \in {"add", "bump", "store"} => used > 0
    <3>1. pc["worker"] \in {"add", "bump", "store"} => local["worker"].id > 0
      BY ThreadFacts DEF Sound, Threads
    <3>2. local["worker"].id <= used /\ local["worker"].id \in Nat /\ used \in Nat
      BY ThreadFacts DEF Sound, Threads
    <3> QED
      BY <3>1, <3>2
  <2> QED
    BY <1>1, <2>1, <2>2, <2>3, ThreadFacts DEF BInv, CountersSound, Others, Threads
<1>6. Types' /\ MessagesOld'
  BY <1>1, ThreadFacts, OldStays DEF BInv, Types
<1> QED
  BY <1>4, <1>5, <1>6 DEF BInv

LEMMA OpenKeeps ==
  ASSUME BInv, NEW s \in Chats \cup {Home}, Open(s)
  PROVE  BInv' /\ Visit' = Visit + 1 /\ Shown' = s
<1>1. /\ pc["ui"] = "idle" /\ "ui" \in Threads /\ ~foreground /\ foreground' = TRUE
      /\ visits' = Append(visits, s)
      /\ Goto("ui", IF s = Home THEN "refresh" ELSE "count")
      /\ UNCHANGED <<joined, messages, unread, subscribers, readCount, label, badges,
                     uiQueue, local, used, ghosts, promised>>
  BY DEF Open, manager, Threads
<1>2. /\ visits' \in Seq(Chats \cup {Home}) /\ Visit' = Visit + 1 /\ Visit \in Nat
      /\ \A v \in 1..Visit : visits'[v] = visits[v]
      /\ Shown' = s
  BY <1>1 DEF BInv, Types, Visit, Shown
<1>3. PICK at \in {"refresh", "count"} :
        /\ Goto("ui", at)
        /\ at = "refresh" => s = Home
        /\ at = "count" => s # Home
  BY <1>1
<1>4. Moved("ui", at, local["ui"]) /\ at \in Pcs
  BY <1>1, <1>3, GotoMoves DEF Pcs
<1>5. Sound("ui", at, local["ui"])'
  BY <1>1, <1>2, <1>3, ThreadFacts DEF Sound, Rendering
<1>6. ThreadTypes' /\ ThreadsSound'
  <2>1. /\ "ui" \in Threads /\ local["ui"] \in Locals
        /\ used' \in Nat /\ used <= used' /\ Visit' \in Nat /\ Visit <= Visit'
    BY <1>1, <1>2, ThreadFacts
  <2> QED
    BY <1>1, <1>2, <1>4, <1>5, <2>1, StaysSound
<1>7. ScreenSound'
  <2>1. pc'["ui"] = at
    BY <1>1, <1>4, ThreadFacts, MovedFacts DEF BInv
  <2>2. subscribers' = {}
    BY <1>1 DEF BInv, ScreenSound
  <2> QED
    BY <1>1, <1>2, <1>3, <2>1, <2>2 DEF ScreenSound
<1>8. CountersSound'
  BY <1>1, <1>3, <1>4, ThreadFacts, CountersStay
<1>9. MessagesOld'
  BY <1>1, <1>2 DEF BInv, MessagesOld
<1>10. Types'
  BY <1>1, <1>2 DEF BInv, Types
<1> QED
  BY <1>2, <1>6, <1>7, <1>8, <1>9, <1>10 DEF BInv

LEMMA LeaveKeeps ==
  ASSUME BInv, Leave
  PROVE  BInv' /\ Visit' = Visit
<1>1. /\ pc["ui"] = "idle" /\ foreground' = FALSE /\ readCount' = 0 /\ label' = <<>>
      /\ subscribers' = subscribers \ {Visit} /\ badges' = [k \in Chats |-> 0] /\ promised' = {}
      /\ UNCHANGED <<joined, messages, unread, visits, uiQueue, pc, local, used, ghosts>>
  BY DEF Leave, manager
<1>2. Visit' = Visit
  BY <1>1 DEF Visit
<1>3. ThreadTypes' /\ ThreadsSound'
  BY <1>1, <1>2 DEF BInv, ThreadTypes, ThreadsSound, Sound
<1>4. ScreenSound'
  BY <1>1, <1>2 DEF BInv, ScreenSound
<1>5. CountersSound' /\ MessagesOld'
  BY <1>1, <1>2, ThreadFacts, ScreensAssumption DEF BInv, CountersSound, MessagesOld, Types
<1>6. Types'
  <2>1. badges' \in [Chats -> Nat] /\ readCount' \in 0..MAX_MESSAGES
    BY <1>1, ScreensAssumption
  <2> QED
    BY <1>1, <2>1, EmptyList DEF BInv, Types
<1> QED
  BY <1>2, <1>3, <1>4, <1>5, <1>6 DEF BInv

\* What RunUpdate leaves in the queue.
LEMMA RunUpdateQueue ==
  ASSUME BInv, RunUpdate
  PROVE  /\ uiQueue' \in Seq(Updates) /\ Head(uiQueue) \in Updates /\ Head(uiQueue) = uiQueue[1]
         /\ \A i \in DOMAIN uiQueue : i = 1 \/ \E j \in DOMAIN uiQueue' : uiQueue'[j] = uiQueue[i]
         /\ \A i \in DOMAIN uiQueue' : \E j \in DOMAIN uiQueue : uiQueue'[i] = uiQueue[j]
<1>1. uiQueue # <<>> /\ uiQueue' = Tail(uiQueue) /\ uiQueue \in Seq(Updates)
  BY DEF RunUpdate, BInv, Types
<1>2. /\ Tail(uiQueue) \in Seq(Updates)
      /\ Head(uiQueue) = uiQueue[1] /\ 1 \in DOMAIN uiQueue
      /\ \A i \in DOMAIN Tail(uiQueue) : i + 1 \in DOMAIN uiQueue /\ Tail(uiQueue)[i] = uiQueue[i + 1]
      /\ \A i \in DOMAIN uiQueue :
           i = 1 \/ (i - 1 \in DOMAIN Tail(uiQueue) /\ Tail(uiQueue)[i - 1] = uiQueue[i])
  BY <1>1, TailFacts
<1>3. uiQueue[1] \in Updates
  BY <1>1, <1>2
<1> QED
  BY <1>1, <1>2, <1>3

LEMMA RunUpdateKeeps ==
  ASSUME BInv, RunUpdate
  PROVE  BInv'
<1>1. /\ UNCHANGED <<joined, messages, unread, subscribers, visits, foreground, readCount, pc, local,
                     used, ghosts, promised>>
      /\ label' = label \/ label' = Head(uiQueue).text
  BY DEF RunUpdate, manager
<1>2. /\ \A k \in Chats : badges'[k] = badges[k] \/ badges'[k] = unread[k]
      /\ badges' \in [Chats -> Nat]
  BY DEF RunUpdate, BInv, Types
<1>3. Head(uiQueue).text \in Lists
  BY RunUpdateQueue DEF Updates
<1>4. Types'
  BY <1>1, <1>2, <1>3, RunUpdateQueue DEF BInv, Types
<1>5. ThreadTypes' /\ ThreadsSound' /\ ScreenSound'
  BY <1>1 DEF BInv, ThreadTypes, ThreadsSound, Sound, ScreenSound, Visit, Shown
<1>6. CountersSound'
  BY <1>1, <1>2 DEF BInv, CountersSound
<1>7. MessagesOld'
  BY <1>1, RunUpdateQueue DEF BInv, MessagesOld, Visit
<1> QED
  BY <1>4, <1>5, <1>6, <1>7 DEF BInv

LEMMA InitBInv == Init => BInv
<1> SUFFICES ASSUME Init PROVE BInv
  OBVIOUS
<1> USE DEF Init
<1>1. Types /\ ThreadTypes
  <2>1. /\ messages \in [Chats -> Lists] /\ unread \in [Chats -> Nat] /\ badges \in [Chats -> Nat]
        /\ ghosts \in [Chats -> SUBSET Nat] /\ label \in Lists
    BY EmptyList
  <2>2. readCount \in 0..MAX_MESSAGES /\ used \in 0..EVENTS
    BY ScreensAssumption
  <2>3. visits \in Seq(Chats \cup {Home}) /\ uiQueue \in Seq(Updates)
    OBVIOUS
  <2>4. ThreadTypes
    BY UnusedFacts DEF ThreadTypes, Pcs
  <2> QED
    BY <2>1, <2>2, <2>3, <2>4 DEF Types
<1>2. ThreadsSound
  BY EmptyList, UnusedFacts DEF ThreadsSound, Sound, Rendering
<1>3. ScreenSound
  BY DEF ScreenSound, Threads
<1>4. CountersSound
  BY DEF CountersSound, Threads
<1>5. MessagesOld
  BY EmptyList DEF MessagesOld
<1> QED
  BY <1>1, <1>2, <1>3, <1>4, <1>5 DEF BInv

LEMMA NextBInv == BInv /\ [Next]_vars => BInv'
<1> SUFFICES ASSUME BInv, [Next]_vars PROVE BInv'
  OBVIOUS
<1>1. ASSUME NEW k \in Chats, Hear(k) \/ HearMark(k) \/ RemoveChat(k) \/ AddChat(k) PROVE BInv'
  BY <1>1, HearKeeps
<1>2. CASE Send
  <2>1. PICK k \in Chats : TRUE
    <3>1. Visit \in 1..Visit
      BY <1>2, ThreadFacts DEF Send, InChat, BInv, ScreenSound, Threads
    <3> QED
      BY <1>2, <3>1 DEF Send, InChat, BInv, Types, Shown, Visit
  <2> QED
    BY <1>2, <2>1, HearKeeps
<1>3. ASSUME NEW t \in Threads, Deliver(t) PROVE BInv'
  BY <1>3, AddKeeps, BumpKeeps, StoreKeeps, NotifyKeeps, CallKeeps, ClearKeeps, TellKeeps,
     CopyKeeps, PostKeeps DEF Deliver
<1>4. CASE UiStep
  BY <1>4, CountKeeps, FreezeKeeps, RefreshHomeKeeps, SubscribeKeeps, DropKeeps, ForgetKeeps
  DEF UiStep
<1>5. ASSUME NEW s \in Chats \cup {Home}, Open(s) PROVE BInv'
  BY <1>5, OpenKeeps
<1>6. CASE Leave \/ RunUpdate
  BY <1>6, LeaveKeeps, RunUpdateKeeps
<1>7. CASE UNCHANGED vars
  BY <1>7 DEF BInv, Types, ThreadTypes, ThreadsSound, Sound, ScreenSound, CountersSound, MessagesOld,
              Visit, Shown, vars, manager, screen, history
<1> QED
  BY <1>1, <1>2, <1>3, <1>4, <1>5, <1>6, <1>7 DEF Next, User

LEMMA BInvIsInvariant == Spec => []BInv
BY InitBInv, NextBInv, PTL DEF Spec

\* Types of the messages on their way, for any chats, caps, lengths of
\* histories and orders in which three threads run.
THEOREM TypeCorrect == Spec => []TypeOK
<1>1. BInv => TypeOK
  <2> SUFFICES ASSUME BInv PROVE TypeOK
    OBVIOUS
  <2>1. \A k \in Chats : /\ messages[k] \in Seq(Messages) /\ Len(messages[k]) <= MAX_MESSAGES
                         /\ unread[k] \in 0..EVENTS /\ badges[k] \in 0..EVENTS
    BY ScreensAssumption DEF BInv, Types, Lists, CountersSound
  <2>2. ToSet(label) \subseteq Messages
    BY ListFacts DEF BInv, Types, Lists
  <2>3. subscribers \subseteq 1..Visit
    BY DEF BInv, Types, ScreenSound, Visit
  <2>4. \A t \in Threads : local[t].key \in Chats \cup {Home} /\ local[t].todo \subseteq 1..Visit
    BY ThreadFacts DEF Sound
  <2> QED
    BY <2>1, <2>2, <2>3, <2>4 DEF TypeOK, BInv, Types, ThreadTypes
<1> QED
  BY <1>1, BInvIsInvariant, PTL

-----------------------------------------------------------------------------
(* Messages that are new, and chats that are gone.                         *)

\* A message that is being added is nowhere yet.
Fresh ==
  \A t \in Threads : pc[t] = "add" =>
    /\ \A k \in Chats : local[t].id \notin ToSet(messages[k])
    /\ \A u \in Threads \ {t} : local[u].id # local[t].id
    /\ local[t].id \notin promised
    /\ t # "worker" => local[t].id \in own

\* The message the worker counts is in the chat it counts it for.
Placed ==
  pc["worker"] \in {"bump", "store"} =>
    \A k \in Chats : local["worker"].id \in ToSet(messages[k]) => k = local["worker"].key

Removing(k) == pc["ui"] \in {"drop", "forget"} /\ local["ui"].key = k

\* A chat that is being removed is no longer joined, and one that was removed has
\* nothing that a thread did not add late.
Gone ==
  /\ \A k \in Chats : Removing(k) => k \notin joined
  /\ \A k \in Chats \ joined :
       /\ ~(Removing(k) /\ pc["ui"] = "drop") => ToSet(messages[k]) \subseteq ghosts[k]
       /\ ~Removing(k) /\ unread[k] > 0 => ghosts[k] # {}

\* A step of a thread that handles what it has begun.
Handles(t) ==
  /\ Others(t)
  /\ pc'[t] # "add"
  /\ local'[t].id \in {local[t].id, 0}
  /\ pc'[t] \in {"bump", "store"} =>
       /\ pc[t] \in {"add", "bump"}
       /\ local'[t].id = local[t].id /\ local'[t].key = local[t].key
  /\ pc[t] = "idle" => local'[t] = local[t]
  /\ UNCHANGED <<joined, own, used>>
  /\ \A k \in Chats :
       \/ ToSet(messages'[k]) \subseteq ToSet(messages[k])
       \/ /\ pc[t] = "add" /\ k = local[t].key
          /\ ToSet(messages'[k]) \subseteq ToSet(messages[k]) \cup {local[t].id}
  /\ promised' \subseteq promised \cup {local[t].id}

LEMMA DeliverHandles ==
  ASSUME BInv, NEW t \in Threads, Deliver(t)
  PROVE  Handles(t)
<1>0. /\ messages \in [Chats -> Lists] /\ local \in [Threads -> Locals] /\ pc \in [Threads -> Pcs]
  BY DEF BInv, Types, ThreadTypes
<1>1. CASE Add(t)
  <2>1. PICK at \in {"bump", "notify"} : Moved(t, at, local[t])
    BY <1>1, GotoMoves DEF Add
  <2>2. Others(t) /\ pc'[t] = at /\ local'[t] = local[t]
    BY <2>1, <1>0, ThreadFacts, MovedFacts DEF BInv, Pcs
  <2>3. local[t].key \in Chats /\ local[t].id \in Messages
    BY <1>1, ThreadFacts DEF Add, Sound, Messages
  <2>4. ASSUME NEW k \in Chats
        PROVE  \/ ToSet(messages'[k]) \subseteq ToSet(messages[k])
               \/ /\ k = local[t].key
                  /\ ToSet(messages'[k]) \subseteq ToSet(messages[k]) \cup {local[t].id}
    <3>1. messages' = [messages EXCEPT ![local[t].key] =
                         Capped(Append(messages[local[t].key], local[t].id))]
      BY <1>1 DEF Add
    <3>2. CASE k = local[t].key
      BY <1>0, <2>3, <3>1, <3>2, CappedFacts
    <3>3. CASE k # local[t].key
      BY <1>0, <3>1, <3>3
    <3> QED
      BY <3>2, <3>3
  <2>5. pc[t] = "add" /\ UNCHANGED <<joined, own, used, promised>>
    BY <1>1 DEF Add
  <2> QED
    BY <2>2, <2>4, <2>5 DEF Handles
<1>2. CASE Bump(t)
  <2>1. /\ pc[t] = "bump" /\ pc'[t] = "store" /\ local'[t].id = local[t].id /\ local'[t].key = local[t].key
        /\ Others(t)
    BY <1>0, <1>2 DEF Bump, Goto, Others, Locals
  <2> QED
    BY <1>2, <2>1 DEF Handles, Bump, manager, history
<1>3. CASE Store(t)
  <2>1. /\ pc[t] = "store" /\ pc'[t] = "notify" /\ local'[t].id = local[t].id
        /\ Others(t)
    BY <1>0, <1>3 DEF Store, Goto, Others, Locals
  <2> QED
    BY <1>3, <2>1 DEF Handles, Store
<1>4. ASSUME NEW todo \in SUBSET Nat, NextCall(t, todo)
      PROVE  Others(t) /\ pc'[t] \in {"idle", "calls"} /\ local'[t].id \in {local[t].id, 0}
  <2>1. PICK mine \in Locals :
           /\ Moved(t, IF todo = {} THEN "idle" ELSE "calls", mine)
           /\ mine.todo = todo /\ mine.visit = 0 /\ mine.text = <<>>
           /\ todo # {} => mine.key = local[t].key /\ mine.id = local[t].id
           /\ todo = {} => mine = Unused
    BY <1>4, NextCallFacts
  <2>2. PICK at \in {"idle", "calls"} : at = IF todo = {} THEN "idle" ELSE "calls"
    OBVIOUS
  <2>3. ThreadTypes /\ at \in Pcs /\ Moved(t, at, mine)
    BY <1>0, <2>1, <2>2 DEF Pcs, ThreadTypes
  <2>4. pc'[t] = at /\ local'[t] = mine /\ Others(t)
    BY <2>3, MovedFacts
  <2> QED
    BY <2>1, <2>2, <2>4, UnusedFacts
<1>5. CASE Notify(t)
  <2>1. subscribers \in SUBSET Nat
    BY ThreadFacts DEF BInv, ScreenSound
  <2> QED
    BY <1>4, <1>5, <2>1 DEF Handles, Notify, manager
<1>6. CASE Call(t)
  <2>1. PICK v \in local[t].todo :
          \/ /\ Goto(t, "clear")
             /\ local' = [local EXCEPT ![t].todo = @ \ {v}, ![t].visit = v]
          \/ NextCall(t, local[t].todo \ {v})
    BY <1>6 DEF Call
  <2>2. local[t].todo \ {v} \in SUBSET Nat
    BY ThreadFacts
  <2>3. Others(t) /\ pc'[t] \in {"clear", "idle", "calls"} /\ local'[t].id \in {local[t].id, 0}
    BY <1>0, <1>4, <2>1, <2>2 DEF Goto, Others, Locals
  <2>4. pc[t] = "calls"
    BY <1>6 DEF Call
  <2> QED
    BY <1>6, <2>3, <2>4 DEF Handles, Call, manager, history
<1>7. CASE Clear(t) \/ Tell(t)
  <2>1. /\ pc[t] \in {"clear", "tell"} /\ pc'[t] \in {"tell", "copy"} /\ local' = local
        /\ Others(t)
    BY <1>0, <1>7 DEF Clear, Tell, Goto, Others
  <2> QED
    BY <1>7, <2>1 DEF Handles, Clear, Tell, manager, history
<1>8. CASE Copy(t)
  <2>1. pc[t] = "copy" /\ pc'[t] = "post" /\ local'[t].id = local[t].id /\ Others(t)
    BY <1>0, <1>8 DEF Copy, Goto, Others, Locals
  <2> QED
    BY <1>8, <2>1 DEF Handles, Copy, manager, history
<1>9. CASE Post(t)
  <2>1. PICK at \in {"subscribe", "idle"}, mine \in Locals : Moved(t, at, mine) /\ mine = Unused
    BY <1>9, PostMoves, UnusedFacts
  <2>2. pc'[t] = at /\ local'[t] = mine /\ Others(t)
    BY <1>0, <2>1, MovedFacts DEF Pcs, ThreadTypes
  <2> QED
    BY <1>9, <2>1, <2>2, UnusedFacts DEF Handles, Post, manager, history
<1> QED
  BY <1>1, <1>2, <1>3, <1>5, <1>6, <1>7, <1>8, <1>9 DEF Deliver

LEMMA UiHandles ==
  ASSUME BInv,
         UiStep \/ RunUpdate \/ Leave \/ (\E s \in Chats \cup {Home} : Open(s))
  PROVE  Handles("ui") /\ "ui" \in Threads
<1>0. /\ messages \in [Chats -> Lists] /\ local \in [Threads -> Locals] /\ pc \in [Threads -> Pcs]
      /\ "ui" \in Threads
  BY DEF BInv, Types, ThreadTypes, Threads
<1>1. CASE Count
  <2>1. pc["ui"] = "count" /\ pc'["ui"] = "freeze" /\ local'["ui"].id = local["ui"].id /\ Others("ui")
    BY <1>0, <1>1 DEF Count, Goto, Others, Locals
  <2> QED
    BY <1>0, <1>1, <2>1 DEF Handles, Count, manager
<1>2. CASE Freeze
  <2>1. pc["ui"] = "freeze" /\ pc'["ui"] = "clear" /\ local'["ui"].id = 0 /\ Others("ui")
    BY <1>0, <1>2 DEF Freeze, Goto, Others, Unused
  <2> QED
    BY <1>0, <1>2, <2>1 DEF Handles, Freeze, manager
<1>3. CASE RefreshHome
  <2>1. pc["ui"] = "refresh" /\ pc'["ui"] = "subscribe" /\ local' = local /\ Others("ui")
    BY <1>0, <1>3 DEF RefreshHome, Goto, Others
  <2> QED
    BY <1>0, <1>3, <2>1 DEF Handles, RefreshHome, manager, history
<1>4. CASE Subscribe
  <2>1. pc["ui"] = "subscribe" /\ pc'["ui"] = "idle" /\ local' = local /\ Others("ui")
    BY <1>0, <1>4 DEF Subscribe, Goto, Others
  <2> QED
    BY <1>0, <1>4, <2>1 DEF Handles, Subscribe, manager, history
<1>5. CASE Drop
  <2>1. pc["ui"] = "drop" /\ pc'["ui"] = "forget" /\ local' = local /\ Others("ui")
    BY <1>0, <1>5 DEF Drop, Goto, Others
  <2>2. \A k \in Chats : messages'[k] = messages[k] \/ messages'[k] = <<>>
    BY <1>0, <1>5 DEF Drop
  <2>3. \A k \in Chats : ToSet(messages'[k]) \subseteq ToSet(messages[k])
    BY <2>2, EmptyList
  <2> QED
    BY <1>0, <1>5, <2>1, <2>3 DEF Handles, Drop, history
<1>6. CASE Forget
  <2>1. pc["ui"] = "forget" /\ pc'["ui"] = "notify" /\ local' = local /\ Others("ui")
    BY <1>0, <1>6 DEF Forget, Goto, Others
  <2> QED
    BY <1>0, <1>6, <2>1 DEF Handles, Forget, history
<1>7. CASE RunUpdate \/ Leave
  <2>1. pc["ui"] = "idle" /\ pc' = pc /\ local' = local /\ Others("ui")
    BY <1>7 DEF RunUpdate, Leave, Others
  <2> QED
    BY <1>0, <1>7, <2>1 DEF Handles, RunUpdate, Leave, manager
<1>8. ASSUME NEW s \in Chats \cup {Home}, Open(s) PROVE Handles("ui")
  <2>1. pc["ui"] = "idle" /\ pc'["ui"] \in {"refresh", "count"} /\ local' = local /\ Others("ui")
    BY <1>0, <1>8 DEF Open, Goto, Others
  <2> QED
    BY <1>0, <1>8, <2>1 DEF Handles, Open, manager
<1> QED
  BY <1>0, <1>1, <1>2, <1>3, <1>4, <1>5, <1>6, <1>7, <1>8 DEF UiStep

\* A step with which a thread sets out.
Begins(t) ==
  /\ Others(t) /\ pc[t] = "idle" /\ used' = used + 1
  /\ pc'[t] \in {"add", "notify", "drop"}
  /\ local'[t].key \in Chats /\ local'[t].id \in {0, used + 1}
  /\ local'[t].todo = {} /\ local'[t].text = <<>>
  /\ pc'[t] = "add" => local'[t].id = used + 1 /\ (t # "worker" => used + 1 \in own')
  /\ own \subseteq own'
  /\ \/ pc'[t] # "drop" /\ joined' = joined
     \/ t = "ui" /\ pc'[t] = "notify" /\ joined' = joined \cup {local'[t].key}
     \/ t = "ui" /\ pc'[t] = "drop" /\ joined' = joined \ {local'[t].key}
  /\ UNCHANGED <<messages, unread, subscribers, visits, foreground, badges, uiQueue,
                 seen, missed, ghosts, promised, gap>>

LEMMA BeginBegins ==
  ASSUME BInv, NEW t \in Threads, NEW at \in {"add", "notify", "drop"}, NEW c \in Chats,
         NEW id \in {0, used + 1}, Begin(t, at, c, id)
  PROVE  /\ Others(t) /\ pc[t] = "idle" /\ used' = used + 1
         /\ pc'[t] = at /\ local'[t].key = c /\ local'[t].id = id
         /\ local'[t].todo = {} /\ local'[t].text = <<>>
<1>1. at \in Pcs /\ id \in Nat /\ ThreadTypes
  BY ThreadFacts DEF Pcs, BInv
<1>2. PICK mine \in Locals :
        /\ mine = Beginning(c, id) /\ Moved(t, at, mine) /\ mine.key = c /\ mine.id = id
        /\ mine.todo = {} /\ mine.visit = 0 /\ mine.text = <<>>
  BY <1>1, BeginFacts
<1>3. pc'[t] = at /\ local'[t] = mine /\ Others(t)
  BY <1>1, <1>2, MovedFacts
<1> QED
  BY <1>1, <1>2, <1>3, BeginFacts

LEMMA UserBegins ==
  ASSUME BInv, NEW k \in Chats, Hear(k) \/ HearMark(k) \/ Send \/ RemoveChat(k) \/ AddChat(k)
  PROVE  \E t \in Threads : Begins(t)
<1>1. "worker" \in Threads /\ "ui" \in Threads /\ "sender" \in Threads
  BY DEF Threads
<1>2. CASE Hear(k)
  <2>1. Begin("worker", "add", k, used + 1)
    BY <1>2 DEF Hear
  <2>2. Begins("worker")
    BY <1>1, <1>2, <2>1, BeginBegins DEF Hear, Begins, manager, screen, history
  <2> QED
    BY <1>1, <2>2
<1>3. CASE HearMark(k)
  <2>1. Begin("worker", "notify", k, 0)
    BY <1>3 DEF HearMark
  <2>2. Begins("worker")
    BY <1>1, <1>3, <2>1, BeginBegins DEF HearMark, Begins, manager, screen, history
  <2> QED
    BY <1>1, <2>2
<1>4. CASE Send
  <2>1. PICK t \in {"sender", "ui"} : Begin(t, "add", Shown, used + 1)
    BY <1>4 DEF Send
  <2>2. t \in Threads /\ Shown \in Chats /\ used + 1 \in own'
    BY <1>4 DEF Send, Threads, BInv, Types
  <2>3. Begins(t)
    BY <1>4, <2>1, <2>2, BeginBegins DEF Send, Begins, manager, screen
  <2> QED
    BY <2>2, <2>3
<1>5. CASE RemoveChat(k)
  <2>1. Begin("ui", "drop", k, 0)
    BY <1>5 DEF RemoveChat
  <2>2. Begins("ui")
    BY <1>1, <1>5, <2>1, BeginBegins DEF RemoveChat, Begins, screen, history
  <2> QED
    BY <1>1, <2>2
<1>6. CASE AddChat(k)
  <2>1. Begin("ui", "notify", k, 0)
    BY <1>6 DEF AddChat
  <2>2. Begins("ui")
    BY <1>1, <1>6, <2>1, BeginBegins DEF AddChat, Begins, screen, history
  <2> QED
    BY <1>1, <2>2
<1> QED
  BY <1>2, <1>3, <1>4, <1>5, <1>6

\* Every step is one thread's: it sets out, or handles what it has begun.
LEMMA ThreadSteps ==
  ASSUME BInv, Next
  PROVE  \E t \in Threads : Begins(t) \/ Handles(t)
<1>1. ASSUME NEW k \in Chats, Hear(k) \/ HearMark(k) \/ RemoveChat(k) \/ AddChat(k)
      PROVE  \E t \in Threads : Begins(t)
  BY <1>1, UserBegins
<1>2. CASE Send
  <2>1. Visit \in 1..Visit /\ Shown # Home
    BY <1>2, ThreadFacts DEF Send, InChat, BInv, ScreenSound, Threads
  <2>2. Shown \in Chats
    BY <2>1 DEF BInv, Types, Shown, Visit
  <2> QED
    BY <1>2, <2>2, UserBegins
<1>3. ASSUME NEW t \in Threads, Deliver(t)
      PROVE  Handles(t)
  BY <1>3, DeliverHandles
<1>4. ASSUME UiStep \/ RunUpdate \/ Leave \/ (\E s \in Chats \cup {Home} : Open(s))
      PROVE  Handles("ui") /\ "ui" \in Threads
  BY <1>4, UiHandles
<1> QED
  BY <1>1, <1>2, <1>3, <1>4 DEF Next, User

LEMMA FreshKept ==
  ASSUME BInv, Fresh, NEW t \in Threads, Begins(t) \/ Handles(t)
  PROVE  Fresh'
<1> SUFFICES ASSUME NEW u \in Threads, pc'[u] = "add"
             PROVE  /\ \A k \in Chats : local'[u].id \notin ToSet(messages'[k])
                    /\ \A w \in Threads \ {u} : local'[w].id # local'[u].id
                    /\ local'[u].id \notin promised'
                    /\ u # "worker" => local'[u].id \in own'
  BY DEF Fresh
<1>0. /\ \A w \in Threads : local[w].id \in Nat /\ local[w].id <= used /\ used \in Nat
      /\ \A k \in Chats : ToSet(messages[k]) \subseteq 1..used
      /\ promised \subseteq 0..used
  BY ThreadFacts DEF Sound, BInv, MessagesOld
<1>1. CASE Begins(t)
  <2>1. /\ \A w \in Threads \ {t} : pc'[w] = pc[w] /\ local'[w] = local[w]
        /\ UNCHANGED <<messages, promised>> /\ own \subseteq own'
        /\ local'[t].id \in {0, used + 1}
        /\ pc'[t] = "add" => local'[t].id = used + 1 /\ (t # "worker" => used + 1 \in own')
    BY <1>1 DEF Begins, Others
  <2>2. CASE u = t
    <3>1. local'[u].id = used + 1 /\ (u # "worker" => used + 1 \in own')
      BY <2>1, <2>2
    <3> QED
      BY <1>0, <2>1, <2>2, <3>1
  <2>3. CASE u # t
    <3>1. /\ pc[u] = "add" /\ local'[u] = local[u] /\ local[u].id > 0
      BY <2>1, <2>3, ThreadFacts DEF Sound
    <3> QED
      BY <1>0, <2>1, <2>3, <3>1 DEF Fresh
  <2> QED
    BY <2>2, <2>3
<1>2. CASE Handles(t)
  <2>1. /\ u # t /\ pc[u] = "add" /\ local'[u] = local[u] /\ local[u].id > 0
    BY <1>2, ThreadFacts DEF Handles, Others, Sound
  <2>2. /\ \A k \in Chats : local[u].id \notin ToSet(messages[k])
        /\ \A w \in Threads \ {u} : local[w].id # local[u].id
        /\ local[u].id \notin promised
        /\ u # "worker" => local[u].id \in own
    BY <2>1 DEF Fresh
  <2>3. \A k \in Chats : ToSet(messages'[k]) \subseteq ToSet(messages[k]) \cup {local[t].id}
    BY <1>2 DEF Handles
  <2>4. /\ promised' \subseteq promised \cup {local[t].id} /\ own' = own
        /\ local'[t].id \in {local[t].id, 0}
        /\ \A w \in Threads \ {t} : local'[w] = local[w]
    BY <1>2 DEF Handles, Others
  <2> QED
    BY <1>0, <2>1, <2>2, <2>3, <2>4
<1> QED
  BY <1>1, <1>2

LEMMA PlacedKept ==
  ASSUME BInv, Fresh, Placed, NEW t \in Threads, Begins(t) \/ Handles(t)
  PROVE  Placed'
<1> SUFFICES ASSUME pc'["worker"] \in {"bump", "store"}, NEW k \in Chats,
                    local'["worker"].id \in ToSet(messages'[k])
             PROVE  k = local'["worker"].key
  BY DEF Placed
<1>0. "worker" \in Threads
  BY DEF Threads
<1>1. CASE Begins(t)
  BY <1>0, <1>1 DEF Begins, Others, Placed
<1>2. CASE Handles(t) /\ t = "worker"
  <2>1. /\ pc["worker"] \in {"add", "bump"}
        /\ local'["worker"].id = local["worker"].id /\ local'["worker"].key = local["worker"].key
    BY <1>2 DEF Handles
  <2>2. CASE pc["worker"] = "add"
    <3>1. local["worker"].id \notin ToSet(messages[k])
      BY <1>0, <2>2 DEF Fresh
    <3> QED
      BY <1>2, <2>1, <3>1 DEF Handles
  <2>3. CASE pc["worker"] = "bump"
    BY <1>2, <2>1, <2>3 DEF Handles, Placed
  <2> QED
    BY <2>1, <2>2, <2>3
<1>3. CASE Handles(t) /\ t # "worker"
  <2>1. pc["worker"] \in {"bump", "store"} /\ local'["worker"] = local["worker"]
    BY <1>0, <1>3 DEF Handles, Others
  <2>2. local["worker"].id \in ToSet(messages[k])
    <3>1. pc[t] = "add" => local["worker"].id # local[t].id
      BY <1>0, <1>3 DEF Fresh
    <3> QED
      BY <1>3, <2>1, <3>1 DEF Handles
  <2> QED
    BY <2>1, <2>2 DEF Placed
<1> QED
  BY <1>1, <1>2, <1>3

\* Of a step that leaves the removal of chats alone: what it adds to a chat that
\* is gone, or counts for it, is a ghost.
LEMMA GoneStays ==
  ASSUME Gone, UNCHANGED joined,
         \A k \in Chats : (Removing(k))' <=> Removing(k),
         (pc'["ui"] = "drop") <=> (pc["ui"] = "drop"),
         \A k \in Chats \ joined :
           /\ ghosts[k] \subseteq ghosts'[k]
           /\ ToSet(messages'[k]) \subseteq ToSet(messages[k]) \cup ghosts'[k]
           /\ unread'[k] \in {unread[k], 0} \/ ghosts'[k] # {}
  PROVE  Gone'
<1>1. ASSUME NEW k \in Chats \ joined, ~(Removing(k) /\ pc["ui"] = "drop")
      PROVE  ToSet(messages'[k]) \subseteq ghosts'[k]
  BY <1>1 DEF Gone
<1>2. ASSUME NEW k \in Chats \ joined, ~Removing(k), unread'[k] > 0
      PROVE  ghosts'[k] # {}
  BY <1>2 DEF Gone
<1> QED
  BY <1>1, <1>2 DEF Gone

LEMMA GoneBegins ==
  ASSUME BInv, Gone, NEW t \in Threads, Begins(t)
  PROVE  Gone'
<1>1. /\ UNCHANGED <<messages, ghosts, unread>> /\ "ui" \in Threads
      /\ t # "ui" => pc'["ui"] = pc["ui"] /\ local'["ui"] = local["ui"]
      /\ pc[t] = "idle"
  BY DEF Begins, Others, Threads
<1>2. CASE pc'[t] # "drop" /\ joined' = joined
  <2>1. \A k \in Chats : (Removing(k))' <=> Removing(k)
    BY <1>1, <1>2 DEF Removing, Begins
  <2>2. (pc'["ui"] = "drop") <=> (pc["ui"] = "drop")
    BY <1>1, <1>2 DEF Begins
  <2> QED
    BY <1>1, <1>2, <2>1, <2>2, GoneStays
<1>3. CASE t = "ui" /\ pc'[t] = "notify" /\ joined' = joined \cup {local'[t].key}
  BY <1>1, <1>3 DEF Gone, Removing
<1>4. CASE t = "ui" /\ pc'[t] = "drop" /\ joined' = joined \ {local'[t].key}
  BY <1>1, <1>4 DEF Gone, Removing
<1> QED
  BY <1>2, <1>3, <1>4 DEF Begins

LEMMA GoneKept ==
  ASSUME BInv, Gone, Next
  PROVE  Gone'
<1>0. /\ joined \subseteq Chats /\ messages \in [Chats -> Lists] /\ unread \in [Chats -> Nat]
      /\ ghosts \in [Chats -> SUBSET Nat] /\ local \in [Threads -> Locals]
      /\ pc \in [Threads -> Pcs] /\ "ui" \in Threads
  BY DEF BInv, Types, ThreadTypes, Threads
<1>1. ASSUME NEW k \in Chats, Hear(k) \/ HearMark(k) \/ RemoveChat(k) \/ AddChat(k)
      PROVE  Gone'
  BY <1>1, UserBegins, GoneBegins
<1>2. CASE Send
  <2>1. PICK k \in Chats : TRUE
    BY <1>2 DEF Send, BInv, Types
  <2> QED
    BY <1>2, <2>1, UserBegins, GoneBegins
<1>3. ASSUME NEW t \in Threads, Deliver(t)
      PROVE  Gone'
  <2>1. Handles(t)
    BY <1>3, DeliverHandles
  <2>2. /\ pc[t] \notin {"idle", "drop", "forget"} /\ pc'[t] \notin {"drop", "forget"}
        /\ UNCHANGED joined
    BY <1>0, <1>3 DEF Deliver, Add, Bump, Store, Notify, Call, Clear, Tell, Copy, Post, Goto,
                      NextCall, AfterRender, manager
  <2>3. \A k \in Chats : (Removing(k))' <=> Removing(k)
    BY <1>0, <2>1, <2>2 DEF Removing, Handles, Others
  <2>4. (pc'["ui"] = "drop") <=> (pc["ui"] = "drop")
    BY <1>0, <2>1, <2>2 DEF Handles, Others
  <2>5. CASE Add(t)
    <3>1. local[t].key \in Chats /\ local[t].id \in Messages
      BY <2>5, ThreadFacts DEF Add, Sound, Messages
    <3>2. ASSUME NEW k \in Chats \ joined
          PROVE  /\ ghosts[k] \subseteq ghosts'[k]
                 /\ ToSet(messages'[k]) \subseteq ToSet(messages[k]) \cup ghosts'[k]
                 /\ unread'[k] = unread[k]
      <4>1. /\ ghosts' = [ghosts EXCEPT ![local[t].key] =
                             IF local[t].key \in joined THEN @ ELSE @ \cup {local[t].id}]
            /\ unread' = unread
        BY <2>5 DEF Add
      <4>2. CASE k = local[t].key
        <5>1. ghosts'[k] = ghosts[k] \cup {local[t].id}
          BY <1>0, <3>1, <4>1, <4>2
        <5>2. ToSet(messages'[k]) \subseteq ToSet(messages[k]) \cup {local[t].id}
          BY <2>1 DEF Handles
        <5> QED
          BY <4>1, <5>1, <5>2
      <4>3. CASE k # local[t].key
        BY <1>0, <2>1, <4>1, <4>3 DEF Handles
      <4> QED
        BY <4>2, <4>3
    <3> QED
      BY <2>2, <2>3, <2>4, <3>2, GoneStays
  <2>6. CASE Store(t)
    <3>1. local[t].key \in Chats
      BY <2>6, ThreadFacts DEF Store, Sound
    <3>2. ASSUME NEW k \in Chats \ joined
          PROVE  /\ ghosts[k] \subseteq ghosts'[k]
                 /\ ToSet(messages'[k]) \subseteq ToSet(messages[k]) \cup ghosts'[k]
                 /\ unread'[k] \in {unread[k], 0} \/ ghosts'[k] # {}
      BY <1>0, <2>6, <3>1 DEF Store
    <3> QED
      BY <2>2, <2>3, <2>4, <3>2, GoneStays
  <2>7. CASE Clear(t)
    <3>1. /\ UNCHANGED <<messages, ghosts>>
          /\ \A k \in Chats : unread'[k] \in {unread[k], 0}
      BY <1>0, <2>7 DEF Clear, history
    <3> QED
      BY <2>2, <2>3, <2>4, <3>1, GoneStays
  <2>8. CASE Bump(t) \/ Notify(t) \/ Call(t) \/ Tell(t) \/ Copy(t) \/ Post(t)
    <3>1. UNCHANGED <<messages, ghosts, unread>>
      BY <2>8 DEF Bump, Notify, Call, Tell, Copy, Post, manager, history
    <3> QED
      BY <2>2, <2>3, <2>4, <3>1, GoneStays
  <2> QED
    BY <1>3, <2>5, <2>6, <2>7, <2>8 DEF Deliver
<1>4. CASE Drop
  <2>1. /\ pc["ui"] = "drop" /\ pc'["ui"] = "forget" /\ local' = local
        /\ UNCHANGED <<joined, unread, ghosts>>
        /\ local["ui"].key \in Chats
        /\ messages'[local["ui"].key] = <<>>
        /\ \A k \in Chats : k # local["ui"].key => messages'[k] = messages[k]
    BY <1>0, <1>4, ThreadFacts DEF Drop, Goto, history, Sound
  <2> QED
    BY <2>1, EmptyList DEF Gone, Removing
<1>5. CASE Forget
  <2>1. /\ pc["ui"] = "forget" /\ pc'["ui"] = "notify" /\ local' = local
        /\ UNCHANGED <<joined, messages, ghosts>>
        /\ local["ui"].key \in Chats
        /\ unread'[local["ui"].key] = 0
        /\ \A k \in Chats : k # local["ui"].key => unread'[k] = unread[k]
    BY <1>0, <1>5, ThreadFacts DEF Forget, Goto, history, Sound
  <2> QED
    BY <2>1 DEF Gone, Removing
<1>6. ASSUME Count \/ Freeze \/ RefreshHome \/ Subscribe \/ RunUpdate \/ Leave
               \/ (\E s \in Chats \cup {Home} : Open(s))
      PROVE  Gone'
  <2>1. /\ UNCHANGED <<joined, messages, unread, ghosts>>
        /\ pc["ui"] \notin {"drop", "forget"} /\ pc'["ui"] \notin {"drop", "forget"}
    BY <1>0, <1>6 DEF Count, Freeze, RefreshHome, Subscribe, RunUpdate, Leave, Open, Goto, manager, history
  <2>2. \A k \in Chats : (Removing(k))' <=> Removing(k)
    BY <2>1 DEF Removing
  <2> QED
    BY <2>1, <2>2, GoneStays
<1> QED
  BY <1>1, <1>2, <1>3, <1>4, <1>5, <1>6 DEF Next, UiStep, User

-----------------------------------------------------------------------------
(* Messages on their way.                                                  *)

\* A message of chat k that is counted, or will be, or is on its way to a screen.
Noticed(k, m) ==
  \/ unread[k] > 0
  \/ pc["worker"] \in {"bump", "store"} /\ local["worker"].id = m
  \/ \E t \in Threads : \/ pc[t] \in {"tell", "copy"} /\ local[t].key = k
                        \/ m \in ToSet(local[t].text)
  \/ \E i \in DOMAIN uiQueue : m \in ToSet(uiQueue[i].text)

Excused(k) == own \cup seen \cup missed \cup ghosts[k]

LEMMA MissedFacts ==
  NothingIsMissed <=>
    \A k \in Chats : \A m \in ToSet(messages[k]) \ Excused(k) : Noticed(k, m)
BY DEF NothingIsMissed, Noticed, Excused

\* A message stays noticed while threads move that did not hold it.
LEMMA NoticedStays ==
  ASSUME BInv, NEW t \in Threads, Others(t), NEW k \in Chats, NEW m, Noticed(k, m),
         unread'[k] = unread[k],
         \A i \in DOMAIN uiQueue : \E j \in DOMAIN uiQueue' : uiQueue'[j] = uiQueue[i],
         pc[t] \in {"tell", "copy"} /\ local[t].key = k => Noticed(k, m)',
         pc[t] \in {"bump", "store"} /\ local[t].id = m => Noticed(k, m)',
         pc[t] # "post"
  PROVE  Noticed(k, m)'
<1>1. CASE unread[k] > 0
  BY <1>1 DEF Noticed
<1>2. CASE pc["worker"] \in {"bump", "store"} /\ local["worker"].id = m
  BY <1>2 DEF Noticed, Others, Threads
<1>3. ASSUME NEW u \in Threads, pc[u] \in {"tell", "copy"} /\ local[u].key = k
      PROVE  Noticed(k, m)'
  BY <1>3 DEF Noticed, Others
<1>4. ASSUME NEW u \in Threads, m \in ToSet(local[u].text)
      PROVE  Noticed(k, m)'
  <2>1. pc[u] = "post"
    BY <1>4, EmptyList, ThreadFacts DEF Sound
  <2>2. local'[u] = local[u]
    BY <2>1 DEF Others
  <2> QED
    BY <1>4, <2>2 DEF Noticed
<1>5. ASSUME NEW i \in DOMAIN uiQueue, m \in ToSet(uiQueue[i].text)
      PROVE  Noticed(k, m)'
  BY <1>5 DEF Noticed
<1> QED
  BY <1>1, <1>2, <1>3, <1>4, <1>5 DEF Noticed

\* Messages that are new in a history are excused or noticed, and old ones stay so.
LEMMA MissedKept ==
  ASSUME BInv, Fresh, Placed, Gone, NothingIsMissed, Next
  PROVE  NothingIsMissed'
<1> SUFFICES ASSUME NEW k \in Chats, NEW m \in ToSet(messages'[k]), m \notin Excused(k)'
             PROVE  Noticed(k, m)'
  BY DEF NothingIsMissed, Noticed, Excused
<1>0. /\ joined \subseteq Chats /\ messages \in [Chats -> Lists] /\ unread \in [Chats -> Nat]
      /\ ghosts \in [Chats -> SUBSET Nat] /\ local \in [Threads -> Locals]
      /\ pc \in [Threads -> Pcs] /\ "ui" \in Threads /\ uiQueue \in Seq(Updates)
  BY DEF BInv, Types, ThreadTypes, Threads
<1>1. ASSUME NEW t \in Threads, Begins(t) \/ Handles(t), pc[t] # "add",
             Excused(k) \subseteq Excused(k)'
      PROVE  m \in ToSet(messages[k]) /\ Noticed(k, m) /\ Others(t)
  <2>1. m \in ToSet(messages[k]) /\ Others(t)
    BY <1>1 DEF Begins, Handles
  <2> QED
    BY <1>1, <2>1, MissedFacts
<1>2. ASSUME NEW t \in Threads, Begins(t)
      PROVE  Noticed(k, m)'
  <2>1. pc[t] = "idle" /\ UNCHANGED <<unread, uiQueue, seen, missed, ghosts>> /\ own \subseteq own'
    BY <1>2 DEF Begins
  <2> QED
    BY <1>1, <1>2, <2>1, NoticedStays DEF Excused
<1>3. ASSUME NEW c \in Chats, Hear(c) \/ HearMark(c) \/ Send \/ RemoveChat(c) \/ AddChat(c)
      PROVE  Noticed(k, m)'
  BY <1>2, <1>3, UserBegins
<1>4. ASSUME NEW t \in Threads, Add(t)
      PROVE  Noticed(k, m)'
  <2>1. Handles(t)
    BY <1>4, DeliverHandles DEF Deliver
  <2>2. /\ pc[t] = "add" /\ UNCHANGED <<unread, uiQueue, seen, missed, own, local>>
        /\ pc'[t] = IF t = "worker" THEN "bump" ELSE "notify"
        /\ local[t].key \in Chats
        /\ ghosts[k] \subseteq ghosts'[k]
    BY <1>0, <1>4, ThreadFacts DEF Add, Goto, Sound
  <2>3. CASE m \in ToSet(messages[k])
    <3>1. Noticed(k, m)
      BY <2>2, <2>3, MissedFacts DEF Excused
    <3>2. Others(t)
      BY <2>1 DEF Handles
    <3> QED
      BY <2>2, <3>1, <3>2, NoticedStays
  <2>4. CASE m \notin ToSet(messages[k])
    <3>1. m = local[t].id
      BY <2>1, <2>4 DEF Handles
    <3>2. t = "worker"
      BY <2>2, <3>1 DEF Fresh, Excused
    <3> QED
      BY <2>2, <3>1, <3>2 DEF Noticed
  <2> QED
    BY <2>3, <2>4
<1>5. ASSUME NEW t \in Threads, Bump(t)
      PROVE  Noticed(k, m)'
  <2>1. Handles(t)
    BY <1>5, DeliverHandles DEF Deliver
  <2>2. /\ pc[t] = "bump" /\ UNCHANGED <<unread, uiQueue, seen, missed, own, ghosts>>
        /\ pc'[t] = "store" /\ local'[t].id = local[t].id /\ t = "worker"
    BY <1>0, <1>5, ThreadFacts DEF Bump, Goto, Sound, manager, history, Locals
  <2>3. Noticed(k, m) /\ Others(t)
    BY <1>1, <2>1, <2>2 DEF Excused
  <2>4. local[t].id = m => Noticed(k, m)'
    BY <2>2 DEF Noticed
  <2> QED
    BY <2>2, <2>3, <2>4, NoticedStays
<1>6. ASSUME NEW t \in Threads, Store(t)
      PROVE  Noticed(k, m)'
  <2>1. Handles(t)
    BY <1>6, DeliverHandles DEF Deliver
  <2>2. /\ pc[t] = "store" /\ UNCHANGED <<uiQueue, seen, missed, own>>
        /\ local[t].key \in Chats /\ t = "worker" /\ local[t].count \in Nat
        /\ ghosts[k] \subseteq ghosts'[k]
        /\ unread' = [unread EXCEPT ![local[t].key] = local[t].count + 1]
    BY <1>0, <1>6, ThreadFacts DEF Store, Sound
  <2>3. Noticed(k, m) /\ Others(t) /\ m \in ToSet(messages[k])
    BY <1>1, <2>1, <2>2 DEF Excused
  <2>4. CASE k = local[t].key
    BY <1>0, <2>2, <2>4 DEF Noticed
  <2>5. CASE k # local[t].key
    <3>1. local[t].id # m
      BY <2>2, <2>3, <2>5 DEF Placed
    <3>2. unread'[k] = unread[k]
      BY <1>0, <2>2, <2>5
    <3> QED
      BY <2>2, <2>3, <3>1, <3>2, NoticedStays
  <2> QED
    BY <2>4, <2>5
<1>7. ASSUME NEW t \in Threads, Notify(t) \/ Call(t)
      PROVE  Noticed(k, m)'
  <2>1. Handles(t)
    BY <1>7, DeliverHandles DEF Deliver
  <2>2. /\ pc[t] \in {"notify", "calls"} /\ UNCHANGED <<unread, seen, missed, own, ghosts>>
    BY <1>7 DEF Notify, Call, manager, history
  <2>3. \A i \in DOMAIN uiQueue : \E j \in DOMAIN uiQueue' : uiQueue'[j] = uiQueue[i]
    <3>1. CASE uiQueue' = uiQueue
      BY <3>1
    <3>2. CASE uiQueue' # uiQueue
      <4>1. PICK v \in local[t].todo : uiQueue' = Append(uiQueue, Refresh(v, TabOf(local[t].key)))
        BY <1>7, <3>2 DEF Notify, Call
      <4>2. v \in 1..Visit /\ TabOf(local[t].key) \in SUBSET Chats
        BY <4>1, ThreadFacts, ScreensAssumption DEF Sound, TabOf
      <4>3. Refresh(v, TabOf(local[t].key)) \in Updates
        BY <4>2, EmptyList, UpdateFacts
      <4> QED
        BY <1>0, <4>1, <4>3, AppendFacts
    <3> QED
      BY <3>1, <3>2
  <2>4. Noticed(k, m) /\ Others(t)
    BY <1>1, <2>1, <2>2 DEF Excused
  <2> QED
    BY <2>2, <2>3, <2>4, NoticedStays
<1>8. ASSUME NEW t \in Threads, Clear(t) \/ Tell(t)
      PROVE  Noticed(k, m)'
  <2>1. Handles(t)
    BY <1>8, DeliverHandles DEF Deliver
  <2>2. /\ pc[t] \in {"clear", "tell"} /\ UNCHANGED <<local, seen, missed, own, ghosts>>
        /\ pc'[t] \in {"tell", "copy"}
        /\ k = local[t].key \/ unread'[k] = unread[k]
    BY <1>0, <1>8 DEF Clear, Tell, Goto, manager, history
  <2>3. Noticed(k, m) /\ Others(t)
    BY <1>1, <2>1, <2>2 DEF Excused
  <2>4. CASE k = local[t].key
    BY <2>2, <2>4 DEF Noticed
  <2>5. CASE k # local[t].key
    <3>1. \A i \in DOMAIN uiQueue : \E j \in DOMAIN uiQueue' : uiQueue'[j] = uiQueue[i]
      <4>1. CASE Clear(t)
        BY <4>1 DEF Clear
      <4>2. CASE Tell(t)
        BY <4>2, TellMarshals
      <4> QED
        BY <1>8, <4>1, <4>2
    <3> QED
      BY <2>2, <2>3, <2>5, <3>1, NoticedStays
  <2> QED
    BY <2>4, <2>5
<1>9. ASSUME NEW t \in Threads, Copy(t)
      PROVE  Noticed(k, m)'
  <2>1. Handles(t)
    BY <1>9, DeliverHandles DEF Deliver
  <2>2. /\ pc[t] = "copy" /\ UNCHANGED <<messages, unread, uiQueue, seen, missed, own, ghosts>>
        /\ local'[t].text = messages[local[t].key]
    BY <1>0, <1>9 DEF Copy, manager, history, Locals
  <2>3. Noticed(k, m) /\ Others(t)
    BY <1>1, <2>1, <2>2 DEF Excused
  <2>4. CASE k = local[t].key
    BY <2>2, <2>4 DEF Noticed
  <2>5. CASE k # local[t].key
    BY <2>2, <2>3, <2>5, NoticedStays
  <2> QED
    BY <2>4, <2>5
<1>10. ASSUME NEW t \in Threads, Post(t)
       PROVE  Noticed(k, m)'
  <2>1. Handles(t)
    BY <1>10, DeliverHandles DEF Deliver
  <2>2. /\ pc[t] = "post" /\ UNCHANGED <<unread, seen, missed, own, ghosts>>
        /\ uiQueue' = Append(uiQueue, Show(local[t].visit, local[t].text))
    BY <1>10 DEF Post, manager, history
  <2>3. Noticed(k, m) /\ Others(t)
    BY <1>1, <2>1, <2>2 DEF Excused
  <2>4. /\ Show(local[t].visit, local[t].text) \in Updates
        /\ Show(local[t].visit, local[t].text).text = local[t].text
    <3>1. local[t].visit \in 1..Visit /\ local[t].text \in Lists
      BY <1>10, PostMoves
    <3>2. Show(local[t].visit, local[t].text) \in Updates
      BY <3>1, UpdateFacts
    <3> QED
      BY <3>2 DEF Show
  <2>5. /\ \A i \in DOMAIN uiQueue : i \in DOMAIN uiQueue' /\ uiQueue'[i] = uiQueue[i]
        /\ \E i \in DOMAIN uiQueue' : uiQueue'[i].text = local[t].text
    BY <1>0, <2>2, <2>4, AppendFacts
  <2>6. CASE m \in ToSet(local[t].text)
    BY <2>5, <2>6 DEF Noticed
  <2>7. CASE m \notin ToSet(local[t].text)
    BY <2>2, <2>3, <2>5, <2>7 DEF Noticed, Others, Threads
  <2> QED
    BY <2>6, <2>7
<1>11. ASSUME Count \/ Freeze \/ RefreshHome \/ Subscribe \/ Leave
                \/ (\E s \in Chats \cup {Home} : Open(s))
       PROVE  Noticed(k, m)'
  <2>1. Handles("ui")
    BY <1>11, UiHandles DEF UiStep
  <2>2. /\ pc["ui"] \in {"count", "freeze", "refresh", "subscribe", "idle"}
        /\ UNCHANGED <<unread, uiQueue, seen, missed, own, ghosts>>
    BY <1>11 DEF Count, Freeze, RefreshHome, Subscribe, Leave, Open, manager, history
  <2>3. Noticed(k, m) /\ Others("ui")
    BY <1>0, <1>1, <2>1, <2>2 DEF Excused
  <2> QED
    BY <1>0, <2>2, <2>3, NoticedStays
<1>12. ASSUME Drop \/ Forget
       PROVE  Noticed(k, m)'
  <2>1. Handles("ui")
    BY <1>12, UiHandles DEF UiStep
  <2>2. /\ pc["ui"] \in {"drop", "forget"} /\ UNCHANGED <<uiQueue, seen, missed, own, ghosts, local>>
        /\ local["ui"].key \in Chats
    BY <1>0, <1>12, ThreadFacts DEF Drop, Forget, history, Sound
  <2>3. Noticed(k, m) /\ Others("ui") /\ m \in ToSet(messages[k])
    BY <1>0, <1>1, <2>1, <2>2 DEF Excused
  <2>4. unread'[k] = unread[k]
    <3>1. CASE k = local["ui"].key /\ Forget
      <4>1. k \notin joined /\ ToSet(messages[k]) \subseteq ghosts[k]
        BY <3>1 DEF Gone, Removing, Forget
      <4> QED
        BY <2>2, <2>3, <4>1 DEF Excused
    <3>2. CASE ~(k = local["ui"].key /\ Forget)
      BY <1>0, <1>12, <3>2 DEF Drop, Forget
    <3> QED
      BY <3>1, <3>2
  <2> QED
    BY <1>0, <2>2, <2>3, <2>4, NoticedStays
<1>13. ASSUME RunUpdate
       PROVE  Noticed(k, m)'
  <2>1. Handles("ui")
    BY <1>13, UiHandles
  <2>2. /\ pc["ui"] = "idle" /\ UNCHANGED <<unread, local, pc, own, ghosts>>
        /\ seen \subseteq seen' /\ missed \subseteq missed'
        /\ ToSet(Head(uiQueue).text) \subseteq seen' \cup missed'
    BY <1>13 DEF RunUpdate, manager
  <2>3. Noticed(k, m) /\ m \notin ToSet(Head(uiQueue).text)
    BY <1>0, <1>1, <2>1, <2>2 DEF Excused
  <2>4. ASSUME NEW i \in DOMAIN uiQueue, m \in ToSet(uiQueue[i].text)
        PROVE  \E j \in DOMAIN uiQueue' : m \in ToSet(uiQueue'[j].text)
    BY <1>13, <2>3, <2>4, RunUpdateQueue
  <2> QED
    BY <2>2, <2>3, <2>4 DEF Noticed
<1>14. CASE Send
  <2>1. PICK c \in Chats : TRUE
    BY <1>0, <1>14 DEF Send
  <2> QED
    BY <1>3, <1>14, <2>1
<1> QED
  BY <1>3, <1>4, <1>5, <1>6, <1>7, <1>8, <1>9, <1>10, <1>11, <1>12, <1>13, <1>14
  DEF Next, Deliver, UiStep, User

MessagesInv == BInv /\ Fresh /\ Placed /\ Gone /\ NothingIsMissed

\* What the threads hold, the histories, the counters and the queue of the user
\* interface say of each other.
THEOREM MessagesInvIsInvariant == Spec => []MessagesInv
<1>1. Init => MessagesInv
  <2> SUFFICES ASSUME Init PROVE MessagesInv
    OBVIOUS
  <2>1. BInv
    BY InitBInv
  <2>2. /\ joined = Chats /\ \A t \in Threads : pc[t] = "idle"
        /\ \A k \in Chats : messages[k] = <<>>
        /\ "worker" \in Threads /\ "ui" \in Threads
    BY DEF Init, Threads
  <2>3. Fresh /\ Placed /\ Gone
    BY <2>2 DEF Fresh, Placed, Gone, Removing
  <2>4. NothingIsMissed
    BY <2>2, EmptyList DEF NothingIsMissed
  <2> QED
    BY <2>1, <2>3, <2>4 DEF MessagesInv
<1>2. MessagesInv /\ [Next]_vars => MessagesInv'
  <2> SUFFICES ASSUME MessagesInv, [Next]_vars PROVE MessagesInv'
    OBVIOUS
  <2>1. BInv'
    BY NextBInv DEF MessagesInv
  <2>2. CASE Next
    <3>1. PICK t \in Threads : Begins(t) \/ Handles(t)
      BY <2>2, ThreadSteps DEF MessagesInv
    <3> QED
      BY <2>1, <2>2, <3>1, FreshKept, PlacedKept, GoneKept, MissedKept DEF MessagesInv
  <2>3. CASE UNCHANGED vars
    BY <2>1, <2>3 DEF MessagesInv, Fresh, Placed, Gone, Removing, NothingIsMissed, vars, manager, history
  <2> QED
    BY <2>2, <2>3
<1> QED
  BY <1>1, <1>2, PTL DEF Spec

\* No incoming message goes unnoticed (_bump_unread, clear_unread, _render), for
\* any histories, chats and orders of the three threads.
THEOREM NothingMissed == Spec => []NothingIsMissed
BY MessagesInvIsInvariant, PTL DEF MessagesInv

\* A removed chat leaves nothing behind (remove_channel, remove_contact) but what
\* a thread was adding in that moment.
THEOREM RemovedGone == Spec => []RemovedIsGone
<1>1. MessagesInv => RemovedIsGone
  BY DEF MessagesInv, Gone, Removing, RemovedIsGone
<1> QED
  BY <1>1, MessagesInvIsInvariant, PTL

-----------------------------------------------------------------------------
(* What the screen in the foreground will get to show.                     *)

\* The user interface renders the chat it shows only, and has subscribed unless
\* it is about to.
UiKnows ==
  /\ pc["ui"] \in Rendering => InChat /\ local["ui"].visit = Visit
  /\ foreground => \/ Visit \in subscribers
                   \/ pc["ui"] \in Rendering \cup {"refresh", "subscribe", "count", "freeze"}
  /\ local["ui"].todo \subseteq {Visit}

\* Message m is on its way to the chat in the foreground.
WillShow(m) ==
  \/ \E t \in Threads :
       /\ local[t].key = Shown
       /\ \/ Visit \in local[t].todo
          \/ pc[t] \in {"clear", "tell", "copy"} /\ local[t].visit = Visit
          \/ pc[t] = "post" /\ local[t].visit = Visit /\ m \in ToSet(local[t].text)
  \/ \E i \in DOMAIN uiQueue : uiQueue[i].visit = Visit /\ m \in ToSet(uiQueue[i].text)

Live ==
  /\ Visit \notin subscribers => promised = {}
  /\ InChat => \A m \in (promised \cap ToSet(messages[Shown])) \ seen : WillShow(m)

\* The home screen will read the counter of chat k again.
WillRefresh(k) ==
  \/ \E t \in Threads :
       \/ k \in TabOf(local[t].key) /\ (pc[t] = "notify" \/ Visit \in local[t].todo)
       \/ k = local[t].key /\ pc[t] = "tell"
  \/ \E i \in DOMAIN uiQueue : uiQueue[i].visit = Visit /\ k \in uiQueue[i].chats

Badges ==
  InHome /\ ~gap /\ pc["ui"] # "refresh" =>
    \A k \in joined : badges[k] = unread[k] \/ WillRefresh(k)

LEMMA NotifyMoves ==
  ASSUME BInv, NEW t \in Threads, Notify(t)
  PROVE  /\ pc[t] = "notify" /\ Others(t) /\ local'[t].todo = subscribers /\ local[t].key \in Chats
         /\ pc'[t] = IF subscribers = {} THEN "idle" ELSE "calls"
         /\ subscribers # {} => local'[t].key = local[t].key
<1>1. subscribers \in SUBSET Nat
  BY ThreadFacts DEF BInv, ScreenSound
<1>2. PICK mine \in Locals :
        /\ Moved(t, IF subscribers = {} THEN "idle" ELSE "calls", mine)
        /\ mine.todo = subscribers /\ mine.visit = 0 /\ mine.text = <<>>
        /\ subscribers # {} => mine.key = local[t].key /\ mine.id = local[t].id
        /\ subscribers = {} => mine = Unused
  BY <1>1, NextCallFacts DEF Notify
<1>3. PICK at \in {"idle", "calls"} : at = IF subscribers = {} THEN "idle" ELSE "calls"
  OBVIOUS
<1>4. pc'[t] = at /\ local'[t] = mine /\ Others(t)
  BY <1>2, <1>3, MovedFacts DEF Pcs, BInv
<1>5. pc[t] = "notify" /\ local[t].key \in Chats
  BY ThreadFacts DEF Notify, Sound
<1> QED
  BY <1>2, <1>3, <1>4, <1>5

LEMMA CallMoves ==
  ASSUME BInv, NEW t \in Threads, Call(t)
  PROVE  /\ pc[t] = "calls" /\ Others(t) /\ local[t].key \in Chats /\ local'[t].todo = {}
         /\ \E v \in 1..Visit :
              /\ local[t].todo = {v}
              /\ \/ /\ visits[v] = local[t].key /\ pc'[t] = "clear" /\ local'[t].key = local[t].key
                    /\ local'[t].visit = v /\ uiQueue' = uiQueue
                 \/ /\ visits[v] = Home /\ pc'[t] = "idle"
                    /\ uiQueue' = Append(uiQueue, Refresh(v, TabOf(local[t].key)))
                 \/ /\ visits[v] \notin {local[t].key, Home} /\ pc'[t] = "idle"
                    /\ uiQueue' = uiQueue
<1>1. PICK v \in local[t].todo :
        IF visits[v] = local[t].key
        THEN /\ Goto(t, "clear")
             /\ local' = [local EXCEPT ![t].todo = @ \ {v}, ![t].visit = v]
             /\ UNCHANGED uiQueue
        ELSE /\ NextCall(t, local[t].todo \ {v})
             /\ uiQueue' = IF visits[v] = Home
                           THEN Append(uiQueue, Refresh(v, TabOf(local[t].key)))
                           ELSE uiQueue
  BY DEF Call
<1>2. /\ pc[t] = "calls" /\ local[t].todo = {v} /\ v \in 1..Visit /\ local[t].key \in Chats
      /\ local[t].todo \ {v} = {} /\ local[t].key # Home
  BY <1>1, ThreadFacts, ScreensAssumption DEF Call, Sound
<1>3. CASE visits[v] = local[t].key
  <2>1. /\ Others(t) /\ pc'[t] = "clear" /\ local'[t].todo = {} /\ local'[t].visit = v
        /\ local'[t].key = local[t].key /\ uiQueue' = uiQueue
    BY <1>1, <1>2, <1>3 DEF BInv, ThreadTypes, Locals, Goto, Others
  <2> QED
    BY <1>2, <1>3, <2>1
<1>4. CASE visits[v] # local[t].key
  <2>1. PICK mine \in Locals : Moved(t, "idle", mine) /\ mine = Unused
    BY <1>1, <1>2, <1>4, NextCallFacts
  <2>2. Others(t) /\ pc'[t] = "idle" /\ local'[t].todo = {}
    BY <2>1, UnusedFacts, MovedFacts DEF BInv, Pcs
  <2> QED
    BY <1>1, <1>2, <1>4, <2>2
<1> QED
  BY <1>3, <1>4

LEMMA PostLeaves ==
  ASSUME BInv, NEW t \in Threads, Post(t)
  PROVE  /\ pc[t] = "post" /\ Others(t) /\ local'[t].todo = {} /\ local[t].todo = {}
         /\ pc'[t] = IF t = "ui" /\ Visit \notin subscribers THEN "subscribe" ELSE "idle"
         /\ \A i \in DOMAIN uiQueue : i \in DOMAIN uiQueue' /\ uiQueue'[i] = uiQueue[i]
         /\ \E i \in DOMAIN uiQueue' :
              uiQueue'[i].visit = local[t].visit /\ uiQueue'[i].text = local[t].text
<1>1. PICK at \in {"subscribe", "idle"}, mine \in Locals :
        /\ at = IF t = "ui" /\ Visit \notin subscribers THEN "subscribe" ELSE "idle"
        /\ Moved(t, at, mine) /\ mine = Unused
  BY PostMoves, UnusedFacts
<1>2. Others(t) /\ pc'[t] = at /\ local'[t].todo = {}
  BY <1>1, UnusedFacts, MovedFacts DEF BInv, Pcs
<1>3. pc[t] = "post" /\ local[t].todo = {} /\ uiQueue \in Seq(Updates)
      /\ uiQueue' = Append(uiQueue, Show(local[t].visit, local[t].text))
  BY ThreadFacts DEF Post, Sound, BInv, Types
<1>4. local[t].visit \in 1..Visit /\ local[t].text \in Lists
  BY PostMoves
<1>5. Show(local[t].visit, local[t].text) \in Updates
  BY <1>4, UpdateFacts
<1>6. /\ \A i \in DOMAIN uiQueue : i \in DOMAIN uiQueue' /\ uiQueue'[i] = uiQueue[i]
      /\ \E i \in DOMAIN uiQueue' : uiQueue'[i] = Show(local[t].visit, local[t].text)
  BY <1>3, <1>5, AppendFacts
<1> QED
  BY <1>1, <1>2, <1>3, <1>6 DEF Show

\* Every other step of a thread: where it comes from, and that it has nobody to
\* call before and after.
LEMMA OthersMove ==
  ASSUME BInv, NEW t \in Threads,
         Add(t) \/ Bump(t) \/ Store(t) \/ Clear(t) \/ Tell(t) \/ Copy(t)
  PROVE  /\ Others(t) /\ local[t].todo = {} /\ local'[t].todo = {}
         /\ local'[t].key = local[t].key /\ local'[t].visit = local[t].visit
         /\ local[t].key \in Chats
         /\ pc[t] \in {"clear", "tell", "copy"} => pc'[t] \in {"tell", "copy", "post"}
         /\ pc[t] \notin {"clear", "tell", "copy"} => pc'[t] \in {"bump", "store", "notify"}
<1>1. Handles(t)
  BY DeliverHandles DEF Deliver
<1>2. /\ pc[t] \in {"add", "bump", "store", "clear", "tell", "copy"}
      /\ local[t].todo = {} /\ local[t].key \in Chats
  BY ThreadFacts DEF Add, Bump, Store, Clear, Tell, Copy, Sound, Rendering
<1>3. /\ local'[t].todo = local[t].todo /\ local'[t].key = local[t].key
      /\ local'[t].visit = local[t].visit
  BY DEF BInv, ThreadTypes, Locals, Add, Bump, Store, Clear, Tell, Copy
<1>4. /\ pc[t] \in {"clear", "tell", "copy"} => pc'[t] \in {"tell", "copy", "post"}
      /\ pc[t] \notin {"clear", "tell", "copy"} => pc'[t] \in {"bump", "store", "notify"}
  BY DEF BInv, ThreadTypes, Goto, Add, Bump, Store, Clear, Tell, Copy
<1> QED
  BY <1>1, <1>2, <1>3, <1>4 DEF Handles

LEMMA UiMoves ==
  ASSUME BInv, UiStep
  PROVE  /\ Others("ui") /\ local["ui"].todo = {} /\ local'["ui"].todo = {} /\ "ui" \in Threads
         /\ pc["ui"] \in {"count", "freeze", "refresh", "subscribe", "drop", "forget"}
<1>1. Others("ui") /\ "ui" \in Threads
  BY UiHandles DEF Handles
<1>2. /\ pc["ui"] \in {"count", "freeze", "refresh", "subscribe", "drop", "forget"}
      /\ local["ui"].todo = {}
  BY <1>1, ThreadFacts DEF UiStep, Count, Freeze, RefreshHome, Subscribe, Drop, Forget, Sound
<1>3. local'["ui"].todo = {}
  BY <1>1, <1>2 DEF UiStep, Count, Freeze, RefreshHome, Subscribe, Drop, Forget, BInv, ThreadTypes,
                    Locals, Unused
<1> QED
  BY <1>1, <1>2, <1>3

LEMMA UiKnowsKept ==
  ASSUME BInv, UiKnows, Next
  PROVE  UiKnows'
<1>0. "ui" \in Threads /\ pc \in [Threads -> Pcs] /\ local \in [Threads -> Locals]
  BY DEF Threads, BInv, ThreadTypes
<1>1. ASSUME NEW k \in Chats, Hear(k) \/ HearMark(k) \/ Send \/ RemoveChat(k) \/ AddChat(k)
      PROVE  UiKnows'
  <2>1. PICK t \in Threads : Begins(t)
    BY <1>1, UserBegins
  <2> QED
    BY <1>0, <2>1 DEF Begins, Others, UiKnows, Visit, InChat, Shown, Rendering
<1>2. CASE Send
  BY <1>1, <1>2 DEF Send, BInv, Types
<1>3. ASSUME NEW t \in Threads, Deliver(t)
      PROVE  UiKnows'
  <2>1. UNCHANGED <<visits, foreground, subscribers>>
    BY <1>3 DEF Deliver, Add, Bump, Store, Notify, Call, Clear, Tell, Copy, Post, screen
  <2>2. CASE t # "ui"
    <3>1. pc'["ui"] = pc["ui"] /\ local'["ui"] = local["ui"]
      BY <1>0, <1>3, <2>2, DeliverHandles DEF Handles, Others
    <3> QED
      BY <2>1, <3>1 DEF UiKnows, Visit, InChat, Shown
  <2>3. CASE t = "ui" /\ (Add(t) \/ Bump(t) \/ Store(t) \/ Clear(t) \/ Tell(t) \/ Copy(t))
    <3>1. pc[t] \in {"add", "bump", "store"} \cup Rendering
      BY <2>3 DEF Add, Bump, Store, Clear, Tell, Copy, Rendering
    <3>2. /\ local'["ui"].todo = {} /\ local'["ui"].visit = local["ui"].visit
          /\ pc["ui"] \in Rendering => pc'["ui"] \in Rendering
          /\ pc["ui"] \notin Rendering => pc'["ui"] \notin Rendering
          /\ pc["ui"] \notin {"refresh", "subscribe", "count", "freeze"}
      <4>1. /\ local'[t].todo = {} /\ local'[t].visit = local[t].visit
            /\ pc[t] \in {"clear", "tell", "copy"} => pc'[t] \in {"tell", "copy", "post"}
            /\ pc[t] \notin {"clear", "tell", "copy"} => pc'[t] \in {"bump", "store", "notify"}
        BY <2>3, OthersMove
      <4>2. pc[t] \in {"add", "bump", "store", "clear", "tell", "copy"}
        BY <2>3 DEF Add, Bump, Store, Clear, Tell, Copy
      <4> QED
        BY <2>3, <4>1, <4>2 DEF Rendering
    <3>3. Visit' = Visit /\ InChat' = InChat
      BY <2>1 DEF Visit, InChat, Shown
    <3> QED
      BY <2>1, <3>2, <3>3 DEF UiKnows
  <2>4. CASE t = "ui" /\ Notify(t)
    <3>1. subscribers \subseteq {Visit}
      BY DEF BInv, ScreenSound
    <3> QED
      BY <2>1, <2>4, <3>1, NotifyMoves DEF UiKnows, Visit, InChat, Shown, Rendering
  <2>5. CASE t = "ui" /\ Call(t)
    <3>1. foreground
      BY <2>5, CallMoves DEF BInv, ScreenSound
    <3>2. Visit \in subscribers
      BY <2>5, <3>1, CallMoves DEF UiKnows, Rendering
    <3>3. pc'["ui"] = "clear" => Shown # Home /\ local'["ui"].visit = Visit
      <4>1. PICK v \in 1..Visit :
              /\ local["ui"].todo = {v} /\ local["ui"].key \in Chats
              /\ pc'["ui"] = "clear" => visits[v] = local["ui"].key /\ local'["ui"].visit = v
        BY <2>5, CallMoves
      <4>2. v = Visit
        BY <4>1 DEF UiKnows
      <4> QED
        BY <4>1, <4>2, ScreensAssumption DEF Shown
    <3> QED
      BY <2>1, <2>5, <3>1, <3>2, <3>3, CallMoves DEF UiKnows, Visit, InChat, Shown, Rendering
  <2>6. CASE t = "ui" /\ Post(t)
    BY <2>1, <2>6, PostLeaves DEF UiKnows, Visit, InChat, Shown, Rendering
  <2> QED
    BY <1>3, <2>2, <2>3, <2>4, <2>5, <2>6 DEF Deliver
<1>4. CASE UiStep
  <2>1. local'["ui"].todo = {} /\ UNCHANGED <<visits, foreground>>
    BY <1>4, UiMoves DEF UiStep, Count, Freeze, RefreshHome, Subscribe, Drop, Forget, screen
  <2>2. CASE Count \/ RefreshHome
    BY <1>0, <2>1, <2>2 DEF Count, RefreshHome, Goto, UiKnows, Visit, Rendering
  <2>3. CASE Freeze
    <3>1. pc'["ui"] = "clear" /\ local'["ui"].visit = Visit /\ pc["ui"] = "freeze"
      BY <1>0, <2>3 DEF Freeze, Goto, Unused
    <3>2. InChat
      BY <3>1 DEF BInv, ScreenSound, InChat
    <3> QED
      BY <2>1, <3>1, <3>2 DEF UiKnows, Visit, InChat, Shown, Rendering
  <2>4. CASE Subscribe
    BY <1>0, <2>1, <2>4 DEF Subscribe, Goto, UiKnows, Visit, Rendering
  <2>5. CASE Drop \/ Forget
    <3>1. /\ pc["ui"] \in {"drop", "forget"} /\ pc'["ui"] \in {"forget", "notify"}
          /\ UNCHANGED subscribers
      BY <1>0, <2>5 DEF Drop, Forget, Goto
    <3> QED
      BY <2>1, <3>1 DEF UiKnows, Visit, Rendering
  <2> QED
    BY <1>4, <2>2, <2>3, <2>4, <2>5 DEF UiStep
<1>5. ASSUME NEW s \in Chats \cup {Home}, Open(s)
      PROVE  UiKnows'
  <2>1. pc["ui"] = "idle" /\ pc'["ui"] \in {"refresh", "count"} /\ local' = local
    BY <1>0, <1>5 DEF Open, Goto
  <2>2. local["ui"].todo = {}
    BY <1>0, <2>1, ThreadFacts DEF Sound
  <2> QED
    BY <2>1, <2>2 DEF UiKnows, Rendering
<1>6. CASE Leave
  <2>1. pc["ui"] = "idle" /\ UNCHANGED <<pc, local>> /\ foreground' = FALSE
    BY <1>6 DEF Leave
  <2>2. local["ui"].todo = {}
    BY <1>0, <2>1, ThreadFacts DEF Sound
  <2> QED
    BY <2>1, <2>2 DEF UiKnows, Rendering
<1>7. CASE RunUpdate
  BY <1>7 DEF RunUpdate, UiKnows, Visit, InChat, Shown
<1> QED
  BY <1>1, <1>2, <1>3, <1>4, <1>5, <1>6, <1>7 DEF Next, User

\* A message stays on its way while a thread moves that did not bring it.
LEMMA WillShowStays ==
  ASSUME NEW t \in Threads, Others(t), UNCHANGED visits, NEW m, WillShow(m),
         \A i \in DOMAIN uiQueue : uiQueue[i].visit = Visit /\ m \in ToSet(uiQueue[i].text) =>
           WillShow(m)',
         /\ local[t].key = Shown
         /\ \/ Visit \in local[t].todo
            \/ pc[t] \in {"clear", "tell", "copy"} /\ local[t].visit = Visit
            \/ pc[t] = "post" /\ local[t].visit = Visit /\ m \in ToSet(local[t].text)
         => WillShow(m)'
  PROVE  WillShow(m)'
<1>1. ASSUME NEW u \in Threads \ {t}, local[u].key = Shown,
             \/ Visit \in local[u].todo
             \/ pc[u] \in {"clear", "tell", "copy"} /\ local[u].visit = Visit
             \/ pc[u] = "post" /\ local[u].visit = Visit /\ m \in ToSet(local[u].text)
      PROVE  WillShow(m)'
  <2>1. pc'[u] = pc[u] /\ local'[u] = local[u] /\ Visit' = Visit /\ Shown' = Shown
    BY DEF Others, Visit, Shown
  <2> QED
    BY <1>1, <2>1 DEF WillShow
<1> QED
  BY <1>1 DEF WillShow

\* The queue keeps what it has while it grows.
LEMMA QueueStays ==
  ASSUME UNCHANGED visits,
         \A i \in DOMAIN uiQueue : \E j \in DOMAIN uiQueue' : uiQueue'[j] = uiQueue[i]
  PROVE  /\ \A m : \A i \in DOMAIN uiQueue :
              uiQueue[i].visit = Visit /\ m \in ToSet(uiQueue[i].text) => WillShow(m)'
         /\ \A k : \A i \in DOMAIN uiQueue :
              uiQueue[i].visit = Visit /\ k \in uiQueue[i].chats => WillRefresh(k)'
<1>1. Visit' = Visit
  BY DEF Visit
<1>2. ASSUME NEW m, NEW i \in DOMAIN uiQueue, uiQueue[i].visit = Visit, m \in ToSet(uiQueue[i].text)
      PROVE  WillShow(m)'
  <2>1. PICK j \in DOMAIN uiQueue' : uiQueue'[j] = uiQueue[i]
    OBVIOUS
  <2> QED
    BY <1>1, <1>2, <2>1 DEF WillShow
<1>3. ASSUME NEW k, NEW i \in DOMAIN uiQueue, uiQueue[i].visit = Visit, k \in uiQueue[i].chats
      PROVE  WillRefresh(k)'
  <2>1. PICK j \in DOMAIN uiQueue' : uiQueue'[j] = uiQueue[i]
    OBVIOUS
  <2> QED
    BY <1>1, <1>3, <2>1 DEF WillRefresh
<1> QED
  BY <1>2, <1>3

\* What a thread appends, marshals and takes: the queue only loses its first.
LEMMA DeliverQueue ==
  ASSUME BInv, NEW t \in Threads, Deliver(t)
  PROVE  \A i \in DOMAIN uiQueue : \E j \in DOMAIN uiQueue' : uiQueue'[j] = uiQueue[i]
<1>1. CASE uiQueue' = uiQueue
  BY <1>1
<1>2. CASE Tell(t)
  BY <1>2, TellMarshals
<1>3. CASE Post(t)
  BY <1>3, PostLeaves
<1>4. CASE Call(t) /\ uiQueue' # uiQueue
  <2>1. PICK v \in 1..Visit : uiQueue' = Append(uiQueue, Refresh(v, TabOf(local[t].key)))
    BY <1>4, CallMoves
  <2>2. TabOf(local[t].key) \in SUBSET Chats
    BY ScreensAssumption DEF TabOf
  <2>3. Refresh(v, TabOf(local[t].key)) \in Updates /\ uiQueue \in Seq(Updates)
    BY <2>1, <2>2, EmptyList, UpdateFacts DEF BInv, Types
  <2> QED
    BY <2>1, <2>3, AppendFacts
<1>5. CASE Add(t) \/ Bump(t) \/ Store(t) \/ Notify(t) \/ Clear(t) \/ Copy(t)
  BY <1>1, <1>5 DEF Add, Bump, Store, Notify, Clear, Copy
<1> QED
  BY <1>1, <1>2, <1>3, <1>4, <1>5 DEF Deliver

LEMMA ShownFacts ==
  ASSUME BInv
  PROVE  /\ foreground => Visit \in 1..Visit /\ Shown \in Chats \cup {Home}
         /\ InChat => Shown \in Chats
BY DEF BInv, ScreenSound, Types, Visit, Shown, InChat

\* A step that promises nothing and adds nothing that was promised.
LEMMA LiveStays ==
  ASSUME Live, UNCHANGED <<visits, foreground, promised>>,
         subscribers \subseteq subscribers', seen \subseteq seen',
         InChat => \A m \in (promised \cap ToSet(messages'[Shown])) \ seen' :
                     m \in ToSet(messages[Shown]) /\ (WillShow(m) => WillShow(m)')
  PROVE  Live'
<1>1. Visit' = Visit /\ InChat' = InChat /\ Shown' = Shown
  BY DEF Visit, InChat, Shown
<1>2. ASSUME InChat, NEW m \in (promised \cap ToSet(messages'[Shown])) \ seen'
      PROVE  WillShow(m)'
  BY <1>2 DEF Live
<1> QED
  BY <1>1, <1>2 DEF Live

\* What a thread handles stays on its way to the screen.
LEMMA WillShowDelivered ==
  ASSUME BInv, NEW t \in Threads, Deliver(t), InChat, NEW m \in ToSet(messages[Shown]), WillShow(m)
  PROVE  WillShow(m)'
<1>1. UNCHANGED visits /\ Others(t)
  BY DeliverHandles DEF Handles, Deliver, Add, Bump, Store, Notify, Call, Clear, Tell, Copy, Post, screen
<1>2. \A i \in DOMAIN uiQueue : uiQueue[i].visit = Visit /\ m \in ToSet(uiQueue[i].text) => WillShow(m)'
  BY <1>1, DeliverQueue, QueueStays
<1>4. Visit' = Visit /\ Shown' = Shown
  BY <1>1 DEF Visit, Shown
<1>5. ASSUME local[t].key = Shown, Visit \in local[t].todo
      PROVE  WillShow(m)'
  <2>1. pc[t] = "calls"
    BY <1>5, ThreadFacts DEF Sound
  <2>2. Call(t)
    BY <2>1 DEF Deliver, Add, Bump, Store, Notify, Clear, Tell, Copy, Post
  <2>3. /\ visits[Visit] = local[t].key /\ local[t].key # Home
    BY <1>5, <2>2, CallMoves, ScreensAssumption DEF Shown
  <2>4. pc'[t] = "clear" /\ local'[t].key = local[t].key /\ local'[t].visit = Visit
    BY <1>5, <2>2, <2>3, CallMoves
  <2> QED
    BY <1>4, <1>5, <2>4 DEF WillShow
<1>6. ASSUME local[t].key = Shown, local[t].visit = Visit, pc[t] \in {"clear", "tell"}
      PROVE  WillShow(m)'
  <2>1. Clear(t) \/ Tell(t)
    BY <1>6 DEF Deliver, Add, Bump, Store, Notify, Call, Copy, Post
  <2>2. local'[t].key = local[t].key /\ local'[t].visit = local[t].visit
    BY <2>1, OthersMove
  <2>3. pc'[t] \in {"tell", "copy"}
    BY <2>1 DEF Clear, Tell, Goto, BInv, ThreadTypes
  <2> QED
    BY <1>4, <1>6, <2>2, <2>3 DEF WillShow
<1>7. ASSUME local[t].key = Shown, local[t].visit = Visit, pc[t] = "copy"
      PROVE  WillShow(m)'
  <2>1. Copy(t)
    BY <1>7 DEF Deliver, Add, Bump, Store, Notify, Call, Clear, Tell, Post
  <2>2. local'[t].key = local[t].key /\ local'[t].visit = local[t].visit
    BY <2>1, OthersMove
  <2>3. pc'[t] = "post" /\ local'[t].text = messages[Shown]
    BY <1>7, <2>1 DEF Copy, Goto, BInv, ThreadTypes, Locals
  <2> QED
    BY <1>4, <1>7, <2>2, <2>3 DEF WillShow
<1>8. ASSUME local[t].key = Shown, local[t].visit = Visit, pc[t] = "post", m \in ToSet(local[t].text)
      PROVE  WillShow(m)'
  <2>1. Post(t)
    BY <1>8 DEF Deliver, Add, Bump, Store, Notify, Call, Clear, Tell, Copy
  <2>2. PICK i \in DOMAIN uiQueue' : uiQueue'[i].visit = Visit /\ uiQueue'[i].text = local[t].text
    BY <1>8, <2>1, PostLeaves
  <2> QED
    BY <1>4, <1>8, <2>2 DEF WillShow
<1> QED
  BY <1>1, <1>2, <1>5, <1>6, <1>7, <1>8, WillShowStays

LEMMA LiveKept ==
  ASSUME BInv, Fresh, Live, Next
  PROVE  Live'
<1>0. "ui" \in Threads
  BY DEF Threads
<1>1. ASSUME NEW t \in Threads, Handles(t), UNCHANGED <<visits, foreground>>, InChat,
             NEW m \in promised \cap ToSet(messages'[Shown])
      PROVE  m \in ToSet(messages[Shown])
  <2>1. pc[t] = "add" => local[t].id # m
    BY <1>1 DEF Fresh
  <2> QED
    BY <1>1, <2>1, ShownFacts DEF Handles
<1>2. ASSUME NEW k \in Chats, Hear(k) \/ HearMark(k) \/ Send \/ RemoveChat(k) \/ AddChat(k)
      PROVE  Live'
  <2>1. PICK t \in Threads : Begins(t)
    BY <1>2, UserBegins
  <2>2. /\ pc[t] = "idle" /\ Others(t)
        /\ UNCHANGED <<messages, subscribers, visits, foreground, uiQueue, seen, promised>>
    BY <2>1 DEF Begins
  <2>3. local[t].todo = {}
    BY <2>2, ThreadFacts DEF Sound
  <2>4. ASSUME NEW m, WillShow(m) PROVE WillShow(m)'
    <3>1. \A i \in DOMAIN uiQueue : uiQueue[i].visit = Visit /\ m \in ToSet(uiQueue[i].text) => WillShow(m)'
      BY <2>2, QueueStays
    <3> QED
      BY <2>2, <2>3, <2>4, <3>1, WillShowStays
  <2> QED
    BY <2>2, <2>4, LiveStays
<1>3. CASE Send
  <2>1. Shown \in Chats
    BY <1>3, ShownFacts DEF Send
  <2> QED
    BY <1>2, <1>3, <2>1
<1>4. ASSUME NEW t \in Threads, Deliver(t), ~Notify(t)
      PROVE  Live'
  <2>1. UNCHANGED <<visits, foreground, subscribers, promised, seen>>
    BY <1>4 DEF Deliver, Add, Bump, Store, Call, Clear, Tell, Copy, Post, screen, history
  <2>2. Handles(t)
    BY <1>4, DeliverHandles
  <2> QED
    BY <1>1, <1>4, <2>1, <2>2, WillShowDelivered, LiveStays
<1>5. ASSUME NEW t \in Threads, Notify(t)
      PROVE  Live'
  <2>1. /\ UNCHANGED <<visits, foreground, subscribers, seen, messages>>
        /\ promised' = IF Visit \in subscribers /\ Shown = local[t].key
                       THEN promised \cup {local[t].id} ELSE promised
    BY <1>5 DEF Notify, manager, screen
  <2>2. Visit' = Visit /\ InChat' = InChat /\ Shown' = Shown
    BY <2>1 DEF Visit, InChat, Shown
  <2>3. Visit \notin subscribers => promised' = {}
    BY <2>1 DEF Live
  <2>4. ASSUME InChat, NEW m \in (promised' \cap ToSet(messages[Shown])) \ seen
        PROVE  WillShow(m)'
    <3>1. CASE m \in promised
      BY <1>5, <2>4, <3>1, WillShowDelivered DEF Live, Deliver
    <3>2. CASE m \notin promised
      <4>1. Visit \in subscribers /\ Shown = local[t].key
        BY <2>1, <2>4, <3>2
      <4>2. Visit \in local'[t].todo /\ local'[t].key = Shown
        BY <1>5, <4>1, NotifyMoves
      <4> QED
        BY <2>2, <4>2 DEF WillShow
    <3> QED
      BY <3>1, <3>2
  <2> QED
    BY <2>1, <2>2, <2>3, <2>4 DEF Live
<1>6. CASE UiStep
  <2>1. /\ UNCHANGED <<visits, foreground, promised, seen, uiQueue>> /\ subscribers \subseteq subscribers'
    BY <1>6 DEF UiStep, Count, Freeze, RefreshHome, Subscribe, Drop, Forget, screen, history
  <2>2. ASSUME NEW m, WillShow(m) PROVE WillShow(m)'
    <3>1. \A i \in DOMAIN uiQueue : uiQueue[i].visit = Visit /\ m \in ToSet(uiQueue[i].text) => WillShow(m)'
      BY <2>1, QueueStays
    <3>2. /\ Others("ui") /\ local["ui"].todo = {}
          /\ pc["ui"] \notin {"clear", "tell", "copy", "post"}
      BY <1>6, UiMoves
    <3> QED
      BY <1>0, <2>1, <2>2, <3>1, <3>2, WillShowStays
  <2>3. Handles("ui")
    BY <1>6, UiHandles
  <2> QED
    BY <1>0, <1>1, <2>1, <2>2, <2>3, LiveStays
<1>7. ASSUME NEW s \in Chats \cup {Home}, Open(s)
      PROVE  Live'
  <2>1. promised' = promised /\ ~foreground
    BY <1>7 DEF Open
  <2>2. promised = {}
    BY <2>1 DEF Live, BInv, ScreenSound
  <2> QED
    BY <2>1, <2>2 DEF Live
<1>8. CASE Leave
  BY <1>8 DEF Leave, Live
<1>9. CASE RunUpdate
  <2>1. /\ UNCHANGED <<visits, foreground, subscribers, promised, messages, pc, local>>
        /\ seen \subseteq seen'
        /\ foreground /\ Head(uiQueue).visit = Visit => ToSet(Head(uiQueue).text) \subseteq seen'
    BY <1>9 DEF RunUpdate, manager
  <2>2. Visit' = Visit /\ Shown' = Shown
    BY <2>1 DEF Visit, Shown
  <2>3. ASSUME InChat, NEW m, m \notin seen', WillShow(m)
        PROVE  WillShow(m)'
    <3>1. ASSUME NEW i \in DOMAIN uiQueue, uiQueue[i].visit = Visit, m \in ToSet(uiQueue[i].text)
          PROVE  WillShow(m)'
      <4>1. i # 1
        BY <1>9, <2>1, <2>3, <3>1, RunUpdateQueue DEF InChat
      <4>2. PICK j \in DOMAIN uiQueue' : uiQueue'[j] = uiQueue[i]
        BY <1>9, <4>1, RunUpdateQueue
      <4> QED
        BY <2>2, <3>1, <4>2 DEF WillShow
    <3> QED
      BY <2>1, <2>2, <2>3, <3>1 DEF WillShow
  <2> QED
    BY <2>1, <2>3, LiveStays
<1> QED
  BY <1>2, <1>3, <1>4, <1>5, <1>6, <1>7, <1>8, <1>9 DEF Next, User

\* A counter is still to be read while a thread moves that did not announce it.
LEMMA WillRefreshStays ==
  ASSUME NEW t \in Threads, Others(t), UNCHANGED visits, NEW k, WillRefresh(k),
         \A i \in DOMAIN uiQueue : \E j \in DOMAIN uiQueue' : uiQueue'[j] = uiQueue[i],
         \/ k \in TabOf(local[t].key) /\ (pc[t] = "notify" \/ Visit \in local[t].todo)
         \/ k = local[t].key /\ pc[t] = "tell"
         => WillRefresh(k)'
  PROVE  WillRefresh(k)'
<1>1. ASSUME NEW u \in Threads \ {t},
             \/ k \in TabOf(local[u].key) /\ (pc[u] = "notify" \/ Visit \in local[u].todo)
             \/ k = local[u].key /\ pc[u] = "tell"
      PROVE  WillRefresh(k)'
  <2>1. pc'[u] = pc[u] /\ local'[u] = local[u] /\ Visit' = Visit
    BY DEF Others, Visit
  <2> QED
    BY <1>1, <2>1 DEF WillRefresh, TabOf
<1>2. \A i \in DOMAIN uiQueue : uiQueue[i].visit = Visit /\ k \in uiQueue[i].chats => WillRefresh(k)'
  BY QueueStays
<1> QED
  BY <1>1, <1>2 DEF WillRefresh

\* The home screen has subscribed unless it is deaf.
LEMMA HomeListens ==
  ASSUME BInv, UiKnows, InHome, pc["ui"] # "refresh", ~HomeIsDeaf
  PROVE  Visit \in subscribers
BY DEF BInv, ScreenSound, UiKnows, InHome, InChat, HomeIsDeaf

\* What a thread announces, the home screen will read, unless it is deaf.
LEMMA WillRefreshDelivered ==
  ASSUME BInv, UiKnows, NEW t \in Threads, Deliver(t), InHome, pc["ui"] # "refresh", ~gap',
         NEW k \in Chats, WillRefresh(k)
  PROVE  WillRefresh(k)'
<1>1. UNCHANGED visits /\ Others(t)
  BY DeliverHandles DEF Handles, Deliver, Add, Bump, Store, Notify, Call, Clear, Tell, Copy, Post, screen
<1>2. Visit' = Visit /\ Shown = Home
  BY <1>1 DEF Visit, InHome
<1>3. ASSUME k \in TabOf(local[t].key), pc[t] = "notify"
      PROVE  WillRefresh(k)'
  <2>1. Notify(t)
    BY <1>3 DEF Deliver, Add, Bump, Store, Call, Clear, Tell, Copy, Post
  <2>2. Visit \in subscribers
    BY <2>1, HomeListens DEF Notify
  <2>3. Visit \in local'[t].todo /\ local'[t].key = local[t].key
    BY <2>1, <2>2, NotifyMoves
  <2> QED
    BY <1>2, <1>3, <2>3 DEF WillRefresh, TabOf
<1>4. ASSUME k \in TabOf(local[t].key), Visit \in local[t].todo
      PROVE  WillRefresh(k)'
  <2>1. pc[t] = "calls"
    BY <1>4, ThreadFacts DEF Sound
  <2>2. Call(t)
    BY <2>1 DEF Deliver, Add, Bump, Store, Notify, Clear, Tell, Copy, Post
  <2>3. visits[Visit] = Home
    BY <1>2 DEF Shown
  <2>4. local[t].key \in Chats /\ Visit \in 1..Visit /\ local[t].key # Home
    BY <1>4, <2>2, CallMoves, ScreensAssumption
  <2>5. uiQueue' = Append(uiQueue, Refresh(Visit, TabOf(local[t].key)))
    BY <1>4, <2>2, <2>3, <2>4, CallMoves
  <2>6. /\ Refresh(Visit, TabOf(local[t].key)) \in Updates
        /\ Refresh(Visit, TabOf(local[t].key)).visit = Visit
        /\ Refresh(Visit, TabOf(local[t].key)).chats = TabOf(local[t].key)
    <3>1. TabOf(local[t].key) \in SUBSET Chats
      BY ScreensAssumption DEF TabOf
    <3> QED
      BY <2>4, <3>1, EmptyList, UpdateFacts
  <2>7. \E i \in DOMAIN uiQueue' : uiQueue'[i] = Refresh(Visit, TabOf(local[t].key))
    BY <2>5, <2>6, AppendFacts DEF BInv, Types
  <2> QED
    BY <1>2, <1>4, <2>6, <2>7 DEF WillRefresh
<1>5. ASSUME k = local[t].key, pc[t] = "tell"
      PROVE  WillRefresh(k)'
  <2>1. Tell(t)
    BY <1>5 DEF Deliver, Add, Bump, Store, Notify, Call, Clear, Copy, Post
  <2>2. Visit \in subscribers
    BY <2>1, HomeListens DEF Tell
  <2>3. PICK i \in DOMAIN uiQueue' : uiQueue'[i] = Refresh(Visit, Chats)
    BY <1>2, <2>1, <2>2, TellMarshals
  <2> QED
    BY <1>2, <2>3 DEF WillRefresh, Refresh
<1> QED
  BY <1>1, <1>3, <1>4, <1>5, DeliverQueue, WillRefreshStays

\* A step that counts nothing and refreshes nothing.
LEMMA BadgesStay ==
  ASSUME Badges, UNCHANGED <<visits, foreground, unread, badges, joined>>,
         gap => gap', pc["ui"] = "refresh" => pc'["ui"] = "refresh",
         InHome /\ ~gap' => \A k \in joined : WillRefresh(k) => WillRefresh(k)'
  PROVE  Badges'
<1>1. InHome' = InHome
  BY DEF InHome, Shown, Visit
<1> QED
  BY <1>1 DEF Badges

LEMMA BadgesDelivered ==
  ASSUME BInv, UiKnows, Badges, NEW t \in Threads, Deliver(t)
  PROVE  Badges'
<1>1. UNCHANGED <<visits, foreground, badges, joined>> /\ Others(t)
  BY DeliverHandles DEF Handles, Deliver, Add, Bump, Store, Notify, Call, Clear, Tell, Copy, Post, screen
<1>2. gap => gap'
  <2>1. CASE gap' = (gap \/ HomeIsDeaf)
    BY <2>1, Zenon
  <2>2. CASE UNCHANGED history
    BY <2>2 DEF history
  <2>3. CASE Add(t) \/ Store(t)
    BY <2>3 DEF Add, Store
  <2>4. CASE Notify(t) \/ Tell(t)
    BY <2>1, <2>4 DEF Notify, Tell
  <2>5. CASE Bump(t) \/ Call(t) \/ Clear(t) \/ Copy(t) \/ Post(t)
    BY <2>2, <2>5 DEF Bump, Call, Clear, Copy, Post
  <2> QED
    BY <2>3, <2>4, <2>5 DEF Deliver
<1>3. InHome' = InHome /\ joined \subseteq Chats /\ unread \in [Chats -> Nat]
  BY <1>1 DEF InHome, Shown, Visit, BInv, Types
<1>4. pc["ui"] = "refresh" => pc'["ui"] = "refresh"
  <2>1. pc[t] # "refresh"
    BY DEF Deliver, Add, Bump, Store, Notify, Call, Clear, Tell, Copy, Post
  <2> QED
    BY <1>1, <2>1 DEF Others, Threads
<1>5. ASSUME InHome, ~gap', pc'["ui"] # "refresh", NEW k \in joined,
             unread'[k] = unread[k] \/ WillRefresh(k)'
      PROVE  badges'[k] = unread'[k] \/ WillRefresh(k)'
  <2>1. badges[k] = unread[k] \/ WillRefresh(k)
    BY <1>1, <1>2, <1>4, <1>5 DEF Badges
  <2>2. WillRefresh(k) => WillRefresh(k)'
    BY <1>3, <1>4, <1>5, WillRefreshDelivered
  <2> QED
    BY <1>1, <1>5, <2>1, <2>2
<1>6. ASSUME NEW k \in joined
      PROVE  unread'[k] = unread[k] \/ WillRefresh(k)'
  <2>1. CASE Store(t)
    <3>1. /\ pc'[t] = "notify" /\ local'[t].key = local[t].key
          /\ unread'[k] = unread[k] \/ k = local[t].key
      BY <1>3, <2>1 DEF Store, Goto, BInv, ThreadTypes, Locals
    <3>2. k \in TabOf(k)
      BY <1>3, ScreensAssumption DEF TabOf
    <3> QED
      BY <3>1, <3>2 DEF WillRefresh, TabOf
  <2>2. CASE Clear(t)
    <3>1. /\ unread[local[t].key] > 0 => pc'[t] = "tell"
          /\ local'[t].key = local[t].key
          /\ unread'[k] = IF k = local[t].key THEN 0 ELSE unread[k]
      BY <1>3, <2>2 DEF Clear, Goto, BInv, ThreadTypes
    <3>2. unread[k] \in Nat
      BY <1>3
    <3> QED
      BY <3>1, <3>2 DEF WillRefresh
  <2>3. CASE ~Store(t) /\ ~Clear(t)
    BY <2>3 DEF Deliver, Add, Bump, Notify, Call, Tell, Copy, Post, manager
  <2> QED
    BY <2>1, <2>2, <2>3
<1> QED
  BY <1>1, <1>3, <1>5, <1>6 DEF Badges

LEMMA BadgesKept ==
  ASSUME BInv, Gone, UiKnows, Badges, Next
  PROVE  Badges'
<1>0. "ui" \in Threads /\ joined \subseteq Chats
  BY DEF Threads, BInv, Types
<1>1. ASSUME NEW k \in Chats, Hear(k) \/ HearMark(k) \/ Send \/ RemoveChat(k) \/ AddChat(k)
      PROVE  Badges'
  <2>1. PICK t \in Threads : Begins(t)
    BY <1>1, UserBegins
  <2>2. /\ pc[t] = "idle" /\ Others(t) /\ pc'[t] # "refresh"
        /\ UNCHANGED <<unread, badges, visits, foreground, uiQueue, gap>>
        /\ \A c \in joined' : c \in joined \/ (pc'[t] = "notify" /\ c = local'[t].key)
        /\ joined' \subseteq Chats
    BY <1>0, <1>1, <2>1 DEF Begins, Hear, HearMark, Send, RemoveChat, AddChat, manager
  <2>3. local[t].todo = {}
    BY <2>2, ThreadFacts DEF Sound
  <2>4. ASSUME NEW c, WillRefresh(c) PROVE WillRefresh(c)'
    BY <2>2, <2>3, <2>4, WillRefreshStays
  <2>5. ASSUME NEW c \in joined' \ joined PROVE WillRefresh(c)'
    <3>1. pc'[t] = "notify" /\ c = local'[t].key /\ c \in Chats
      BY <2>2, <2>5
    <3>2. c \in TabOf(c)
      BY <3>1 DEF TabOf
    <3> QED
      BY <3>1, <3>2 DEF WillRefresh, TabOf
  <2>6. InHome' = InHome /\ (pc["ui"] = "refresh" => pc'["ui"] = "refresh")
    BY <2>2 DEF InHome, Shown, Visit, Others, Threads
  <2> QED
    BY <2>2, <2>4, <2>5, <2>6 DEF Badges
<1>2. CASE Send
  <2>1. Shown \in Chats
    BY <1>2, ShownFacts DEF Send
  <2> QED
    BY <1>1, <1>2, <2>1
<1>3. ASSUME NEW t \in Threads, Deliver(t)
      PROVE  Badges'
  BY <1>3, BadgesDelivered
<1>4. ASSUME UiStep, NEW k, WillRefresh(k)
      PROVE  WillRefresh(k)'
  <2>1. /\ Others("ui") /\ local["ui"].todo = {} /\ pc["ui"] \notin {"notify", "tell"}
        /\ UNCHANGED <<visits, uiQueue>>
    BY <1>4, UiMoves DEF UiStep, Count, Freeze, RefreshHome, Subscribe, Drop, Forget, screen
  <2> QED
    BY <1>0, <1>4, <2>1, WillRefreshStays
<1>5. CASE Count \/ Freeze \/ Subscribe \/ Drop
  <2>1. /\ UNCHANGED <<visits, foreground, unread, badges, joined, gap>>
        /\ pc["ui"] # "refresh"
    BY <1>5 DEF Count, Freeze, Subscribe, Drop, manager, screen, history
  <2> QED
    BY <1>4, <1>5, <2>1, BadgesStay DEF UiStep
<1>6. CASE RefreshHome
  BY <1>6 DEF RefreshHome, Badges, manager
<1>7. CASE Forget
  <2>1. /\ UNCHANGED <<visits, foreground, badges, joined, gap>> /\ pc["ui"] = "forget"
        /\ unread' = [unread EXCEPT ![local["ui"].key] = 0]
    BY <1>7 DEF Forget, screen, history
  <2>2. local["ui"].key \in Chats
    BY <1>0, <2>1, ThreadFacts DEF Sound
  <2>3. local["ui"].key \notin joined
    BY <2>1, <2>2 DEF Gone, Removing
  <2>4. \A k \in joined : unread'[k] = unread[k]
    BY <1>0, <2>1, <2>3 DEF BInv, Types
  <2>5. InHome' = InHome
    BY <2>1 DEF InHome, Shown, Visit
  <2> QED
    BY <1>4, <1>7, <2>1, <2>4, <2>5 DEF Badges, UiStep
<1>8. ASSUME NEW s \in Chats \cup {Home}, Open(s)
      PROVE  Badges'
  <2>1. CASE s = Home
    BY <1>8, <2>1 DEF Open, Goto, BInv, ThreadTypes, Badges, Threads
  <2>2. CASE s # Home
    <3>1. Visit \in Nat /\ visits \in Seq(Chats \cup {Home}) /\ visits' = Append(visits, s)
      BY <1>8 DEF Open, BInv, Types, Visit
    <3>2. Shown' = s
      BY <3>1 DEF Shown, Visit
    <3> QED
      BY <2>2, <3>2 DEF Badges, InHome
  <2> QED
    BY <2>1, <2>2
<1>9. CASE Leave
  BY <1>9 DEF Leave, Badges, InHome
<1>10. CASE RunUpdate
  <2>1. /\ UNCHANGED <<visits, foreground, pc, local, joined, unread, gap>>
        /\ \A k \in Chats :
             badges'[k] = IF foreground /\ Head(uiQueue).visit = Visit /\ k \in Head(uiQueue).chats
                          THEN unread[k] ELSE badges[k]
    BY <1>10 DEF RunUpdate, manager
  <2>2. Visit' = Visit /\ InHome' = InHome
    BY <2>1 DEF Visit, InHome, Shown
  <2>3. ASSUME InHome, NEW k \in joined, WillRefresh(k)
        PROVE  badges'[k] = unread'[k] \/ WillRefresh(k)'
    <3>1. ASSUME NEW i \in DOMAIN uiQueue, uiQueue[i].visit = Visit, k \in uiQueue[i].chats
          PROVE  badges'[k] = unread'[k] \/ WillRefresh(k)'
      <4>1. CASE i = 1
        BY <1>0, <1>10, <2>1, <2>3, <3>1, <4>1, RunUpdateQueue DEF InHome
      <4>2. CASE i # 1
        <5>1. PICK j \in DOMAIN uiQueue' : uiQueue'[j] = uiQueue[i]
          BY <1>10, <4>2, RunUpdateQueue
        <5> QED
          BY <2>2, <3>1, <5>1 DEF WillRefresh
      <4> QED
        BY <4>1, <4>2
    <3> QED
      BY <2>1, <2>2, <2>3, <3>1 DEF WillRefresh, TabOf
  <2> QED
    BY <1>0, <2>1, <2>2, <2>3 DEF Badges
<1> QED
  BY <1>1, <1>2, <1>3, <1>5, <1>6, <1>7, <1>8, <1>9, <1>10 DEF Next, UiStep, User

ScreensInv == MessagesInv /\ UiKnows /\ Live /\ Badges

\* What is on its way to the screen in the foreground, and what it has: no
\* message it was notified of and no counter that changed is forgotten.
THEOREM ScreensInvIsInvariant == Spec => []ScreensInv
<1>1. Init => UiKnows /\ Live /\ Badges
  <2> SUFFICES ASSUME Init PROVE UiKnows /\ Live /\ Badges
    OBVIOUS
  <2>1. /\ pc["ui"] = "idle" /\ ~foreground /\ local["ui"].todo = {} /\ promised = {}
    BY UnusedFacts DEF Init, Threads
  <2> QED
    BY <2>1 DEF UiKnows, Live, Badges, InHome, InChat, Rendering
<1>2. MessagesInv /\ UiKnows /\ Live /\ Badges /\ [Next]_vars => (UiKnows /\ Live /\ Badges)'
  <2> SUFFICES ASSUME MessagesInv, UiKnows, Live, Badges, [Next]_vars
               PROVE  (UiKnows /\ Live /\ Badges)'
    OBVIOUS
  <2>1. CASE Next
    BY <2>1, UiKnowsKept, LiveKept, BadgesKept DEF MessagesInv
  <2>2. CASE UNCHANGED vars
    <3>1. UNCHANGED <<joined, messages, unread, subscribers, visits, foreground, badges, uiQueue,
                      pc, local, seen, promised, gap>>
      BY <2>2 DEF vars, manager, screen, history
    <3>2. Visit' = Visit /\ Shown' = Shown /\ InChat' = InChat /\ InHome' = InHome
      BY <3>1 DEF Visit, Shown, InChat, InHome
    <3>3. UiKnows'
      BY <3>1, <3>2 DEF UiKnows
    <3>4. Live'
      BY <3>1, <3>2 DEF Live, WillShow
    <3>5. Badges'
      BY <3>1, <3>2 DEF Badges, WillRefresh, TabOf
    <3> QED
      BY <3>3, <3>4, <3>5
  <2> QED
    BY <2>1, <2>2
<1> QED
  BY <1>1, <1>2, MessagesInvIsInvariant, PTL DEF Spec, ScreensInv

LEMMA QuietFacts ==
  ASSUME BInv, Quiet
  PROVE  /\ \A t \in Threads : pc[t] = "idle" /\ local[t].todo = {}
         /\ DOMAIN uiQueue = {}
BY ThreadFacts DEF Quiet, Sound

\* An open chat has shown every message it was notified of when everything has
\* come to rest (_notify, _render, runOnUiThread), in whatever order several
\* threads rendered it.
THEOREM OpenChatLive == Spec => []OpenChatIsLive
<1>1. ScreensInv => OpenChatIsLive
  BY QuietFacts DEF ScreensInv, MessagesInv, Live, WillShow, OpenChatIsLive
<1> QED
  BY <1>1, ScreensInvIsInvariant, PTL

\* The badges of the home screen are the counters when everything has come to
\* rest, whoever changed them (_bump_unread, clear_unread, _forget), unless a
\* notification fell between its refresh and its subscription.
THEOREM BadgesFollowCounters == Spec => []BadgesFollow
<1>1. ScreensInv => BadgesFollow
  <2> SUFFICES ASSUME ScreensInv, Quiet, InHome, ~gap, NEW k \in joined
               PROVE  badges[k] = unread[k]
    BY DEF BadgesFollow
  <2>1. BInv /\ Badges /\ "ui" \in Threads
    BY DEF ScreensInv, MessagesInv, Threads
  <2>2. pc["ui"] # "refresh" /\ ~WillRefresh(k)
    BY <2>1, QuietFacts DEF WillRefresh
  <2> QED
    BY <2>1, <2>2 DEF Badges
<1> QED
  BY <1>1, ScreensInvIsInvariant, PTL

-----------------------------------------------------------------------------
(* The order of the messages, and the texts that are made of them.         *)

\* What S has of a list it has with all that comes before.
ClosedIn(list, S) == \A i, j \in DOMAIN list : i < j /\ list[j] \in S => list[i] \in S

OnceIn(list) == \A i, j \in DOMAIN list : list[i] = list[j] => i = j

LEMMA CappedPlaces ==
  ASSUME NEW list \in Lists, NEW x \in Messages, NEW new, new = Capped(Append(list, x))
  PROVE  \E d \in {0, 1} : \A j \in DOMAIN new :
           \/ j + d \in DOMAIN list /\ new[j] = list[j + d]
           \/ j + d = Len(list) + 1 /\ new[j] = x
<1>1. PICK long : long = Append(list, x)
  OBVIOUS
<1>2. /\ long \in Seq(Messages) /\ Len(long) = Len(list) + 1 /\ Len(list) \in Nat
      /\ DOMAIN long = 1..(Len(list) + 1) /\ DOMAIN list = 1..Len(list)
      /\ \A i \in 1..Len(list) : long[i] = list[i]
      /\ long[Len(list) + 1] = x
  BY <1>1 DEF Lists
<1>3. CASE new = long
  <2>1. \A j \in DOMAIN new : \/ j + 0 \in DOMAIN list /\ new[j] = list[j + 0]
                              \/ j + 0 = Len(list) + 1 /\ new[j] = x
    BY <1>2, <1>3
  <2> QED
    BY <2>1
<1>4. CASE new = Tail(long)
  <2>1. long # <<>>
    BY <1>2
  <2>2. \A j \in DOMAIN new : j + 1 \in DOMAIN long /\ new[j] = long[j + 1] /\ j \in Nat
    BY <1>2, <1>4, <2>1, TailFacts
  <2>3. \A j \in DOMAIN new : \/ j + 1 \in DOMAIN list /\ new[j] = list[j + 1]
                              \/ j + 1 = Len(list) + 1 /\ new[j] = x
    BY <1>2, <2>2
  <2> QED
    BY <2>3
<1> QED
  BY <1>1, <1>3, <1>4 DEF Capped

LEMMA OnceCapped ==
  ASSUME NEW list \in Lists, NEW x \in Messages, OnceIn(list), x \notin ToSet(list)
  PROVE  OnceIn(Capped(Append(list, x)))
<1>1. PICK new : new = Capped(Append(list, x))
  OBVIOUS
<1>2. PICK d \in {0, 1} : \A j \in DOMAIN new :
        \/ j + d \in DOMAIN list /\ new[j] = list[j + d]
        \/ j + d = Len(list) + 1 /\ new[j] = x
  BY <1>1, CappedPlaces
<1>3. DOMAIN new \subseteq Int
  BY <1>1, CappedFacts DEF Lists
<1>4. \A i \in DOMAIN list : list[i] # x
  BY DEF ToSet, Lists
<1>5. ASSUME NEW i \in DOMAIN new, NEW j \in DOMAIN new, new[i] = new[j]
      PROVE  i = j
  <2>1. i + d = j + d
    BY <1>2, <1>4, <1>5 DEF OnceIn
  <2>2. i \in Int /\ j \in Int /\ (d = 0 \/ d = 1)
    BY <1>3
  <2>3. CASE d = 0
    BY <2>1, <2>2, <2>3
  <2>4. CASE d = 1
    BY <2>1, <2>2, <2>4
  <2> QED
    BY <2>2, <2>3, <2>4
<1> QED
  BY <1>1, <1>5 DEF OnceIn

LEMMA ClosedCapped ==
  ASSUME NEW list \in Lists, NEW x \in Messages, NEW S, ClosedIn(list, S), x \notin S
  PROVE  ClosedIn(Capped(Append(list, x)), S)
<1>1. PICK new : new = Capped(Append(list, x))
  OBVIOUS
<1>2. PICK d \in {0, 1} : \A j \in DOMAIN new :
        \/ j + d \in DOMAIN list /\ new[j] = list[j + d]
        \/ j + d = Len(list) + 1 /\ new[j] = x
  BY <1>1, CappedPlaces
<1>3. DOMAIN new \subseteq Int /\ DOMAIN list = 1..Len(list) /\ Len(list) \in Nat
  BY <1>1, CappedFacts DEF Lists
<1>4. ASSUME NEW i \in DOMAIN new, NEW j \in DOMAIN new, i < j, new[j] \in S
      PROVE  new[i] \in S
  <2>1. j + d \in DOMAIN list /\ new[j] = list[j + d]
    BY <1>2, <1>4
  <2>2. i + d < j + d /\ i + d # Len(list) + 1
    BY <1>3, <1>4, <2>1
  <2>3. i + d \in DOMAIN list /\ new[i] = list[i + d]
    BY <1>2, <2>2
  <2> QED
    BY <1>4, <2>1, <2>2, <2>3 DEF ClosedIn
<1> QED
  BY <1>1, <1>4 DEF ClosedIn

LEMMA ClosedFacts ==
  /\ \A S : ClosedIn(<<>>, S)
  /\ \A list, S, R : ClosedIn(list, S) /\ ClosedIn(list, R) => ClosedIn(list, S \cup R)
  /\ \A list \in Lists : ClosedIn(list, ToSet(list))
  /\ \A S : \A list \in Lists : ToSet(list) \cap S = {} => ClosedIn(list, S)
<1>1. \A S : ClosedIn(<<>>, S)
  BY DEF ClosedIn
<1>2. \A list, S, R : ClosedIn(list, S) /\ ClosedIn(list, R) => ClosedIn(list, S \cup R)
  BY DEF ClosedIn
<1>3. ASSUME NEW list \in Lists, NEW i \in DOMAIN list
      PROVE  list[i] \in ToSet(list)
  BY ListFacts DEF Lists
<1> QED
  BY <1>1, <1>2, <1>3 DEF ClosedIn

\* The texts that threads hold and that wait in the queue.
Texts == {local[t].text : t \in Threads} \cup {uiQueue[i].text : i \in DOMAIN uiQueue}

InTexts == UNION {ToSet(text) : text \in Texts}

\* A message is added to one history, or a history is dropped.
LEMMA MessagesMove ==
  ASSUME BInv, Next, NEW k \in Chats
  PROVE  \/ messages'[k] = messages[k]
         \/ messages'[k] = <<>> /\ pc["ui"] = "drop"
         \/ \E t \in Threads :
              /\ Add(t) /\ k = local[t].key /\ local[t].id \in Messages
              /\ messages'[k] = Capped(Append(messages[k], local[t].id))
<1>0. messages \in [Chats -> Lists]
  BY DEF BInv, Types
<1>1. ASSUME NEW t \in Threads, Add(t)
      PROVE  \/ messages'[k] = messages[k]
             \/ /\ k = local[t].key /\ local[t].id \in Messages
                /\ messages'[k] = Capped(Append(messages[k], local[t].id))
  <2>1. local[t].id \in Messages
    BY <1>1, ThreadFacts DEF Add, Sound, Messages
  <2>2. messages' = [messages EXCEPT ![local[t].key] = Capped(Append(messages[local[t].key], local[t].id))]
    BY <1>1 DEF Add
  <2> QED
    BY <1>0, <2>1, <2>2
<1>2. CASE Drop
  BY <1>0, <1>2 DEF Drop
<1>3. CASE UNCHANGED messages
  BY <1>3
<1>4. ASSUME NEW t \in Threads, Deliver(t), ~Add(t)
      PROVE  UNCHANGED messages
  BY <1>4 DEF Deliver, Bump, Store, Notify, Call, Clear, Tell, Copy, Post, manager
<1>5. ASSUME UiStep, ~Drop
      PROVE  UNCHANGED messages
  BY <1>5 DEF UiStep, Count, Freeze, RefreshHome, Subscribe, Forget, manager
<1>6. ASSUME NEW c \in Chats, Hear(c) \/ HearMark(c) \/ RemoveChat(c) \/ AddChat(c)
      PROVE  UNCHANGED messages
  BY <1>6 DEF Hear, HearMark, RemoveChat, AddChat, manager
<1>7. ASSUME RunUpdate \/ Leave \/ Send \/ (\E s \in Chats \cup {Home} : Open(s))
      PROVE  UNCHANGED messages
  BY <1>7 DEF RunUpdate, Leave, Send, Open, manager
<1> QED
  BY <1>1, <1>2, <1>3, <1>4, <1>5, <1>6, <1>7 DEF Next, User

\* A text is a copy of a history as it is, moves from a thread to the queue, and
\* from the queue to what was on a screen or missed it.
LEMMA TextsMove ==
  ASSUME BInv, Next
  PROVE  /\ \A u \in Threads :
              \/ local'[u].text = <<>>
              \/ local'[u].text = local[u].text /\ local'[u].key = local[u].key
              \/ /\ Copy(u) /\ local'[u].text = messages[local[u].key]
                 /\ local'[u].key = local[u].key /\ local[u].key \in Chats
         /\ \A i \in DOMAIN uiQueue' : uiQueue'[i].text = <<>> \/ uiQueue'[i].text \in Texts
         /\ InTexts \cup seen \cup missed \subseteq InTexts' \cup seen' \cup missed'
         /\ \/ seen' \cup missed' = seen \cup missed
            \/ \E text \in Texts : seen' \cup missed' = seen \cup missed \cup ToSet(text)
<1>0. "ui" \in Threads /\ uiQueue \in Seq(Updates)
  BY DEF Threads, BInv, Types
<1>1. ASSUME UNCHANGED uiQueue
      PROVE  \A i \in DOMAIN uiQueue' : uiQueue'[i].text \in Texts
  BY <1>1 DEF Texts
<1>2. ASSUME NEW u \in Threads, pc[u] # "post"
      PROVE  local[u].text = <<>>
  BY <1>2, ThreadFacts DEF Sound
<1>3. ASSUME NEW u \in Threads, pc'[u] # "post"
      PROVE  local'[u].text = <<>>
  BY <1>3, NextBInv DEF BInv, ThreadsSound, Sound
<1>4. ASSUME \A i \in DOMAIN uiQueue : \E j \in DOMAIN uiQueue' : uiQueue'[j] = uiQueue[i],
             seen' = seen, missed' = missed,
             \A u \in Threads : local[u].text = <<>> \/ local'[u].text = local[u].text
      PROVE  InTexts \cup seen \cup missed \subseteq InTexts' \cup seen' \cup missed'
  <2>1. ASSUME NEW i \in DOMAIN uiQueue
        PROVE  ToSet(uiQueue[i].text) \subseteq InTexts'
    <3>1. PICK j \in DOMAIN uiQueue' : uiQueue'[j] = uiQueue[i]
      BY <1>4
    <3> QED
      BY <3>1 DEF InTexts, Texts
  <2>2. ASSUME NEW u \in Threads
        PROVE  ToSet(local[u].text) \subseteq InTexts'
    BY <1>4, EmptyList DEF InTexts, Texts
  <2> QED
    BY <1>4, <2>1, <2>2 DEF InTexts, Texts
<1>5. ASSUME NEW k \in Chats, Hear(k) \/ HearMark(k) \/ Send \/ RemoveChat(k) \/ AddChat(k)
      PROVE  /\ UNCHANGED <<uiQueue, seen, missed>>
             /\ \A u \in Threads :
                  \/ local'[u].text = local[u].text /\ local'[u].key = local[u].key
                  \/ local'[u].text = <<>> /\ local[u].text = <<>>
  <2>1. PICK t \in Threads : Begins(t)
    BY <1>5, UserBegins
  <2>2. local[t].text = <<>> /\ local'[t].text = <<>> /\ Others(t)
    BY <1>2, <2>1 DEF Begins
  <2> QED
    BY <2>1, <2>2 DEF Begins, Others
<1>6. ASSUME NEW k \in Chats, Hear(k) \/ HearMark(k) \/ Send \/ RemoveChat(k) \/ AddChat(k)
      PROVE  /\ \A u \in Threads :
                  \/ local'[u].text = <<>>
                  \/ local'[u].text = local[u].text /\ local'[u].key = local[u].key
             /\ \A i \in DOMAIN uiQueue' : uiQueue'[i].text \in Texts
             /\ InTexts \cup seen \cup missed \subseteq InTexts' \cup seen' \cup missed'
             /\ seen' \cup missed' = seen \cup missed
  BY <1>1, <1>4, <1>5, <1>6
<1>7. CASE Send
  <2>1. Shown \in Chats
    BY <1>7, ShownFacts DEF Send
  <2> QED
    BY <1>6, <1>7, <2>1
<1>8. ASSUME NEW t \in Threads, Deliver(t)
      PROVE  /\ \A u \in Threads :
                  \/ local'[u].text = <<>>
                  \/ local'[u].text = local[u].text /\ local'[u].key = local[u].key
                  \/ /\ Copy(u) /\ local'[u].text = messages[local[u].key]
                     /\ local'[u].key = local[u].key /\ local[u].key \in Chats
             /\ \A i \in DOMAIN uiQueue' : uiQueue'[i].text = <<>> \/ uiQueue'[i].text \in Texts
             /\ InTexts \cup seen \cup missed \subseteq InTexts' \cup seen' \cup missed'
             /\ seen' \cup missed' = seen \cup missed
  <2>1. Others(t) /\ UNCHANGED <<seen, missed>>
    BY <1>8, DeliverHandles DEF Handles, Deliver, Add, Bump, Store, Notify, Call, Clear, Tell, Copy, Post,
                                history
  <2>2. \/ local'[t].text = <<>>
        \/ /\ Copy(t) /\ local'[t].text = messages[local[t].key]
           /\ local'[t].key = local[t].key /\ local[t].key \in Chats
    <3>1. CASE Copy(t)
      <4>1. local'[t].key = local[t].key /\ local[t].key \in Chats
        BY <3>1, OthersMove
      <4>2. local'[t].text = messages[local[t].key]
        BY <3>1 DEF Copy, BInv, ThreadTypes, Locals
      <4> QED
        BY <3>1, <4>1, <4>2
    <3>2. CASE ~Copy(t)
      <4>1. pc'[t] # "post"
        BY <1>8, <3>2, NotifyMoves, CallMoves, PostLeaves
        DEF Deliver, Add, Bump, Store, Clear, Tell, Goto, BInv, ThreadTypes
      <4> QED
        BY <1>3, <4>1
    <3> QED
      BY <3>1, <3>2
  <2>3. \A i \in DOMAIN uiQueue' : uiQueue'[i].text = <<>> \/ uiQueue'[i].text \in Texts
    <3>1. CASE Tell(t)
      BY <3>1, TellMarshals DEF Refresh, Texts
    <3>2. CASE Call(t) /\ uiQueue' # uiQueue
      <4>1. PICK v \in 1..Visit : uiQueue' = Append(uiQueue, Refresh(v, TabOf(local[t].key)))
        BY <3>2, CallMoves
      <4>2. TabOf(local[t].key) \in SUBSET Chats
        BY ScreensAssumption DEF TabOf
      <4>3. Refresh(v, TabOf(local[t].key)) \in Updates /\ Refresh(v, TabOf(local[t].key)).text = <<>>
        BY <4>2, EmptyList, UpdateFacts
      <4> QED
        BY <1>0, <4>1, <4>3, AppendFacts DEF Texts
    <3>3. CASE Post(t)
      <4>1. /\ uiQueue' = Append(uiQueue, Show(local[t].visit, local[t].text))
            /\ local[t].visit \in 1..Visit /\ local[t].text \in Lists
        BY <3>3, PostMoves DEF Post
      <4>2. /\ Show(local[t].visit, local[t].text) \in Updates
            /\ Show(local[t].visit, local[t].text).text = local[t].text
        <5>1. {} \in SUBSET Chats
          OBVIOUS
        <5>2. Show(local[t].visit, local[t].text) \in Updates
          BY <4>1, <5>1, UpdateFacts
        <5> QED
          BY <5>2 DEF Show
      <4> QED
        BY <1>0, <4>1, <4>2, AppendFacts DEF Texts
    <3>4. CASE Add(t) \/ Bump(t) \/ Store(t) \/ Notify(t) \/ Clear(t) \/ Copy(t)
      BY <1>1, <3>4 DEF Add, Bump, Store, Notify, Clear, Copy
    <3> QED
      BY <1>1, <1>8, <3>1, <3>2, <3>3, <3>4 DEF Deliver
  <2>4. InTexts \cup seen \cup missed \subseteq InTexts' \cup seen' \cup missed'
    <3>1. CASE pc[t] # "post"
      BY <1>2, <1>4, <1>8, <2>1, <3>1, DeliverQueue DEF Others
    <3>2. CASE pc[t] = "post"
      <4>1. Post(t)
        BY <1>8, <3>2 DEF Deliver, Add, Bump, Store, Notify, Call, Clear, Tell, Copy
      <4>2. \E j \in DOMAIN uiQueue' : uiQueue'[j].text = local[t].text
        BY <4>1, PostLeaves
      <4>3. ToSet(local[t].text) \subseteq InTexts'
        BY <4>2 DEF InTexts, Texts
      <4>4. ASSUME NEW i \in DOMAIN uiQueue
            PROVE  ToSet(uiQueue[i].text) \subseteq InTexts'
        <5>1. i \in DOMAIN uiQueue' /\ uiQueue'[i] = uiQueue[i]
          BY <4>1, PostLeaves
        <5> QED
          BY <5>1 DEF InTexts, Texts
      <4>5. ASSUME NEW u \in Threads, u # t
            PROVE  ToSet(local[u].text) \subseteq InTexts'
        BY <2>1, <4>5 DEF Others, InTexts, Texts
      <4> QED
        BY <2>1, <4>3, <4>4, <4>5 DEF InTexts, Texts
    <3> QED
      BY <3>1, <3>2
  <2> QED
    BY <2>1, <2>2, <2>3, <2>4 DEF Others
<1>9. ASSUME UiStep \/ Leave \/ (\E s \in Chats \cup {Home} : Open(s))
      PROVE  /\ \A u \in Threads :
                  \/ local'[u].text = <<>>
                  \/ local'[u].text = local[u].text /\ local'[u].key = local[u].key
             /\ \A i \in DOMAIN uiQueue' : uiQueue'[i].text \in Texts
             /\ InTexts \cup seen \cup missed \subseteq InTexts' \cup seen' \cup missed'
             /\ seen' \cup missed' = seen \cup missed
  <2>1. UNCHANGED <<uiQueue, seen, missed>>
    BY <1>9 DEF UiStep, Count, Freeze, RefreshHome, Subscribe, Drop, Forget, Leave, Open, screen, history
  <2>2. Others("ui")
    BY <1>9, UiHandles DEF Handles
  <2>3. CASE local' = local
    BY <1>1, <1>4, <2>1, <2>3
  <2>4. CASE local' # local
    <3>1. UiStep /\ pc["ui"] \in {"count", "freeze", "refresh", "subscribe", "drop", "forget"}
      BY <1>9, <2>4, UiMoves DEF Leave, Open
    <3>2. pc'["ui"] # "post"
      BY <1>0, <3>1 DEF UiStep, Count, Freeze, RefreshHome, Subscribe, Drop, Forget, Goto, BInv, ThreadTypes
    <3>3. local["ui"].text = <<>> /\ local'["ui"].text = <<>>
      BY <1>0, <1>2, <1>3, <3>1, <3>2
    <3> QED
      BY <1>1, <1>4, <2>1, <2>2, <3>3 DEF Others
  <2> QED
    BY <2>3, <2>4
<1>10. CASE RunUpdate
  <2>1. /\ local' = local /\ seen' \cup missed' = seen \cup missed \cup ToSet(Head(uiQueue).text)
        /\ uiQueue # <<>>
    BY <1>10 DEF RunUpdate
  <2>2. /\ 1 \in DOMAIN uiQueue /\ Head(uiQueue) = uiQueue[1]
        /\ \A i \in DOMAIN uiQueue : i = 1 \/ \E j \in DOMAIN uiQueue' : uiQueue'[j] = uiQueue[i]
        /\ \A i \in DOMAIN uiQueue' : \E j \in DOMAIN uiQueue : uiQueue'[i] = uiQueue[j]
    BY <1>0, <1>10, <2>1, RunUpdateQueue, TailFacts
  <2>3. Head(uiQueue).text \in Texts
    BY <2>2 DEF Texts
  <2>4. \A i \in DOMAIN uiQueue' : uiQueue'[i].text \in Texts
    BY <2>2 DEF Texts
  <2>5. ASSUME NEW i \in DOMAIN uiQueue
        PROVE  ToSet(uiQueue[i].text) \subseteq InTexts' \cup seen' \cup missed'
    <3>1. CASE i = 1
      BY <2>1, <2>2, <3>1
    <3>2. CASE i # 1
      <4>1. PICK j \in DOMAIN uiQueue' : uiQueue'[j] = uiQueue[i]
        BY <2>2, <3>2
      <4> QED
        BY <4>1 DEF InTexts, Texts
    <3> QED
      BY <3>1, <3>2
  <2>6. ASSUME NEW u \in Threads
        PROVE  ToSet(local[u].text) \subseteq InTexts'
    BY <2>1 DEF InTexts, Texts
  <2>7. InTexts \subseteq InTexts' \cup seen' \cup missed'
    BY <2>5, <2>6 DEF InTexts, Texts
  <2> QED
    BY <2>1, <2>3, <2>4, <2>7
<1> QED
  BY <1>6, <1>7, <1>8, <1>9, <1>10 DEF Next, User

LEMMA TextsGrow ==
  ASSUME BInv, Next
  PROVE  /\ \A text \in Texts' :
              \/ text = <<>> \/ text \in Texts
              \/ \E u \in Threads : /\ Copy(u) /\ local[u].key \in Chats
                                    /\ text = messages[local[u].key]
         /\ \A m \in InTexts' \cup seen' \cup missed' :
              \/ m \in InTexts \cup seen \cup missed
              \/ \E k \in Chats : m \in ToSet(messages[k])
<1>1. ASSUME NEW text \in Texts'
      PROVE  \/ text = <<>> \/ text \in Texts
             \/ \E u \in Threads : /\ Copy(u) /\ local[u].key \in Chats
                                   /\ text = messages[local[u].key]
  <2>1. CASE \E u \in Threads : text = local'[u].text
    BY <2>1, TextsMove DEF Texts
  <2>2. CASE \E i \in DOMAIN uiQueue' : text = uiQueue'[i].text
    BY <2>2, TextsMove
  <2> QED
    BY <1>1, <2>1, <2>2 DEF Texts
<1>2. ASSUME NEW m \in InTexts'
      PROVE  m \in InTexts \/ \E k \in Chats : m \in ToSet(messages[k])
  <2>1. PICK text \in Texts' : m \in ToSet(text)
    BY <1>2 DEF InTexts
  <2>2. text # <<>>
    BY <2>1, EmptyList
  <2> QED
    BY <1>1, <2>1, <2>2 DEF InTexts
<1>3. ASSUME NEW m \in seen' \cup missed'
      PROVE  m \in InTexts \cup seen \cup missed
  BY <1>3, TextsMove DEF InTexts
<1> QED
  BY <1>1, <1>2, <1>3

\* Who changes what a thread is at.
LEMMA Movers ==
  ASSUME BInv, Next, NEW t \in Threads
  PROVE  \/ pc'[t] = pc[t] /\ local'[t] = local[t]
         \/ pc[t] = "idle" /\ (Begins(t) \/ \E s \in Chats \cup {Home} : Open(s))
         \/ Deliver(t) \/ (t = "ui" /\ UiStep)
<1>1. ASSUME NEW k \in Chats, Hear(k) \/ HearMark(k) \/ Send \/ RemoveChat(k) \/ AddChat(k)
      PROVE  (pc'[t] = pc[t] /\ local'[t] = local[t]) \/ (pc[t] = "idle" /\ Begins(t))
  <2>1. PICK u \in Threads : Begins(u)
    BY <1>1, UserBegins
  <2> QED
    BY <2>1 DEF Begins, Others
<1>2. CASE Send
  <2>1. Shown \in Chats
    BY <1>2, ShownFacts DEF Send
  <2> QED
    BY <1>1, <1>2, <2>1
<1>3. ASSUME NEW u \in Threads, Deliver(u), u # t
      PROVE  pc'[t] = pc[t] /\ local'[t] = local[t]
  BY <1>3, DeliverHandles DEF Handles, Others
<1>4. ASSUME UiStep \/ RunUpdate \/ Leave \/ (\E s \in Chats \cup {Home} : Open(s)), t # "ui"
      PROVE  pc'[t] = pc[t] /\ local'[t] = local[t]
  BY <1>4, UiHandles DEF Handles, Others
<1>5. CASE RunUpdate \/ Leave \/ (\E s \in Chats \cup {Home} : Open(s))
  BY <1>4, <1>5 DEF RunUpdate, Leave, Open
<1> QED
  BY <1>1, <1>2, <1>3, <1>4, <1>5 DEF Next, User

\* What is recorded of messages is of the past.
Past ==
  /\ InTexts \cup seen \cup missed \subseteq 1..used
  /\ arriving \subseteq 0..EVENTS
  /\ \A k \in Chats : ghosts[k] \subseteq 0..EVENTS

LEMMA GhostsMove ==
  ASSUME BInv, Next, NEW k \in Chats
  PROVE  /\ ghosts[k] \subseteq ghosts'[k]
         /\ ghosts'[k] \subseteq ghosts[k] \cup {local[t].id : t \in Threads}
<1>1. ASSUME NEW t \in Threads, Add(t) \/ Store(t)
      PROVE  /\ ghosts[k] \subseteq ghosts'[k]
             /\ ghosts'[k] \subseteq ghosts[k] \cup {local[u].id : u \in Threads}
  <2>1. ghosts'[k] = ghosts[k] \/ ghosts'[k] = ghosts[k] \cup {local[t].id}
    BY <1>1 DEF Add, Store, BInv, Types
  <2> QED
    BY <2>1
<1>2. CASE UNCHANGED ghosts
  BY <1>2
<1>3. ASSUME NEW t \in Threads, Deliver(t), ~Add(t), ~Store(t)
      PROVE  UNCHANGED ghosts
  BY <1>3 DEF Deliver, Bump, Notify, Call, Clear, Tell, Copy, Post, history
<1>4. ASSUME UiStep \/ RunUpdate \/ User
      PROVE  UNCHANGED ghosts
  BY <1>4 DEF UiStep, Count, Freeze, RefreshHome, Subscribe, Drop, Forget, RunUpdate, User, Open,
              Leave, Send, RemoveChat, AddChat, history
<1>5. ASSUME NEW c \in Chats, Hear(c) \/ HearMark(c)
      PROVE  UNCHANGED ghosts
  BY <1>5 DEF Hear, HearMark, history
<1> QED
  BY <1>1, <1>2, <1>3, <1>4, <1>5 DEF Next

LEMMA ArrivingMoves ==
  ASSUME BInv, Next
  PROVE  \/ arriving' = arriving
         \/ pc["ui"] = "freeze" /\ \E t \in Threads : Add(t) /\ arriving' = arriving \cup {local[t].id}
         \/ Count /\ arriving' = InHands
         \/ Leave /\ arriving' = {}
<1>1. ASSUME NEW t \in Threads, Deliver(t)
      PROVE  \/ arriving' = arriving
             \/ pc["ui"] = "freeze" /\ Add(t) /\ arriving' = arriving \cup {local[t].id}
  BY <1>1 DEF Deliver, Add, Bump, Store, Notify, Call, Clear, Tell, Copy, Post, history
<1>2. ASSUME UiStep
      PROVE  arriving' = arriving \/ (Count /\ arriving' = InHands)
  BY <1>2 DEF UiStep, Count, Freeze, RefreshHome, Subscribe, Drop, Forget, history
<1>3. ASSUME RunUpdate \/ User
      PROVE  arriving' = arriving \/ (Leave /\ arriving' = {})
  BY <1>3 DEF RunUpdate, User, Open, Leave, Send, RemoveChat, AddChat, history
<1>4. ASSUME NEW c \in Chats, Hear(c) \/ HearMark(c)
      PROVE  arriving' = arriving
  BY <1>4 DEF Hear, HearMark, history
<1> QED
  BY <1>1, <1>2, <1>3, <1>4 DEF Next

LEMMA PastKept ==
  ASSUME BInv, Past, Next
  PROVE  Past'
<1>1. used \in Nat /\ used <= EVENTS /\ EVENTS \in Nat /\ used' \in {used, used + 1}
  <2>1. PICK t \in Threads : Begins(t) \/ Handles(t)
    BY ThreadSteps
  <2> QED
    BY <2>1, ThreadFacts DEF Begins, Handles
<1>2. InTexts' \cup seen' \cup missed' \subseteq 1..used
  BY TextsGrow DEF Past, BInv, MessagesOld
<1>3. \A t \in Threads : local[t].id \in 0..EVENTS
  BY <1>1, ThreadFacts DEF Sound
<1>4. \A k \in Chats : ghosts'[k] \subseteq 0..EVENTS
  BY <1>3, GhostsMove DEF Past
<1>5. arriving' \subseteq 0..EVENTS
  <2>1. ASSUME Count
        PROVE  InHands \subseteq 0..EVENTS
    <3>1. Shown \in Chats /\ pc["ui"] = "count"
      BY <2>1, ShownFacts DEF Count, BInv, ScreenSound, InChat
    <3>2. ToSet(messages[Shown]) \subseteq 1..used
      BY <3>1 DEF BInv, MessagesOld
    <3> QED
      BY <1>1, <3>2 DEF InHands
  <2>2. ASSUME NEW t \in Threads, arriving' = arriving \cup {local[t].id}
        PROVE  arriving' \subseteq 0..EVENTS
    BY <1>3, <2>2 DEF Past
  <2> QED
    BY <2>1, <2>2, ArrivingMoves DEF Past
<1> QED
  BY <1>1, <1>2, <1>4, <1>5 DEF Past

\* A message is in one history, once, and in the texts made of that history.
Apart ==
  /\ \A k \in Chats : OnceIn(messages[k])
  /\ \A k, c \in Chats : ToSet(messages[k]) \cap ToSet(messages[c]) # {} => k = c
  /\ \A t \in Threads, c \in Chats :
       ToSet(local[t].text) \cap ToSet(messages[c]) # {} => c = local[t].key
  /\ \A t \in Threads : pc[t] = "add" => local[t].id \notin InTexts \cup seen \cup missed

LEMMA ApartKept ==
  ASSUME BInv, Fresh, Past, Apart, Next
  PROVE  Apart'
<1>0. messages \in [Chats -> Lists]
  BY DEF BInv, Types
<1>1. ASSUME NEW k \in Chats
      PROVE  OnceIn(messages'[k])
  <2>1. CASE messages'[k] = messages[k]
    BY <2>1 DEF Apart
  <2>2. CASE messages'[k] = <<>>
    BY <2>2 DEF OnceIn
  <2>3. ASSUME NEW t \in Threads, Add(t), local[t].id \in Messages,
               messages'[k] = Capped(Append(messages[k], local[t].id))
        PROVE  OnceIn(messages'[k])
    <3>1. local[t].id \notin ToSet(messages[k])
      BY <2>3 DEF Add, Fresh
    <3> QED
      BY <1>0, <2>3, <3>1, OnceCapped DEF Apart
  <2> QED
    BY <2>1, <2>2, <2>3, MessagesMove
<1>2. ASSUME NEW k \in Chats, NEW m \in ToSet(messages'[k])
      PROVE  \/ m \in ToSet(messages[k])
             \/ \E t \in Threads : Add(t) /\ local[t].key = k /\ local[t].id = m
  <2>1. ASSUME NEW t \in Threads, Add(t), k = local[t].key, local[t].id \in Messages,
               messages'[k] = Capped(Append(messages[k], local[t].id))
        PROVE  m \in ToSet(messages[k]) \/ (Add(t) /\ local[t].key = k /\ local[t].id = m)
    BY <1>0, <1>2, <2>1, CappedFacts
  <2> QED
    BY <1>2, <2>1, MessagesMove, EmptyList
<1>3. ASSUME NEW t \in Threads, Add(t), NEW u \in Threads, Add(u)
      PROVE  t = u
  <2>1. t # u => pc'[u] = pc[u]
    BY <1>3, DeliverHandles DEF Deliver, Handles, Others
  <2>2. pc'[u] # pc[u]
    BY <1>3 DEF Add, Goto, BInv, ThreadTypes
  <2> QED
    BY <2>1, <2>2
<1>4. ASSUME NEW k \in Chats, NEW c \in Chats, NEW m \in ToSet(messages'[k]) \cap ToSet(messages'[c])
      PROVE  k = c
  <2>1. CASE m \in ToSet(messages[k]) /\ m \in ToSet(messages[c])
    BY <2>1 DEF Apart
  <2>2. ASSUME NEW t \in Threads, Add(t), local[t].id = m
        PROVE  m \notin ToSet(messages[k]) /\ m \notin ToSet(messages[c])
    BY <2>2 DEF Add, Fresh
  <2> QED
    BY <1>2, <1>3, <1>4, <2>1, <2>2
<1>5. ASSUME NEW t \in Threads, NEW c \in Chats, NEW m \in ToSet(local'[t].text) \cap ToSet(messages'[c])
      PROVE  c = local'[t].key
  <2>1. CASE m \in ToSet(messages[c])
    BY <1>5, <2>1, TextsMove, EmptyList DEF Apart
  <2>2. ASSUME NEW u \in Threads, Add(u), local[u].id = m
        PROVE  FALSE
    <3>1. pc[u] = "add"
      BY <2>2 DEF Add
    <3>2. m \notin InTexts /\ \A k \in Chats : m \notin ToSet(messages[k])
      BY <2>2, <3>1 DEF Apart, Fresh
    <3>3. m \notin ToSet(local[t].text)
      BY <3>2 DEF InTexts, Texts
    <3> QED
      BY <1>5, <3>2, <3>3, TextsMove, EmptyList
  <2> QED
    BY <1>2, <1>5, <2>1, <2>2
<1>6. ASSUME NEW t \in Threads, pc'[t] = "add"
      PROVE  local'[t].id \notin InTexts' \cup seen' \cup missed'
  <2>1. PICK u \in Threads : Begins(u) \/ Handles(u)
    BY ThreadSteps
  <2>2. CASE u = t
    <3>1. local'[t].id = used + 1
      BY <1>6, <2>1, <2>2 DEF Begins, Handles
    <3>2. InTexts' \cup seen' \cup missed' \subseteq 1..used
      BY TextsGrow DEF Past, BInv, MessagesOld
    <3> QED
      BY <3>1, <3>2, ThreadFacts
  <2>3. CASE u # t
    <3>1. pc[t] = "add" /\ local'[t].id = local[t].id
      BY <1>6, <2>1, <2>3 DEF Begins, Handles, Others
    <3>2. local[t].id \notin InTexts \cup seen \cup missed
      BY <3>1 DEF Apart
    <3>3. \A k \in Chats : local[t].id \notin ToSet(messages[k])
      BY <3>1 DEF Fresh
    <3> QED
      BY <3>1, <3>2, <3>3, TextsGrow
  <2> QED
    BY <2>2, <2>3
<1> QED
  BY <1>1, <1>4, <1>5, <1>6 DEF Apart

\* What was on a screen, or missed it, was so with all that came before, and a
\* text has with each message what came before.
Ordered ==
  \A k \in Chats : /\ ClosedIn(messages[k], seen \cup missed)
                   /\ \A text \in Texts : ClosedIn(messages[k], ToSet(text))

LEMMA OrderedKept ==
  ASSUME BInv, Apart, Ordered, Next
  PROVE  Ordered'
<1>0. messages \in [Chats -> Lists]
  BY DEF BInv, Types
<1>1. ASSUME NEW k \in Chats, NEW S, S \subseteq InTexts \cup seen \cup missed,
             ClosedIn(messages[k], S)
      PROVE  ClosedIn(messages'[k], S)
  <2>1. ASSUME NEW t \in Threads, Add(t), local[t].id \in Messages,
               messages'[k] = Capped(Append(messages[k], local[t].id))
        PROVE  ClosedIn(messages'[k], S)
    <3>1. local[t].id \notin S
      BY <1>1, <2>1 DEF Add, Apart
    <3> QED
      BY <1>0, <1>1, <2>1, <3>1, ClosedCapped
  <2> QED
    BY <1>1, <2>1, MessagesMove, ClosedFacts
<1>2. ASSUME NEW text \in Texts
      PROVE  ToSet(text) \subseteq InTexts
  BY DEF InTexts
<1>3. ASSUME NEW k \in Chats, NEW text \in Texts'
      PROVE  ClosedIn(messages'[k], ToSet(text))
  <2>1. CASE text = <<>>
    <3>1. ToSet(text) = {}
      BY <2>1, EmptyList
    <3> QED
      BY <3>1 DEF ClosedIn
  <2>2. CASE text \in Texts
    BY <1>1, <1>2, <2>2 DEF Ordered
  <2>3. ASSUME NEW u \in Threads, Copy(u), local[u].key \in Chats, text = messages[local[u].key]
        PROVE  ClosedIn(messages'[k], ToSet(text))
    <3>1. messages' = messages
      BY <2>3 DEF Copy, manager
    <3>2. CASE k = local[u].key
      BY <1>0, <2>3, <3>1, <3>2, ClosedFacts
    <3>3. CASE k # local[u].key
      <4>1. ToSet(messages[k]) \cap ToSet(text) = {}
        BY <2>3, <3>3 DEF Apart
      <4> QED
        BY <1>0, <3>1, <4>1, ClosedFacts
    <3> QED
      BY <3>2, <3>3
  <2> QED
    BY <1>3, <2>1, <2>2, <2>3, TextsGrow
<1>4. ASSUME NEW k \in Chats
      PROVE  ClosedIn(messages'[k], seen' \cup missed')
  <2>1. ClosedIn(messages'[k], seen \cup missed)
    BY <1>1 DEF Ordered
  <2>2. ASSUME NEW text \in Texts, seen' \cup missed' = seen \cup missed \cup ToSet(text)
        PROVE  ClosedIn(messages'[k], seen' \cup missed')
    <3>1. ClosedIn(messages'[k], ToSet(text))
      BY <1>1, <1>2 DEF Ordered
    <3> QED
      BY <2>1, <2>2, <3>1, ClosedFacts
  <2> QED
    BY <2>1, <2>2, TextsMove
<1> QED
  BY <1>3, <1>4 DEF Ordered

-----------------------------------------------------------------------------
(* The counters count.                                                     *)

\* The message the worker is about to count.
InWork == IF pc["worker"] \in {"bump", "store"} THEN {local["worker"].id} ELSE {}

\* The messages of chat k that only the counter tells of.
Waiting(k) ==
  ToSet(messages[k]) \ (own \cup seen \cup missed \cup ghosts[k] \cup InTexts \cup InWork)

Rendered(k) == \E t \in Threads : pc[t] \in {"tell", "copy"} /\ local[t].key = k

Counted ==
  /\ \A k \in Chats : Rendered(k) \/ Cardinality(Waiting(k)) <= unread[k]
  /\ pc["worker"] = "store" => unread[local["worker"].key] <= local["worker"].count

LEMMA FiniteLists ==
  ASSUME NEW list \in Lists
  PROVE  IsFiniteSet(ToSet(list)) /\ ToSet(list) \subseteq Messages
<1>1. IsFiniteSet(Messages)
  BY FS_Interval, ScreensAssumption DEF Messages
<1>2. ToSet(list) \subseteq Messages
  BY ListFacts DEF Lists
<1> QED
  BY <1>1, <1>2, FS_Subset

LEMMA WaitingFacts ==
  ASSUME BInv, NEW k \in Chats
  PROVE  IsFiniteSet(Waiting(k)) /\ Cardinality(Waiting(k)) \in Nat /\ unread[k] \in Nat
<1>1. IsFiniteSet(ToSet(messages[k])) /\ unread[k] \in Nat
  BY FiniteLists DEF BInv, Types
<1>2. Waiting(k) \subseteq ToSet(messages[k])
  BY DEF Waiting
<1>3. IsFiniteSet(Waiting(k))
  BY <1>1, <1>2, FS_Subset
<1> QED
  BY <1>1, <1>3, FS_CardinalityType

\* A render that was to copy a chat has done so or is to do so still.
LEMMA RenderedMoves ==
  ASSUME BInv, Next, NEW k \in Chats, Rendered(k)
  PROVE  Rendered(k)' \/ Waiting(k)' = {}
<1>1. PICK t \in Threads : pc[t] \in {"tell", "copy"} /\ local[t].key = k
  BY DEF Rendered
<1>2. CASE pc'[t] = pc[t] /\ local'[t] = local[t]
  BY <1>1, <1>2 DEF Rendered
<1>3. CASE t = "ui" /\ UiStep
  BY <1>1, <1>3, UiMoves
<1>4. CASE Deliver(t)
  <2>1. Tell(t) \/ Copy(t)
    BY <1>1, <1>4 DEF Deliver, Add, Bump, Store, Notify, Call, Clear, Post
  <2>2. local'[t].key = k
    BY <1>1, <2>1, OthersMove
  <2>3. CASE Tell(t)
    <3>1. pc'[t] = "copy"
      BY <2>3 DEF Tell, Goto, BInv, ThreadTypes
    <3> QED
      BY <2>2, <3>1 DEF Rendered
  <2>4. CASE Copy(t)
    <3>1. messages' = messages /\ local'[t].text = messages[k]
      BY <1>1, <2>4 DEF Copy, manager, BInv, ThreadTypes, Locals
    <3>2. ToSet(messages'[k]) \subseteq InTexts'
      BY <3>1 DEF InTexts, Texts
    <3> QED
      BY <3>2 DEF Waiting
  <2> QED
    BY <2>1, <2>3, <2>4
<1> QED
  BY <1>1, <1>2, <1>3, <1>4, Movers

LEMMA WorkMoves ==
  ASSUME BInv, Next
  PROVE  /\ own \subseteq own'
         /\ InWork \subseteq InWork' \/ Store("worker")
         /\ \A t \in Threads : Add(t) /\ t = "worker" => InWork' = {local[t].id}
         /\ pc'["worker"] = "store" => \/ pc["worker"] = "store" /\ local'["worker"] = local["worker"]
                                       \/ Bump("worker")
<1>0. "worker" \in Threads
  BY DEF Threads
<1>1. own \subseteq own'
  <2>1. PICK t \in Threads : Begins(t) \/ Handles(t)
    BY ThreadSteps
  <2> QED
    BY <2>1 DEF Begins, Handles
<1>2. ASSUME Add("worker")
      PROVE  InWork' = {local["worker"].id}
  BY <1>0, <1>2 DEF Add, Goto, InWork, BInv, ThreadTypes
<1>3. ASSUME Bump("worker")
      PROVE  InWork \subseteq InWork'
  BY <1>0, <1>3 DEF Bump, Goto, InWork, BInv, ThreadTypes, Locals
<1>4. ASSUME Deliver("worker"), ~Bump("worker"), ~Store("worker")
      PROVE  InWork = {} /\ pc'["worker"] # "store"
  <2>1. pc["worker"] \notin {"bump", "store"}
    BY <1>4 DEF Deliver, Add, Notify, Call, Clear, Tell, Copy, Post
  <2>2. pc'["worker"] # "store"
    BY <1>0, <1>4, NotifyMoves, CallMoves, PostLeaves
    DEF Deliver, Add, Clear, Tell, Copy, Goto, BInv, ThreadTypes
  <2> QED
    BY <2>1, <2>2 DEF InWork
<1>5. ASSUME Store("worker")
      PROVE  pc'["worker"] # "store"
  BY <1>0, <1>5 DEF Store, Goto, BInv, ThreadTypes
<1>6. ASSUME pc["worker"] = "idle"
      PROVE  InWork = {} /\ pc'["worker"] # "store"
  <2>1. PICK t \in Threads : Begins(t) \/ Handles(t)
    BY ThreadSteps
  <2>2. pc'["worker"] # "store"
    BY <1>0, <1>6, <2>1 DEF Begins, Handles, Others
  <2> QED
    BY <1>6, <2>2 DEF InWork
<1>7. ASSUME pc'["worker"] = pc["worker"], local'["worker"] = local["worker"]
      PROVE  InWork' = InWork
  BY <1>7 DEF InWork
<1>8. \/ pc'["worker"] = pc["worker"] /\ local'["worker"] = local["worker"]
      \/ pc["worker"] = "idle" \/ Deliver("worker")
  BY <1>0, Movers
<1> QED
  BY <1>1, <1>2, <1>3, <1>4, <1>5, <1>6, <1>7, <1>8

LEMMA CountersMove ==
  ASSUME BInv, Next
  PROVE  \/ UNCHANGED unread
         \/ \E t \in Threads : Store(t) \/ Clear(t)
         \/ Forget
<1>1. ASSUME NEW t \in Threads, Deliver(t), ~Store(t), ~Clear(t)
      PROVE  UNCHANGED unread
  BY <1>1 DEF Deliver, Add, Bump, Notify, Call, Tell, Copy, Post, manager
<1>2. ASSUME UiStep, ~Forget
      PROVE  UNCHANGED unread
  BY <1>2 DEF UiStep, Count, Freeze, RefreshHome, Subscribe, Drop, manager
<1>3. ASSUME RunUpdate \/ User
      PROVE  UNCHANGED unread
  BY <1>3 DEF RunUpdate, User, Open, Leave, Send, RemoveChat, AddChat, manager
<1>4. ASSUME NEW c \in Chats, Hear(c) \/ HearMark(c)
      PROVE  UNCHANGED unread
  BY <1>4 DEF Hear, HearMark, manager
<1> QED
  BY <1>1, <1>2, <1>3, <1>4 DEF Next

LEMMA CountedKept ==
  ASSUME BInv, Fresh, Placed, Gone, Counted, Next
  PROVE  Counted'
<1>0. /\ "worker" \in Threads /\ "ui" \in Threads /\ joined \subseteq Chats
      /\ messages \in [Chats -> Lists] /\ unread \in [Chats -> Nat]
  BY DEF Threads, BInv, Types
\* What becomes of the messages that wait.
<1>1. ASSUME NEW k \in Chats, ~Store("worker")
      PROVE  Waiting(k)' \subseteq Waiting(k)
  <2>1. ASSUME NEW m \in ToSet(messages'[k]), m \notin ToSet(messages[k])
        PROVE  m \in own' \cup InWork'
    <3>1. PICK t \in Threads : Add(t) /\ m = local[t].id
      <4>1. ASSUME NEW t \in Threads, Add(t), local[t].id \in Messages,
                   messages'[k] = Capped(Append(messages[k], local[t].id))
            PROVE  m = local[t].id
        BY <1>0, <2>1, <4>1, CappedFacts
      <4> QED
        BY <2>1, <4>1, MessagesMove, EmptyList
    <3>2. CASE t = "worker"
      BY <3>1, <3>2, WorkMoves
    <3>3. CASE t # "worker"
      BY <3>1, <3>3, WorkMoves DEF Add, Fresh
    <3> QED
      BY <3>2, <3>3
  <2>2. /\ own \subseteq own' /\ InWork \subseteq InWork' /\ ghosts[k] \subseteq ghosts'[k]
        /\ InTexts \cup seen \cup missed \subseteq InTexts' \cup seen' \cup missed'
    BY <1>1, WorkMoves, GhostsMove, TextsMove
  <2> QED
    BY <2>1, <2>2 DEF Waiting
<1>2. ASSUME NEW k \in Chats, Waiting(k)' \subseteq Waiting(k), unread'[k] >= unread[k], unread'[k] \in Nat
      PROVE  (Rendered(k) \/ Cardinality(Waiting(k)) <= unread[k])'
  <2>1. CASE Rendered(k)
    <3>1. Cardinality({}) = 0
      BY FS_EmptySet
    <3> QED
      BY <1>2, <2>1, <3>1, RenderedMoves
  <2>2. CASE ~Rendered(k)
    <3>1. /\ IsFiniteSet(Waiting(k)) /\ Cardinality(Waiting(k)) \in Nat /\ unread[k] \in Nat
          /\ Cardinality(Waiting(k)) <= unread[k]
      BY <2>2, WaitingFacts DEF Counted
    <3>2. IsFiniteSet(Waiting(k)') /\ Cardinality(Waiting(k)') <= Cardinality(Waiting(k))
      BY <1>2, <3>1, FS_Subset
    <3>3. Cardinality(Waiting(k)') \in Nat
      BY <3>2, FS_CardinalityType
    <3> QED
      BY <1>2, <3>1, <3>2, <3>3
  <2> QED
    BY <2>1, <2>2
<1>3. ASSUME NEW k \in Chats, ~Store("worker")
      PROVE  (Rendered(k) \/ Cardinality(Waiting(k)) <= unread[k])'
  <2>1. CASE unread'[k] = unread[k]
    BY <1>0, <1>1, <1>2, <1>3, <2>1
  <2>2. ASSUME NEW t \in Threads, Clear(t), unread'[k] # unread[k]
        PROVE  Rendered(k)'
    <3>1. k = local[t].key
      BY <1>0, <2>2 DEF Clear
    <3>2. pc'[t] \in {"tell", "copy"} /\ local'[t].key = k
      BY <2>2, <3>1 DEF Clear, Goto, BInv, ThreadTypes
    <3> QED
      BY <3>2 DEF Rendered
  <2>3. ASSUME Forget, unread'[k] # unread[k]
        PROVE  Waiting(k)' = {} /\ unread'[k] = 0
    <3>1. k = local["ui"].key /\ unread'[k] = 0 /\ pc["ui"] = "forget" /\ messages' = messages
      BY <1>0, <2>3 DEF Forget
    <3>2. k \notin joined /\ ToSet(messages[k]) \subseteq ghosts[k]
      BY <3>1 DEF Gone, Removing
    <3> QED
      BY <3>1, <3>2, GhostsMove DEF Waiting
  <2>4. ASSUME NEW t \in Threads, Store(t)
        PROVE  FALSE
    BY <1>3, <2>4, ThreadFacts DEF Store, Sound
  <2>5. Cardinality({}) = 0
    BY FS_EmptySet
  <2> QED
    BY <2>1, <2>2, <2>3, <2>4, <2>5, CountersMove
<1>4. ASSUME NEW k \in Chats, Store("worker")
      PROVE  (Rendered(k) \/ Cardinality(Waiting(k)) <= unread[k])'
  <2>1. PICK c \in Chats, m \in Nat :
          /\ c = local["worker"].key /\ m = local["worker"].id /\ pc["worker"] = "store"
    BY <1>0, <1>4, ThreadFacts DEF Store, Sound
  <2>2. /\ messages' = messages /\ unread' = [unread EXCEPT ![c] = local["worker"].count + 1]
        /\ ghosts' = [ghosts EXCEPT ![c] = IF c \in joined THEN @ ELSE @ \cup {m}]
    BY <1>4, <2>1 DEF Store
  <2>3. InWork = {m}
    BY <2>1 DEF InWork
  <2>4. /\ own \subseteq own' /\ ghosts[k] \subseteq ghosts'[k]
        /\ InTexts \cup seen \cup missed \subseteq InTexts' \cup seen' \cup missed'
    BY WorkMoves, GhostsMove, TextsMove
  <2>5. Waiting(k)' \subseteq Waiting(k) \cup {m}
    BY <2>2, <2>3, <2>4 DEF Waiting
  <2>6. CASE k # c
    <3>1. m \notin ToSet(messages[k])
      BY <2>1, <2>6 DEF Placed
    <3>2. Waiting(k)' \subseteq Waiting(k)
      BY <2>2, <2>5, <3>1 DEF Waiting
    <3>3. unread'[k] = unread[k]
      BY <1>0, <2>2, <2>6
    <3> QED
      BY <1>0, <1>2, <3>2, <3>3
  <2>7. CASE k = c
    <3>1. /\ unread[k] <= local["worker"].count /\ local["worker"].count \in Nat
          /\ unread'[k] = local["worker"].count + 1 /\ unread[k] \in Nat
      BY <1>0, <2>1, <2>2, <2>7, ThreadFacts DEF Counted
    <3>2. CASE Rendered(k)
      <4>1. Cardinality({}) = 0
        BY FS_EmptySet
      <4>2. unread'[k] >= 0
        BY <3>1
      <4> QED
        BY <3>2, <4>1, <4>2, RenderedMoves
    <3>3. CASE ~Rendered(k)
      <4>1. /\ IsFiniteSet(Waiting(k)) /\ Cardinality(Waiting(k)) \in Nat
            /\ Cardinality(Waiting(k)) <= unread[k]
        BY <3>3, WaitingFacts DEF Counted
      <4>2. /\ IsFiniteSet(Waiting(k) \cup {m})
            /\ \/ Cardinality(Waiting(k) \cup {m}) = Cardinality(Waiting(k))
               \/ Cardinality(Waiting(k) \cup {m}) = Cardinality(Waiting(k)) + 1
        BY <4>1, FS_AddElement
      <4>3. IsFiniteSet(Waiting(k)') /\ Cardinality(Waiting(k)') <= Cardinality(Waiting(k) \cup {m})
        BY <2>5, <4>2, FS_Subset
      <4>4. Cardinality(Waiting(k)') \in Nat
        BY <4>3, FS_CardinalityType
      <4> QED
        BY <3>1, <4>1, <4>2, <4>3, <4>4
    <3> QED
      BY <3>2, <3>3
  <2> QED
    BY <2>6, <2>7
<1>5. ASSUME pc'["worker"] = "store"
      PROVE  unread'[local'["worker"].key] <= local'["worker"].count
  <2>1. CASE Bump("worker")
    <3>1. /\ local["worker"].key \in Chats /\ unread' = unread
          /\ local'["worker"].key = local["worker"].key
          /\ local'["worker"].count = unread[local["worker"].key]
      BY <1>0, <2>1, ThreadFacts DEF Bump, Sound, manager, BInv, ThreadTypes, Locals
    <3> QED
      BY <1>0, <3>1
  <2>2. CASE pc["worker"] = "store" /\ local'["worker"] = local["worker"]
    <3>1. PICK c \in Chats, n \in Nat :
            c = local["worker"].key /\ n = local["worker"].count /\ unread[c] <= n
      BY <1>0, <2>2, ThreadFacts DEF Sound, Counted
    <3>2. ASSUME NEW t \in Threads, Store(t)
          PROVE  FALSE
      <4>1. t = "worker"
        BY <3>2, ThreadFacts DEF Store, Sound
      <4> QED
        BY <1>0, <1>5, <3>2, <4>1 DEF Store, Goto, BInv, ThreadTypes
    <3>3. unread'[c] \in {unread[c], 0}
      <4>1. ASSUME NEW t \in Threads, Clear(t) PROVE unread'[c] \in {unread[c], 0}
        BY <1>0, <4>1 DEF Clear
      <4>2. ASSUME Forget PROVE unread'[c] \in {unread[c], 0}
        BY <1>0, <4>2 DEF Forget
      <4> QED
        BY <3>2, <4>1, <4>2, CountersMove
    <3> QED
      BY <1>0, <2>2, <3>1, <3>3
  <2> QED
    BY <1>5, <2>1, <2>2, WorkMoves
<1> QED
  BY <1>3, <1>4, <1>5 DEF Counted

-----------------------------------------------------------------------------
(* Who changes what of the screen, and where the divider is.               *)

LEMMA ScreenMoves ==
  ASSUME BInv, Next
  PROVE  \/ UNCHANGED <<visits, foreground>>
         \/ Leave \/ \E s \in Chats \cup {Home} : Open(s)
<1>1. ASSUME NEW t \in Threads, Deliver(t)
      PROVE  UNCHANGED <<visits, foreground>>
  BY <1>1 DEF Deliver, Add, Bump, Store, Notify, Call, Clear, Tell, Copy, Post, screen
<1>2. ASSUME UiStep \/ RunUpdate
      PROVE  UNCHANGED <<visits, foreground>>
  BY <1>2 DEF UiStep, Count, Freeze, RefreshHome, Subscribe, Drop, Forget, RunUpdate, screen
<1>3. ASSUME NEW k \in Chats, Hear(k) \/ HearMark(k) \/ RemoveChat(k) \/ AddChat(k)
      PROVE  UNCHANGED <<visits, foreground>>
  BY <1>3 DEF Hear, HearMark, RemoveChat, AddChat, screen
<1>4. ASSUME Send
      PROVE  UNCHANGED <<visits, foreground>>
  BY <1>4 DEF Send, screen
<1> QED
  BY <1>1, <1>2, <1>3, <1>4 DEF Next, User

LEMMA LabelMoves ==
  ASSUME BInv, Next
  PROVE  \/ label' = label
         \/ Leave /\ label' = <<>>
         \/ /\ RunUpdate /\ InChat /\ Head(uiQueue).visit = Visit
            /\ label' = Head(uiQueue).text
<1>1. ASSUME NEW t \in Threads, Deliver(t)
      PROVE  label' = label
  BY <1>1 DEF Deliver, Add, Bump, Store, Notify, Call, Clear, Tell, Copy, Post, screen
<1>2. ASSUME UiStep
      PROVE  label' = label
  BY <1>2 DEF UiStep, Count, Freeze, RefreshHome, Subscribe, Drop, Forget, screen
<1>3. ASSUME NEW k \in Chats, Hear(k) \/ HearMark(k)
      PROVE  label' = label
  BY <1>3 DEF Hear, HearMark, screen
<1>4. ASSUME User
      PROVE  label' = label \/ (Leave /\ label' = <<>>)
  BY <1>4 DEF User, Open, Leave, Send, RemoveChat, AddChat, screen
<1>5. ASSUME RunUpdate
      PROVE  \/ label' = label
             \/ InChat /\ Head(uiQueue).visit = Visit /\ label' = Head(uiQueue).text
  BY <1>5 DEF RunUpdate, InChat
<1> QED
  BY <1>1, <1>2, <1>3, <1>4, <1>5 DEF Next

LEMMA SubscribersMove ==
  ASSUME BInv, Next
  PROVE  /\ \/ subscribers' = subscribers \/ Subscribe \/ Leave
         /\ \/ before' = before \/ Leave \/ \E s \in Chats \cup {Home} : Open(s)
         /\ \/ UNCHANGED <<seen, missed>> \/ RunUpdate
         /\ \/ readCount' = readCount \/ Freeze \/ Leave
<1>1. ASSUME NEW t \in Threads, Deliver(t)
      PROVE  UNCHANGED <<subscribers, before, seen, missed, readCount>>
  BY <1>1 DEF Deliver, Add, Bump, Store, Notify, Call, Clear, Tell, Copy, Post, screen, history
<1>2. ASSUME UiStep
      PROVE  /\ UNCHANGED <<before, seen, missed>>
             /\ subscribers' = subscribers \/ Subscribe
             /\ readCount' = readCount \/ Freeze
  BY <1>2 DEF UiStep, Count, Freeze, RefreshHome, Subscribe, Drop, Forget, screen, history
<1>3. ASSUME NEW k \in Chats, Hear(k) \/ HearMark(k)
      PROVE  UNCHANGED <<subscribers, before, seen, missed, readCount>>
  BY <1>3 DEF Hear, HearMark, screen, history
<1>4. ASSUME User
      PROVE  /\ UNCHANGED <<seen, missed>>
             /\ subscribers' = subscribers \/ Leave
             /\ readCount' = readCount \/ Leave
             /\ before' = before \/ Leave \/ \E s \in Chats \cup {Home} : Open(s)
  BY <1>4 DEF User, Open, Leave, Send, RemoveChat, AddChat, screen, history
<1>5. ASSUME RunUpdate
      PROVE  UNCHANGED <<subscribers, before, readCount>>
  BY <1>5 DEF RunUpdate
<1> QED
  BY <1>1, <1>2, <1>3, <1>4, <1>5 DEF Next

\* What comes into the queue: what a thread that renders posts, or a refresh.
LEMMA QueueMoves ==
  ASSUME BInv, Next
  PROVE  \/ RunUpdate
         \/ /\ \A i \in DOMAIN uiQueue : i \in DOMAIN uiQueue' /\ uiQueue'[i] = uiQueue[i]
            /\ \A i \in DOMAIN uiQueue' :
                 \/ i \in DOMAIN uiQueue /\ uiQueue'[i] = uiQueue[i]
                 \/ /\ uiQueue'[i].text = <<>>
                    /\ \/ uiQueue'[i].visit = Visit /\ Visit \in subscribers
                       \/ \E t \in Threads : pc[t] = "calls" /\ uiQueue'[i].visit \in local[t].todo
                 \/ \E t \in Threads : /\ Post(t) /\ uiQueue'[i].visit = local[t].visit
                                       /\ uiQueue'[i].text = local[t].text
<1>0. uiQueue \in Seq(Updates)
  BY DEF BInv, Types
<1>1. CASE UNCHANGED uiQueue
  BY <1>1
<1>2. ASSUME NEW t \in Threads, Tell(t)
      PROVE  /\ \A i \in DOMAIN uiQueue : i \in DOMAIN uiQueue' /\ uiQueue'[i] = uiQueue[i]
             /\ \A i \in DOMAIN uiQueue' :
                  \/ i \in DOMAIN uiQueue /\ uiQueue'[i] = uiQueue[i]
                  \/ /\ uiQueue'[i].text = <<>>
                     /\ uiQueue'[i].visit = Visit /\ Visit \in subscribers
  BY <1>2, TellMarshals DEF Refresh
<1>3. ASSUME NEW t \in Threads, Call(t), uiQueue' # uiQueue
      PROVE  /\ \A i \in DOMAIN uiQueue : i \in DOMAIN uiQueue' /\ uiQueue'[i] = uiQueue[i]
             /\ \A i \in DOMAIN uiQueue' :
                  \/ i \in DOMAIN uiQueue /\ uiQueue'[i] = uiQueue[i]
                  \/ /\ uiQueue'[i].text = <<>> /\ pc[t] = "calls"
                     /\ uiQueue'[i].visit \in local[t].todo
  <2>1. PICK v \in 1..Visit : /\ local[t].todo = {v} /\ pc[t] = "calls"
                              /\ uiQueue' = Append(uiQueue, Refresh(v, TabOf(local[t].key)))
    BY <1>3, CallMoves
  <2>2. TabOf(local[t].key) \in SUBSET Chats
    BY ScreensAssumption DEF TabOf
  <2>3. PICK e : e = Refresh(v, TabOf(local[t].key))
    OBVIOUS
  <2>4. e \in Updates /\ e.text = <<>> /\ e.visit = v
    BY <2>2, <2>3, EmptyList, UpdateFacts
  <2> QED
    BY <1>0, <2>1, <2>3, <2>4, AppendFacts
<1>4. ASSUME NEW t \in Threads, Post(t)
      PROVE  /\ \A i \in DOMAIN uiQueue : i \in DOMAIN uiQueue' /\ uiQueue'[i] = uiQueue[i]
             /\ \A i \in DOMAIN uiQueue' :
                  \/ i \in DOMAIN uiQueue /\ uiQueue'[i] = uiQueue[i]
                  \/ uiQueue'[i].visit = local[t].visit /\ uiQueue'[i].text = local[t].text
  <2>1. PICK e : e = Show(local[t].visit, local[t].text)
    OBVIOUS
  <2>2. /\ uiQueue' = Append(uiQueue, e)
        /\ local[t].visit \in 1..Visit /\ local[t].text \in Lists
    BY <1>4, <2>1, PostMoves DEF Post
  <2>3. e.text = local[t].text /\ e.visit = local[t].visit
    BY <2>1 DEF Show
  <2>4. e \in Updates
    <3>1. {} \in SUBSET Chats
      OBVIOUS
    <3> QED
      BY <2>1, <2>2, <3>1, UpdateFacts
  <2> QED
    BY <1>0, <2>2, <2>3, <2>4, AppendFacts
<1>5. ASSUME NEW t \in Threads, Deliver(t), ~Tell(t), ~Call(t), ~Post(t)
      PROVE  UNCHANGED uiQueue
  BY <1>5 DEF Deliver, Add, Bump, Store, Notify, Clear, Copy
<1>6. ASSUME UiStep \/ User
      PROVE  UNCHANGED uiQueue
  BY <1>6 DEF UiStep, Count, Freeze, RefreshHome, Subscribe, Drop, Forget, User, Open, Leave, Send,
              RemoveChat, AddChat
<1>7. ASSUME NEW k \in Chats, Hear(k) \/ HearMark(k)
      PROVE  UNCHANGED uiQueue
  BY <1>7 DEF Hear, HearMark
<1> QED
  BY <1>1, <1>2, <1>3, <1>4, <1>5, <1>6, <1>7 DEF Next

\* Before it has rendered, a screen is known to no other thread, and shows
\* nothing. Only a chat has messages on its label.
NotYet ==
  /\ pc["ui"] \in {"count", "freeze", "refresh", "subscribe"} => Visit \notin subscribers
  /\ foreground /\ Visit \notin subscribers =>
       \A t \in Threads \ {"ui"} : /\ Visit \notin local[t].todo
                                   /\ pc[t] \in Rendering => local[t].visit # Visit
  /\ pc["ui"] \in {"count", "freeze"} => /\ label = <<>> /\ before = seen
                                         /\ \A i \in DOMAIN uiQueue : uiQueue[i].visit # Visit
  /\ label # <<>> => InChat
  /\ pc["ui"] \in {"drop", "forget"} => Shown = Home

\* Where the user interface comes from.
LEMMA UiPlaces ==
  ASSUME BInv, Next,
         pc'["ui"] \in {"count", "freeze", "refresh", "subscribe", "drop", "forget"}
  PROVE  \/ pc'["ui"] = pc["ui"]
         \/ /\ pc'["ui"] \in {"count", "refresh"}
            /\ \E s \in Chats \cup {Home} : Open(s) /\ (pc'["ui"] = "count" => s # Home)
         \/ pc'["ui"] = "freeze" /\ Count
         \/ pc'["ui"] = "subscribe" /\ RefreshHome
         \/ pc'["ui"] = "subscribe" /\ Post("ui") /\ Visit \notin subscribers
         \/ pc'["ui"] = "drop" /\ \E k \in Chats : RemoveChat(k)
         \/ pc'["ui"] = "forget" /\ Drop
<1>0. "ui" \in Threads /\ pc \in [Threads -> Pcs]
  BY DEF Threads, BInv, ThreadTypes
<1>1. ASSUME NEW s \in Chats \cup {Home}, Open(s)
      PROVE  pc'["ui"] = IF s = Home THEN "refresh" ELSE "count"
  BY <1>0, <1>1 DEF Open, Goto
<1>2. CASE UiStep
  BY <1>0, <1>2 DEF UiStep, Count, Freeze, RefreshHome, Subscribe, Drop, Forget, Goto
<1>3. ASSUME Deliver("ui"), ~Post("ui")
      PROVE  FALSE
  <2>1. CASE Notify("ui") \/ Call("ui")
    BY <1>0, <2>1, NotifyMoves, CallMoves
  <2>2. CASE Add("ui") \/ Bump("ui") \/ Store("ui") \/ Clear("ui") \/ Tell("ui") \/ Copy("ui")
    BY <1>0, <2>2 DEF Add, Bump, Store, Clear, Tell, Copy, Goto
  <2> QED
    BY <1>3, <2>1, <2>2 DEF Deliver
<1>4. CASE Post("ui")
  BY <1>0, <1>4, PostLeaves
<1>5. ASSUME NEW t \in Threads, Deliver(t), t # "ui"
      PROVE  pc'["ui"] = pc["ui"]
  BY <1>0, <1>5, DeliverHandles DEF Handles, Others
<1>6. ASSUME RunUpdate \/ Leave
      PROVE  pc'["ui"] = pc["ui"]
  BY <1>6 DEF RunUpdate, Leave
<1>7. ASSUME NEW k \in Chats, Hear(k) \/ HearMark(k)
      PROVE  pc'["ui"] = pc["ui"]
  BY <1>0, <1>7 DEF Hear, HearMark, Begin, Goto
<1>8. ASSUME Send
      PROVE  pc'["ui"] \in {pc["ui"], "add"}
  BY <1>0, <1>8 DEF Send, Begin, Goto
<1>9. ASSUME NEW k \in Chats, AddChat(k)
      PROVE  pc'["ui"] = "notify"
  BY <1>0, <1>9 DEF AddChat, Begin, Goto
<1>10. ASSUME NEW k \in Chats, RemoveChat(k)
       PROVE  pc'["ui"] = "drop"
  BY <1>0, <1>10 DEF RemoveChat, Begin, Goto
<1> QED
  BY <1>1, <1>2, <1>3, <1>4, <1>5, <1>6, <1>7, <1>8, <1>9, <1>10 DEF Next, User

LEMMA OpenFacts ==
  ASSUME BInv, NEW s \in Chats \cup {Home}, Open(s)
  PROVE  /\ Visit' = Visit + 1 /\ Visit \in Nat /\ subscribers = {} /\ Shown' = s
         /\ UNCHANGED <<messages, unread, subscribers, label, uiQueue, local, own, seen, missed,
                        readCount, used, ghosts>>
         /\ \A t \in Threads \ {"ui"} : pc'[t] = pc[t]
         /\ \A t \in Threads : local[t].todo \subseteq 1..Visit
         /\ \A t \in Threads : pc[t] \in Rendering => local[t].visit \in 1..Visit
         /\ \A i \in DOMAIN uiQueue : uiQueue[i].visit \in 1..Visit
         /\ ~foreground /\ foreground'
<1>1. Visit' = Visit + 1 /\ Shown' = s
  BY OpenKeeps
<1>2. /\ subscribers = {} /\ ~foreground /\ foreground'
      /\ UNCHANGED <<messages, unread, subscribers, label, uiQueue, local, own, seen, missed,
                     readCount, used, ghosts>>
  BY DEF Open, manager, BInv, ScreenSound
<1>3. \A t \in Threads \ {"ui"} : pc'[t] = pc[t]
  BY DEF Open, Goto, BInv, ThreadTypes
<1>4. ASSUME NEW t \in Threads
      PROVE  /\ local[t].todo \subseteq 1..Visit
             /\ pc[t] \in Rendering => local[t].visit \in 1..Visit
             /\ Visit \in Nat
  BY ThreadFacts DEF Sound
<1>5. \A i \in DOMAIN uiQueue : uiQueue[i].visit \in 1..Visit
  BY DEF BInv, MessagesOld
<1>6. Visit \in Nat
  BY <1>4 DEF Threads
<1> QED
  BY <1>1, <1>2, <1>3, <1>4, <1>5, <1>6

LEMMA NotYetKept ==
  ASSUME BInv, NotYet, Next
  PROVE  NotYet'
<1>0. "ui" \in Threads
  BY DEF Threads
<1>1. ASSUME pc["ui"] # "idle"
      PROVE  /\ UNCHANGED <<visits, foreground, label, before, seen>>
             /\ Visit' = Visit /\ Shown' = Shown /\ InChat' = InChat /\ foreground
             /\ ~RunUpdate /\ ~Leave /\ \A s \in Chats \cup {Home} : ~Open(s)
  <2>1. ~RunUpdate /\ ~Leave /\ \A s \in Chats \cup {Home} : ~Open(s)
    BY <1>1 DEF RunUpdate, Leave, Open
  <2>2. UNCHANGED <<visits, foreground, label, before, seen>>
    BY <2>1, ScreenMoves, LabelMoves, SubscribersMove
  <2> QED
    BY <1>1, <2>1, <2>2 DEF Visit, Shown, InChat, BInv, ScreenSound
<1>2. ASSUME pc'["ui"] \in {"count", "freeze", "refresh", "subscribe"}
      PROVE  Visit' \notin subscribers'
  <2>1. ASSUME NEW s \in Chats \cup {Home}, Open(s) PROVE Visit' \notin subscribers'
    BY <2>1, OpenFacts
  <2>2. CASE pc["ui"] # "idle"
    <3>1. ~Subscribe
      BY <1>0, <1>2 DEF Subscribe, Goto, BInv, ThreadTypes
    <3>2. subscribers' = subscribers
      BY <1>1, <2>2, <3>1, SubscribersMove
    <3>3. Visit \notin subscribers
      <4>1. CASE Post("ui") /\ Visit \notin subscribers
        BY <4>1
      <4>2. CASE pc["ui"] \in {"count", "freeze", "refresh", "subscribe"}
        BY <4>2 DEF NotYet
      <4> QED
        BY <1>1, <1>2, <2>2, <4>1, <4>2, UiPlaces DEF Count, RefreshHome
    <3> QED
      BY <1>1, <2>2, <3>2, <3>3
  <2>3. CASE pc["ui"] = "idle"
    BY <1>2, <2>1, <2>3, UiPlaces DEF Count, RefreshHome, Post, Drop
  <2> QED
    BY <2>2, <2>3
<1>3. ASSUME foreground', Visit' \notin subscribers', NEW t \in Threads \ {"ui"}
      PROVE  Visit' \notin local'[t].todo /\ (pc'[t] \in Rendering => local'[t].visit # Visit')
  <2>1. ASSUME NEW s \in Chats \cup {Home}, Open(s)
        PROVE  Visit' \notin local'[t].todo /\ (pc'[t] \in Rendering => local'[t].visit # Visit')
    BY <2>1, OpenFacts
  <2>2. CASE UNCHANGED <<visits, foreground>>
    <3>1. Visit' = Visit /\ subscribers \subseteq subscribers'
      BY <1>3, <2>2, SubscribersMove DEF Visit, Subscribe, Leave
    <3>2. Visit \notin local[t].todo /\ (pc[t] \in Rendering => local[t].visit # Visit)
      BY <1>3, <2>2, <3>1 DEF NotYet
    <3>3. Visit \notin subscribers
      BY <1>3, <3>1
    <3>4. CASE pc'[t] = pc[t] /\ local'[t] = local[t]
      BY <3>1, <3>2, <3>4
    <3>5. CASE Begins(t)
      BY <3>5 DEF Begins, Rendering
    <3>6. CASE Notify(t)
      BY <3>1, <3>3, <3>6, NotifyMoves DEF Rendering
    <3>7. CASE Call(t)
      BY <3>1, <3>2, <3>7, CallMoves DEF Rendering
    <3>8. CASE Post(t)
      BY <3>8, PostLeaves DEF Rendering
    <3>9. CASE Add(t) \/ Bump(t) \/ Store(t) \/ Clear(t) \/ Tell(t) \/ Copy(t)
      <4>1. /\ local'[t].todo = {} /\ local'[t].visit = local[t].visit
            /\ pc[t] \in {"clear", "tell", "copy"} => pc'[t] \in {"tell", "copy", "post"}
            /\ pc[t] \notin {"clear", "tell", "copy"} => pc'[t] \in {"bump", "store", "notify"}
        BY <3>9, OthersMove
      <4> QED
        BY <3>1, <3>2, <4>1 DEF Rendering
    <3>10. \A s \in Chats \cup {Home} : ~Open(s)
      BY <2>2 DEF Open
    <3> QED
      BY <3>4, <3>5, <3>6, <3>7, <3>8, <3>9, <3>10, Movers DEF Deliver
  <2> QED
    BY <1>3, <2>1, <2>2, ScreenMoves DEF Leave
<1>4. ASSUME pc'["ui"] \in {"count", "freeze"}
      PROVE  /\ label' = <<>> /\ before' = seen'
             /\ \A i \in DOMAIN uiQueue' : uiQueue'[i].visit # Visit'
  <2>1. ASSUME NEW s \in Chats \cup {Home}, Open(s), s # Home
        PROVE  /\ label' = <<>> /\ before' = seen'
               /\ \A i \in DOMAIN uiQueue' : uiQueue'[i].visit # Visit'
    <3>1. label = <<>> /\ before' = seen
      BY <2>1 DEF Open, NotYet, InChat
    <3> QED
      BY <2>1, <3>1, OpenFacts
  <2>2. CASE pc["ui"] \in {"count", "freeze"}
    <3>1. /\ label = <<>> /\ before = seen /\ Visit \notin subscribers /\ foreground
          /\ \A i \in DOMAIN uiQueue : uiQueue[i].visit # Visit
          /\ \A t \in Threads \ {"ui"} : /\ Visit \notin local[t].todo
                                         /\ pc[t] \in Rendering => local[t].visit # Visit
      BY <1>1, <2>2 DEF NotYet
    <3>2. /\ Visit' = Visit /\ ~RunUpdate /\ label' = label /\ before' = before /\ seen' = seen
      BY <1>1, <2>2
    <3>3. ASSUME NEW i \in DOMAIN uiQueue' PROVE uiQueue'[i].visit # Visit
      <4>1. ASSUME NEW t \in Threads, pc[t] = "calls", uiQueue'[i].visit \in local[t].todo
            PROVE  uiQueue'[i].visit # Visit
        BY <2>2, <3>1, <4>1
      <4>2. ASSUME NEW t \in Threads, Post(t), uiQueue'[i].visit = local[t].visit
            PROVE  uiQueue'[i].visit # Visit
        BY <2>2, <3>1, <4>2 DEF Post, Rendering
      <4> QED
        BY <3>1, <3>2, <3>3, <4>1, <4>2, QueueMoves
    <3> QED
      BY <3>1, <3>2, <3>3
  <2> QED
    BY <1>4, <2>1, <2>2, UiPlaces DEF Count
<1>5. ASSUME label' # <<>>
      PROVE  InChat'
  <2>1. InChat
    BY <1>5, LabelMoves DEF NotYet
  <2>2. ~Leave /\ \A s \in Chats \cup {Home} : ~Open(s)
    BY <1>5, <2>1 DEF Leave, Open, InChat
  <2> QED
    BY <2>1, <2>2, ScreenMoves DEF InChat, Shown, Visit
<1>6. ASSUME pc'["ui"] \in {"drop", "forget"}
      PROVE  Shown' = Home
  <2>1. ASSUME NEW k \in Chats, RemoveChat(k) PROVE Shown' = Home
    BY <2>1 DEF RemoveChat, InHome, screen, Shown, Visit
  <2>2. CASE pc["ui"] \in {"drop", "forget"}
    BY <1>1, <2>2 DEF NotYet
  <2> QED
    BY <1>6, <2>1, <2>2, UiPlaces DEF Drop
<1> QED
  BY <1>2, <1>3, <1>4, <1>5, <1>6 DEF NotYet

\* What is on its way to screens that were left, and runs before anything comes
\* to this one.
Ahead ==
  IF label = <<>>
  THEN UNION {ToSet(uiQueue[i].text) :
         i \in {j \in DOMAIN uiQueue : \A n \in 1..j : uiQueue[n].visit # Visit}}
  ELSE {}

\* What may stand above the divider, and what may stand there by mistake.
Known == own \cup before \cup missed \cup Ahead

Late == arriving \cup ghosts[Shown]

LEMMA AheadFacts ==
  ASSUME NEW m
  PROVE  m \in Ahead <=>
           /\ label = <<>>
           /\ \E i \in DOMAIN uiQueue : /\ \A n \in 1..i : uiQueue[n].visit # Visit
                                        /\ m \in ToSet(uiQueue[i].text)
BY DEF Ahead

\* The chat in the foreground stays, until it is left.
LEMMA ChatStays ==
  ASSUME BInv, Next, InChat, ~Leave
  PROVE  /\ UNCHANGED <<visits, foreground, before>>
         /\ Visit' = Visit /\ Shown' = Shown /\ InChat'
         /\ Visit \in 1..Visit /\ Shown \in Chats
<1>1. \A s \in Chats \cup {Home} : ~Open(s)
  BY DEF Open, InChat
<1>2. UNCHANGED <<visits, foreground, before>>
  BY <1>1, ScreenMoves, SubscribersMove
<1> QED
  BY <1>2, ShownFacts DEF Visit, Shown, InChat

\* What may stand above the divider may stand there as long as the chat is open.
LEMMA KnownKept ==
  ASSUME BInv, Next, InChat, ~Leave
  PROVE  Known \subseteq Known'
<1>1. before' = before /\ Visit' = Visit /\ InChat'
  BY ChatStays
<1>2. own \subseteq own'
  BY WorkMoves
<1>3. missed \subseteq missed'
  BY SubscribersMove DEF RunUpdate
<1>4. ASSUME NEW m \in Ahead
      PROVE  m \in Ahead' \cup missed'
  <2>1. PICK i \in DOMAIN uiQueue : /\ \A n \in 1..i : uiQueue[n].visit # Visit
                                    /\ m \in ToSet(uiQueue[i].text)
    BY <1>4, AheadFacts
  <2>2. /\ label = <<>> /\ uiQueue \in Seq(Updates) /\ i \in 1..i /\ 1 \in 1..i
        /\ i \in 1..Len(uiQueue) /\ Len(uiQueue) \in Nat
    BY <1>4, AheadFacts DEF BInv, Types
  <2>3. CASE RunUpdate
    <3>1. /\ uiQueue # <<>> /\ uiQueue' = Tail(uiQueue)
          /\ Head(uiQueue).visit # Visit
          /\ missed' = missed \cup ToSet(Head(uiQueue).text)
      BY <2>1, <2>2, <2>3, TailFacts DEF RunUpdate
    <3>2. label' = <<>>
      BY <2>2, <2>3, <3>1, LabelMoves DEF RunUpdate, Leave
    <3>3. CASE i = 1
      BY <2>1, <2>2, <3>1, <3>3, TailFacts
    <3>4. CASE i # 1
      <4>1. /\ i - 1 \in DOMAIN uiQueue' /\ uiQueue'[i - 1] = uiQueue[i]
            /\ \A n \in DOMAIN uiQueue' : uiQueue'[n] = uiQueue[n + 1]
            /\ DOMAIN uiQueue' = 1..Len(uiQueue') /\ Len(uiQueue') \in Nat
        BY <2>2, <3>1, <3>4, TailFacts
      <4>2. ASSUME NEW n \in 1..(i - 1) PROVE uiQueue'[n].visit # Visit
        <5>1. n \in DOMAIN uiQueue' /\ n + 1 \in 1..i
          BY <2>2, <4>1
        <5> QED
          BY <2>1, <4>1, <5>1
      <4>3. m \in ToSet(uiQueue'[i - 1].text)
        BY <2>1, <4>1
      <4>4. \E j \in DOMAIN uiQueue' : /\ \A n \in 1..j : uiQueue'[n].visit # Visit'
                                       /\ m \in ToSet(uiQueue'[j].text)
        BY <1>1, <4>1, <4>2, <4>3
      <4> QED
        BY <3>2, <4>4 DEF Ahead
    <3> QED
      BY <3>3, <3>4
  <2>4. CASE ~RunUpdate
    <3>1. \A j \in DOMAIN uiQueue : j \in DOMAIN uiQueue' /\ uiQueue'[j] = uiQueue[j]
      BY <2>4, QueueMoves
    <3>2. label' = <<>>
      BY <2>2, <2>4, LabelMoves
    <3>3. ASSUME NEW n \in 1..i PROVE uiQueue'[n].visit # Visit
      <4>1. n \in DOMAIN uiQueue
        BY <2>2
      <4> QED
        BY <2>1, <3>1, <4>1
    <3>4. \E j \in DOMAIN uiQueue' : /\ \A n \in 1..j : uiQueue'[n].visit # Visit'
                                     /\ m \in ToSet(uiQueue'[j].text)
      BY <1>1, <2>1, <3>1, <3>3
    <3> QED
      BY <3>2, <3>4 DEF Ahead
  <2> QED
    BY <2>3, <2>4
<1> QED
  BY <1>1, <1>2, <1>3, <1>4 DEF Known

LEMMA LateFacts ==
  ASSUME BInv, Past, InChat
  PROVE  IsFiniteSet(Late) /\ Cardinality(Late) \in Nat
<1>1. Late \subseteq 0..EVENTS
  BY ShownFacts DEF Late, Past
<1>2. IsFiniteSet(0..EVENTS)
  BY FS_Interval, ScreensAssumption
<1>3. IsFiniteSet(Late)
  BY <1>1, <1>2, FS_Subset
<1> QED
  BY <1>3, FS_CardinalityType

LEMMA LateGrows ==
  ASSUME BInv, Next, InChat, ~Leave, ~Count
  PROVE  Late \subseteq Late'
<1>1. Shown' = Shown /\ Shown \in Chats
  BY ChatStays
<1>2. ghosts[Shown] \subseteq ghosts'[Shown]
  BY <1>1, GhostsMove
<1>3. arriving \subseteq arriving'
  BY ArrivingMoves
<1> QED
  BY <1>1, <1>2, <1>3 DEF Late

\* The history of the chat in the foreground grows at its end.
LEMMA ShownMoves ==
  ASSUME BInv, NotYet, Next, InChat, ~Leave
  PROVE  \/ messages'[Shown] = messages[Shown]
         \/ \E t \in Threads :
              /\ Add(t) /\ Shown = local[t].key /\ local[t].id \in Messages
              /\ messages'[Shown] = Capped(Append(messages[Shown], local[t].id))
<1>1. Shown \in Chats /\ pc["ui"] # "drop"
  BY ChatStays DEF NotYet, InChat
<1> QED
  BY <1>1, MessagesMove

-----------------------------------------------------------------------------
\* Of the messages the divider is not to stand below, no more are in the chat
\* than were counted when it opened, but for late ones.
Frozen ==
  pc["ui"] = "freeze" =>
    Cardinality((ToSet(messages[Shown]) \ Known) \ Late) <= local["ui"].count

LEMMA FrozenCounted ==
  ASSUME BInv, Past, Apart, Counted, NotYet, Next, Count
  PROVE  Frozen'
<1>1. pc["ui"] = "count" /\ "ui" \in Threads /\ "worker" \in Threads
  BY DEF Count, Threads
<1>2. InChat /\ ~Leave /\ Shown \in Chats /\ Shown' = Shown /\ Visit' = Visit
  BY <1>1, ChatStays, ShownFacts DEF BInv, ScreenSound, InChat, Leave
<1>3. /\ label = <<>> /\ before = seen
      /\ \A i \in DOMAIN uiQueue : uiQueue[i].visit # Visit
  BY <1>1 DEF NotYet
<1>4. /\ UNCHANGED <<messages, unread, label, uiQueue, own, before, missed, ghosts>>
      /\ arriving' = InHands /\ local'["ui"].count = unread[Shown]
  BY <1>1 DEF Count, manager, screen, BInv, ThreadTypes, Locals
<1>5. PICK k \in Chats : k = Shown
  BY <1>2
<1>6. ASSUME NEW i \in DOMAIN uiQueue, NEW m \in ToSet(uiQueue[i].text)
      PROVE  m \in Ahead'
  <2>1. DOMAIN uiQueue = 1..Len(uiQueue) /\ Len(uiQueue) \in Nat
    BY DEF BInv, Types
  <2>2. \A n \in 1..i : n \in DOMAIN uiQueue
    BY <2>1
  <2>3. \E j \in DOMAIN uiQueue : /\ \A n \in 1..j : uiQueue[n].visit # Visit
                                  /\ m \in ToSet(uiQueue[j].text)
    BY <1>3, <1>6, <2>2
  <2>4. m \in Ahead
    BY <1>3, <2>3, AheadFacts
  <2> QED
    BY <1>2, <1>4, <2>4 DEF Ahead
<1>7. ASSUME NEW m \in ToSet(messages[k]), m \notin Known', m \notin Late'
      PROVE  m \in Waiting(k) /\ ~Rendered(k)
  <2>1. m \notin own \cup seen \cup missed \cup ghosts[k]
    BY <1>2, <1>3, <1>4, <1>5, <1>7 DEF Known, Late
  <2>2. /\ ~(pc["worker"] \in {"bump", "store"} /\ local["worker"].id = m)
        /\ \A t \in Threads : ~(pc[t] \in {"tell", "copy", "post"} /\ local[t].key = k)
    BY <1>4, <1>5, <1>7 DEF Late, InHands
  <2>3. m \notin InWork
    BY <2>2 DEF InWork
  <2>4. ~Rendered(k)
    BY <2>2 DEF Rendered
  <2>5. ASSUME NEW t \in Threads PROVE m \notin ToSet(local[t].text)
    <3>1. CASE pc[t] # "post"
      <4>1. local[t].text = <<>>
        BY <3>1, ThreadFacts DEF Sound
      <4> QED
        BY <4>1, EmptyList
    <3>2. CASE pc[t] = "post"
      BY <1>7, <2>2, <3>2 DEF Apart
    <3> QED
      BY <3>1, <3>2
  <2>6. ASSUME NEW i \in DOMAIN uiQueue PROVE m \notin ToSet(uiQueue[i].text)
    BY <1>6, <1>7 DEF Known
  <2>7. m \notin InTexts
    BY <2>5, <2>6 DEF InTexts, Texts
  <2> QED
    BY <1>7, <2>1, <2>3, <2>4, <2>7 DEF Waiting
<1>8. PICK rest : rest = (ToSet(messages[k]) \ Known') \ Late'
  OBVIOUS
<1>9. Cardinality(rest) <= unread[k]
  <2>1. CASE Rendered(k)
    <3>1. rest = {}
      BY <1>7, <1>8, <2>1
    <3>2. Cardinality(rest) = 0 /\ unread[k] \in Nat
      BY <3>1, FS_EmptySet, WaitingFacts
    <3> QED
      BY <3>2
  <2>2. CASE ~Rendered(k)
    <3>1. rest \subseteq Waiting(k)
      BY <1>7, <1>8
    <3>2. IsFiniteSet(Waiting(k)) /\ Cardinality(Waiting(k)) \in Nat /\ unread[k] \in Nat
      BY WaitingFacts
    <3>3. IsFiniteSet(rest) /\ Cardinality(rest) <= Cardinality(Waiting(k))
      BY <3>1, <3>2, FS_Subset
    <3>4. Cardinality(rest) \in Nat
      BY <3>3, FS_CardinalityType
    <3>5. Cardinality(Waiting(k)) <= unread[k]
      BY <2>2 DEF Counted
    <3> QED
      BY <3>2, <3>3, <3>4, <3>5
  <2> QED
    BY <2>1, <2>2
<1> QED
  BY <1>2, <1>4, <1>5, <1>8, <1>9 DEF Frozen

LEMMA FrozenKept ==
  ASSUME BInv, Past, Apart, Counted, NotYet, Frozen, Next
  PROVE  Frozen'
<1>0. "ui" \in Threads
  BY DEF Threads
<1>1. CASE Count
  BY <1>1, FrozenCounted
<1>2. CASE pc["ui"] = "freeze" /\ pc'["ui"] = "freeze"
  <2>1. InChat /\ ~Leave /\ ~Count
    BY <1>2 DEF BInv, ScreenSound, InChat, Leave, Count
  <2>2. Shown \in Chats /\ Shown' = Shown
    BY <2>1, ChatStays
  <2>3. PICK k \in Chats : k = Shown
    BY <2>2
  <2>4. Known \subseteq Known' /\ Late \subseteq Late'
    BY <2>1, KnownKept, LateGrows
  <2>5. local'["ui"].count = local["ui"].count
    <3>1. ~UiStep
      BY <1>0, <1>2 DEF UiStep, Count, Freeze, RefreshHome, Subscribe, Drop, Forget, Goto, BInv, ThreadTypes
    <3>2. ~Deliver("ui")
      BY <1>2 DEF Deliver, Add, Bump, Store, Notify, Call, Clear, Tell, Copy, Post
    <3> QED
      BY <1>0, <1>2, <3>1, <3>2, Movers
  <2>6. ASSUME NEW m \in ToSet(messages'[k]), m \notin Late'
        PROVE  m \in ToSet(messages[k])
    <3>1. ASSUME NEW t \in Threads, Add(t), local[t].id \in Messages,
                 messages'[k] = Capped(Append(messages[k], local[t].id))
          PROVE  m \in ToSet(messages[k])
      <4>1. local[t].id \in arriving'
        BY <1>2, <3>1 DEF Add
      <4>2. m # local[t].id
        BY <2>6, <4>1 DEF Late
      <4>3. messages[k] \in Lists
        BY DEF BInv, Types
      <4> QED
        BY <2>6, <3>1, <4>2, <4>3, CappedFacts
    <3> QED
      BY <2>1, <2>3, <2>6, <3>1, ShownMoves
  <2>7. PICK rest, left : /\ rest = (ToSet(messages[k]) \ Known) \ Late
                          /\ left = (ToSet(messages'[k]) \ Known') \ Late'
    OBVIOUS
  <2>8. left \subseteq rest
    BY <2>4, <2>6, <2>7
  <2>9. IsFiniteSet(rest)
    <3>1. IsFiniteSet(ToSet(messages[k])) /\ rest \subseteq ToSet(messages[k])
      BY <2>7, FiniteLists DEF BInv, Types
    <3> QED
      BY <3>1, FS_Subset
  <2>10. IsFiniteSet(left) /\ Cardinality(left) <= Cardinality(rest)
    BY <2>8, <2>9, FS_Subset
  <2>11. Cardinality(left) \in Nat /\ Cardinality(rest) \in Nat /\ local["ui"].count \in Nat
    BY <1>0, <2>9, <2>10, FS_CardinalityType, ThreadFacts
  <2>12. Cardinality(rest) <= local["ui"].count
    BY <1>2, <2>3, <2>7 DEF Frozen
  <2>13. Cardinality(left) <= local'["ui"].count
    BY <2>5, <2>10, <2>11, <2>12
  <2> QED
    BY <2>2, <2>3, <2>7, <2>13 DEF Frozen
<1> QED
  BY <1>1, <1>2, UiPlaces DEF Frozen

\* What comes after the first messages is unknown if one of them is.
NewAtEnd(list, read, known) ==
  \A i \in 1..read : \A j \in DOMAIN list :
    read < j /\ list[i] \notin known => list[j] \notin known

\* If what is unknown of a list is a stretch at its end, and no more than a count
\* of it is on time, then no more than what is late of it stands before the last
\* so many.
LEMMA Counting ==
  ASSUME NEW list \in Lists, OnceIn(list), NEW count \in Nat, NEW known, NEW late, IsFiniteSet(late),
         NEW read \in Nat, read = 0 \/ read = Len(list) - count,
         NewAtEnd(list, read, known),
         Cardinality((ToSet(list) \ known) \ late) <= count
  PROVE  Cardinality({list[i] : i \in 1..read} \ known) <= Cardinality(late)
<1>1. /\ Len(list) \in Nat /\ DOMAIN list = 1..Len(list)
      /\ \A i \in DOMAIN list : list[i] \in ToSet(list)
  BY ListFacts DEF Lists
<1>2. PICK n \in Nat : n = Len(list) /\ DOMAIN list = 1..n
  BY <1>1
<1>3. PICK above, below, unknown :
        /\ above = {list[i] : i \in 1..read} \ known
        /\ below = {list[j] : j \in (read + 1)..n}
        /\ unknown = ToSet(list) \ known
  OBVIOUS
<1>4. /\ read <= n /\ (read > 0 => read = n - count)
      /\ 1..read \subseteq DOMAIN list /\ (read + 1)..n \subseteq DOMAIN list
  <2>1. read = 0 \/ read = n - count
    BY <1>2
  <2>2. read <= n
    BY <2>1
  <2> QED
    BY <1>2, <2>1, <2>2
<1>5. IsFiniteSet(ToSet(list)) /\ Cardinality(late) \in Nat
  BY FiniteLists, FS_CardinalityType
<1>6. /\ IsFiniteSet(above) /\ IsFiniteSet(below) /\ IsFiniteSet(unknown)
  <2>1. above \subseteq ToSet(list) /\ below \subseteq ToSet(list) /\ unknown \subseteq ToSet(list)
    BY <1>3, <1>1, <1>4
  <2> QED
    BY <1>5, <2>1, FS_Subset
<1>7. CASE above = {}
  <2>1. Cardinality(above) = 0
    BY <1>7, FS_EmptySet
  <2>2. Cardinality(above) <= Cardinality(late)
    BY <1>5, <2>1
  <2> QED
    BY <1>3, <2>2
<1>8. CASE above # {}
  <2>1. PICK i \in 1..read : list[i] \notin known
    BY <1>3, <1>8
  <2>2. read > 0 /\ read = n - count
    <3>1. read > 0
      BY <2>1
    <3> QED
      BY <1>4, <3>1
  <2>3. below \subseteq unknown
    <3>1. ASSUME NEW j \in (read + 1)..n PROVE list[j] \in unknown
      <4>1. j \in DOMAIN list /\ read < j
        BY <1>4, <3>1
      <4> QED
        BY <1>3, <1>1, <2>1, <4>1 DEF NewAtEnd
    <3> QED
      BY <1>3, <3>1
  <2>4. above \subseteq unknown
    BY <1>3, <1>1, <1>4
  <2>5. above \cap below = {}
    <3>1. ASSUME NEW l \in 1..read, NEW j \in (read + 1)..n, list[l] = list[j]
          PROVE  FALSE
      <4>1. l = j
        BY <1>4, <3>1 DEF OnceIn
      <4> QED
        BY <3>1, <4>1
    <3> QED
      BY <1>3, <3>1
  <2>6. count <= Cardinality(below)
    <3>1. PICK S : S = (read + 1)..n
      OBVIOUS
    <3>2. Cardinality(S) = count
      <4>1. Cardinality(S) = IF read + 1 > n THEN 0 ELSE n - (read + 1) + 1
        BY <3>1, FS_Interval
      <4> QED
        BY <2>2, <4>1
    <3>3. [j \in S |-> list[j]] \in Injection(S, below)
      <4>1. [j \in S |-> list[j]] \in [S -> below]
        BY <1>3, <3>1
      <4>2. \A l, j \in S : list[l] = list[j] => l = j
        BY <1>4, <3>1 DEF OnceIn
      <4> QED
        BY <4>1, <4>2 DEF Injection, IsInjective
    <3> QED
      BY <1>6, <3>2, <3>3, FS_Injection
  <2>7. /\ IsFiniteSet(above \cup below)
        /\ Cardinality(above \cup below) = Cardinality(above) + Cardinality(below)
    <3>1. /\ IsFiniteSet(above \cup below)
          /\ Cardinality(above \cup below)
               = Cardinality(above) + Cardinality(below) - Cardinality(above \cap below)
      BY <1>6, FS_Union
    <3>2. Cardinality(above \cap below) = 0
      BY <2>5, FS_EmptySet
    <3>3. Cardinality(above) \in Nat /\ Cardinality(below) \in Nat
      BY <1>6, FS_CardinalityType
    <3> QED
      BY <3>1, <3>2, <3>3
  <2>8. Cardinality(above \cup below) <= Cardinality(unknown)
    BY <1>6, <2>3, <2>4, FS_Subset
  <2>9. Cardinality(unknown) <= count + Cardinality(late)
    <3>1. PICK early, rest : early = unknown \ late /\ rest = unknown \cap late
      OBVIOUS
    <3>2. /\ IsFiniteSet(early) /\ IsFiniteSet(rest) /\ unknown = early \cup rest
          /\ Cardinality(rest) <= Cardinality(late)
      <4>1. early \subseteq unknown /\ rest \subseteq late /\ unknown = early \cup rest
        BY <3>1
      <4> QED
        BY <1>6, <4>1, FS_Subset
    <3>3. Cardinality(unknown) = Cardinality(early) + Cardinality(rest) - Cardinality(early \cap rest)
      BY <3>2, FS_Union
    <3>4. Cardinality(early \cap rest) = 0
      <4>1. early \cap rest = {}
        BY <3>1
      <4> QED
        BY <4>1, FS_EmptySet
    <3>5. Cardinality(early) \in Nat /\ Cardinality(rest) \in Nat
      BY <3>2, FS_CardinalityType
    <3>6. Cardinality(early) <= count
      BY <1>3, <3>1
    <3> QED
      BY <1>5, <3>2, <3>3, <3>4, <3>5, <3>6
  <2>10. /\ Cardinality(above) \in Nat /\ Cardinality(below) \in Nat /\ Cardinality(unknown) \in Nat
         /\ Cardinality(above \cup below) \in Nat
    BY <1>6, <2>7, FS_CardinalityType
  <2>11. Cardinality(above) <= Cardinality(late)
    BY <1>5, <2>6, <2>7, <2>8, <2>9, <2>10
  <2> QED
    BY <1>3, <2>11
<1> QED
  BY <1>7, <1>8

\* Above the divider stand as many messages as are late, and else only what may
\* stand there.
Placing ==
  ~shifted /\ InChat /\ pc["ui"] \notin {"count", "freeze"} =>
    /\ readCount <= Len(messages[Shown])
    /\ Cardinality({messages[Shown][i] : i \in 1..readCount} \ Known) <= Cardinality(Late)

LEMMA PlacingFrozen ==
  ASSUME BInv, Past, Apart, Ordered, NotYet, Frozen, Next, Freeze
  PROVE  Placing'
<1>1. /\ pc["ui"] = "freeze" /\ "ui" \in Threads
      /\ shifted' = (shifted \/ OwnAfterNew(messages[Shown]))
  BY DEF Freeze, Threads
<1>2. InChat /\ ~Leave /\ ~Count /\ Shown \in Chats /\ Shown' = Shown
  BY <1>1, ChatStays, ShownFacts DEF BInv, ScreenSound, InChat, Leave, Count
<1>3. PICK k \in Chats, list \in Lists, count \in Nat :
        k = Shown /\ list = messages[k] /\ count = local["ui"].count
  BY <1>1, <1>2, ThreadFacts DEF BInv, Types
<1>4. messages' = messages /\ UNCHANGED <<label, uiQueue, own, before, missed, arriving, ghosts>>
  BY DEF Freeze, manager
<1>5. PICK read \in Nat : /\ read = 0 \/ read = Len(list) - count
                          /\ readCount' = read /\ read <= Len(list)
  <2>1. readCount' = IF Len(list) - count > 0 THEN Len(list) - count ELSE 0
    BY <1>3 DEF Freeze
  <2>2. Len(list) \in Nat
    BY DEF Lists
  <2> QED
    BY <2>1, <2>2
<1>6. Cardinality((ToSet(list) \ Known) \ Late) <= count
  BY <1>1, <1>3 DEF Frozen
<1>7. before = seen /\ DOMAIN list = 1..Len(list) /\ Len(list) \in Nat
  BY <1>1 DEF NotYet, Lists
<1>8. ASSUME ~shifted', NEW i \in 1..read, NEW j \in DOMAIN list, read < j, list[i] \notin Known
      PROVE  list[j] \notin Known
  <2>1. i \in DOMAIN list /\ i < j
    <3>1. PICK n \in Nat : n = Len(list) /\ DOMAIN list = 1..n /\ read <= n
      BY <1>5, <1>7
    <3>2. i \in 1..n /\ j \in 1..n /\ i <= read
      BY <1>8, <3>1
    <3> QED
      BY <1>8, <3>1, <3>2
  <2>2. list[j] \notin own
    BY <1>1, <1>3, <1>7, <1>8, <2>1 DEF OwnAfterNew, Known
  <2>3. list[j] \notin seen \cup missed
    <3>1. ClosedIn(list, seen \cup missed)
      BY <1>3 DEF Ordered
    <3> QED
      BY <1>7, <1>8, <2>1, <3>1 DEF ClosedIn, Known
  <2>4. list[j] \notin Ahead
    <3>1. ASSUME list[j] \in Ahead PROVE FALSE
      <4>1. PICK n \in DOMAIN uiQueue : /\ \A l \in 1..n : uiQueue[l].visit # Visit
                                        /\ list[j] \in ToSet(uiQueue[n].text)
        BY <3>1, AheadFacts
      <4>2. ClosedIn(list, ToSet(uiQueue[n].text))
        BY <1>3 DEF Ordered, Texts
      <4>3. list[i] \in ToSet(uiQueue[n].text)
        BY <2>1, <4>1, <4>2 DEF ClosedIn
      <4>4. label = <<>>
        BY <3>1, AheadFacts
      <4>5. list[i] \in Ahead
        BY <4>1, <4>3, <4>4, AheadFacts
      <4> QED
        BY <1>8, <4>5 DEF Known
    <3> QED
      BY <3>1
  <2> QED
    BY <1>7, <2>2, <2>3, <2>4 DEF Known
<1>9. ASSUME ~shifted'
      PROVE  Cardinality({list[i] : i \in 1..read} \ Known) <= Cardinality(Late)
  <2>1. OnceIn(list) /\ IsFiniteSet(Late)
    BY <1>2, <1>3, LateFacts DEF Apart
  <2> QED
    BY <1>5, <1>6, <1>8, <1>9, <2>1, Counting DEF NewAtEnd
<1>10. Visit' = Visit
  BY <1>2, ChatStays
<1>11. Known' = Known /\ Late' = Late
  BY <1>2, <1>4, <1>10 DEF Known, Late, Ahead
<1> QED
  BY <1>2, <1>3, <1>4, <1>5, <1>9, <1>11 DEF Placing

\* While the divider is not excused, the history of the chat in the foreground
\* keeps what it has where it is.
LEMMA ShownGrows ==
  ASSUME BInv, NotYet, Next, InChat, ~Leave, ~shifted'
  PROVE  /\ ~shifted
         /\ messages[Shown] \in Lists /\ messages'[Shown] \in Lists
         /\ Len(messages[Shown]) <= Len(messages'[Shown])
         /\ \A i \in DOMAIN messages[Shown] : messages'[Shown][i] = messages[Shown][i]
<1>1. Shown \in Chats /\ Shown' = Shown
  BY ChatStays
<1>2. PICK k \in Chats : k = Shown
  BY <1>1
<1>3. messages[k] \in Lists /\ Len(messages[k]) \in Nat
  BY DEF BInv, Types, Lists
<1>4. ASSUME NEW t \in Threads, Add(t), k = local[t].key, local[t].id \in Messages
      PROVE  messages'[k] = Append(messages[k], local[t].id) \/ shifted'
  BY <1>2, <1>4 DEF Add, BInv, Types
<1>5. \/ messages'[k] = messages[k]
      \/ \E m \in Messages : messages'[k] = Append(messages[k], m)
  BY <1>2, <1>4, ShownMoves
<1>6. messages'[k] \in Lists
  <2>1. messages' \in [Chats -> Lists]
    BY NextBInv DEF BInv, Types
  <2> QED
    BY <2>1
<1>7. ASSUME NEW m \in Messages, messages'[k] = Append(messages[k], m)
      PROVE  /\ Len(messages[k]) <= Len(messages'[k])
             /\ \A i \in DOMAIN messages[k] : messages'[k][i] = messages[k][i]
  <2>1. messages[k] \in Seq(Messages)
    BY <1>3 DEF Lists
  <2>2. /\ Len(messages'[k]) = Len(messages[k]) + 1
        /\ \A i \in DOMAIN messages[k] : messages'[k][i] = messages[k][i]
    BY <1>7, <2>1, AppendFacts
  <2> QED
    BY <1>3, <2>2
<1>8. ~shifted
  <2>1. ASSUME NEW t \in Threads, Deliver(t), shifted PROVE shifted'
    BY <2>1 DEF Deliver, Add, Bump, Store, Notify, Call, Clear, Tell, Copy, Post, history
  <2>2. ASSUME UiStep \/ RunUpdate, shifted PROVE shifted'
    BY <2>2 DEF UiStep, Count, Freeze, RefreshHome, Subscribe, Drop, Forget, RunUpdate, history
  <2>3. ASSUME User, shifted PROVE shifted'
    BY <2>3 DEF User, Open, Send, RemoveChat, AddChat, history
  <2>4. ASSUME NEW c \in Chats, Hear(c) \/ HearMark(c), shifted PROVE shifted'
    BY <2>4 DEF Hear, HearMark, history
  <2> QED
    BY <2>1, <2>2, <2>3, <2>4 DEF Next
<1> QED
  BY <1>2, <1>3, <1>5, <1>6, <1>7, <1>8

LEMMA PlacingKept ==
  ASSUME BInv, Past, Apart, Ordered, NotYet, Frozen, Placing, Next
  PROVE  Placing'
<1>0. "ui" \in Threads
  BY DEF Threads
<1>1. CASE Freeze
  BY <1>1, PlacingFrozen
<1>2. ASSUME ~Freeze, ~shifted', InChat', pc'["ui"] \notin {"count", "freeze"}
      PROVE  /\ readCount' <= Len(messages'[Shown'])
             /\ Cardinality({messages'[Shown'][i] : i \in 1..readCount'} \ Known')
                  <= Cardinality(Late')
  <2>1. ~Leave
    BY <1>2 DEF Leave, InChat
  <2>2. \A s \in Chats \cup {Home} : ~Open(s)
    <3>1. ASSUME NEW s \in Chats \cup {Home}, Open(s) PROVE FALSE
      <4>1. Shown' = s
        BY <3>1, OpenFacts
      <4>2. pc'["ui"] = "count"
        BY <1>0, <1>2, <3>1, <4>1 DEF Open, Goto, BInv, ThreadTypes, InChat
      <4> QED
        BY <1>2, <4>2
    <3> QED
      BY <3>1
  <2>3. InChat /\ Visit' = Visit /\ Shown' = Shown
    BY <1>2, <2>1, <2>2, ScreenMoves DEF InChat, Shown, Visit
  <2>4. ~Count
    BY <1>0, <1>2 DEF Count, Goto, BInv, ThreadTypes
  <2>5. pc["ui"] \notin {"count", "freeze"}
    <3>1. ASSUME pc["ui"] \in {"count", "freeze"} PROVE FALSE
      <4>1. ~UiStep
        BY <1>2, <2>4, <3>1 DEF UiStep, RefreshHome, Subscribe, Drop, Forget
      <4>2. ~Deliver("ui")
        BY <3>1 DEF Deliver, Add, Bump, Store, Notify, Call, Clear, Tell, Copy, Post
      <4> QED
        BY <1>0, <1>2, <3>1, <4>1, <4>2, Movers
    <3> QED
      BY <3>1
  <2>6. PICK list, new \in Lists : list = messages[Shown] /\ new = messages'[Shown]
    BY <1>2, <2>1, <2>3, ShownGrows
  <2>7. /\ Len(list) <= Len(new) /\ ~shifted
        /\ \A i \in DOMAIN list : new[i] = list[i]
        /\ Len(list) \in Nat /\ Len(new) \in Nat /\ DOMAIN list = 1..Len(list)
    BY <1>2, <2>1, <2>3, <2>6, ShownGrows DEF Lists
  <2>8. PICK count \in Nat : count = readCount /\ readCount' = readCount
    BY <1>2, <2>1, SubscribersMove DEF BInv, Types
  <2>9. PICK above : above = {list[i] : i \in 1..count} \ Known
    OBVIOUS
  <2>10. count <= Len(list) /\ Cardinality(above) <= Cardinality(Late)
    BY <2>3, <2>5, <2>6, <2>7, <2>8, <2>9 DEF Placing
  <2>11. 1..count \subseteq DOMAIN list
    BY <2>7, <2>10
  <2>12. {new[i] : i \in 1..count} \ Known' \subseteq above
    BY <2>1, <2>3, <2>7, <2>9, <2>11, KnownKept
  <2>13. IsFiniteSet(above)
    <3>1. above \subseteq ToSet(list)
      <4>1. \A i \in DOMAIN list : list[i] \in ToSet(list)
        BY ListFacts DEF Lists
      <4> QED
        BY <2>9, <2>11, <4>1
    <3> QED
      BY <3>1, FiniteLists, FS_Subset
  <2>14. /\ IsFiniteSet({new[i] : i \in 1..count} \ Known')
         /\ Cardinality({new[i] : i \in 1..count} \ Known') <= Cardinality(above)
    BY <2>12, <2>13, FS_Subset
  <2>15. Cardinality(Late) <= Cardinality(Late') /\ IsFiniteSet(Late')
    <3>1. Late' \subseteq 0..EVENTS
      <4>1. arriving' \subseteq 0..EVENTS /\ \A k \in Chats : ghosts'[k] \subseteq 0..EVENTS
        BY PastKept DEF Past
      <4>2. Shown' \in Chats
        BY <2>1, <2>3, ChatStays
      <4> QED
        BY <4>1, <4>2 DEF Late
    <3>2. IsFiniteSet(0..EVENTS)
      BY FS_Interval, ScreensAssumption
    <3>3. IsFiniteSet(Late')
      BY <3>1, <3>2, FS_Subset
    <3>4. Late \subseteq Late'
      BY <2>1, <2>3, <2>4, LateGrows
    <3> QED
      BY <3>3, <3>4, FS_Subset
  <2>16. /\ Cardinality(above) \in Nat /\ Cardinality(Late) \in Nat /\ Cardinality(Late') \in Nat
         /\ Cardinality({new[i] : i \in 1..count} \ Known') \in Nat
    BY <2>3, <2>13, <2>14, <2>15, LateFacts, FS_CardinalityType
  <2>17. count <= Len(new)
    BY <2>7, <2>10
  <2>18. Cardinality({new[i] : i \in 1..count} \ Known') <= Cardinality(Late')
    BY <2>10, <2>14, <2>15, <2>16
  <2> QED
    BY <2>3, <2>6, <2>8, <2>17, <2>18
<1> QED
  BY <1>1, <1>2 DEF Placing

Starts(text, list) ==
  /\ Len(text) <= Len(list)
  /\ \A i \in DOMAIN text : text[i] = list[i]

\* What the chat in the foreground shows, or is to show, is its history or what
\* that began with.
Copies ==
  ~shifted /\ InChat =>
    /\ Starts(label, messages[Shown])
    /\ \A i \in DOMAIN uiQueue :
         uiQueue[i].visit = Visit => Starts(uiQueue[i].text, messages[Shown])
    /\ \A t \in Threads :
         pc[t] = "post" /\ local[t].visit = Visit => Starts(local[t].text, messages[Shown])

LEMMA StartsFacts ==
  /\ \A list \in Lists : Starts(<<>>, list) /\ Starts(list, list)
  /\ \A text \in Lists, list \in Lists, new \in Lists :
       /\ Starts(text, list) /\ Len(list) <= Len(new)
       /\ \A i \in DOMAIN list : new[i] = list[i]
       => Starts(text, new)
<1>1. ASSUME NEW list \in Lists
      PROVE  Starts(<<>>, list) /\ Starts(list, list)
  BY DEF Starts, Lists
<1>2. ASSUME NEW text \in Lists, NEW list \in Lists, NEW new \in Lists,
             Starts(text, list), Len(list) <= Len(new),
             \A i \in DOMAIN list : new[i] = list[i]
      PROVE  Starts(text, new)
  <2>1. /\ Len(text) \in Nat /\ Len(list) \in Nat /\ Len(new) \in Nat
        /\ DOMAIN text = 1..Len(text) /\ DOMAIN list = 1..Len(list)
    BY DEF Lists
  <2>2. Len(text) <= Len(new) /\ DOMAIN text \subseteq DOMAIN list
    BY <1>2, <2>1 DEF Starts
  <2> QED
    BY <1>2, <2>2 DEF Starts
<1> QED
  BY <1>1, <1>2

\* A thread that is to post has copied just now, or was to post before.
LEMMA PostPlaces ==
  ASSUME BInv, Next, NEW t \in Threads, pc'[t] = "post"
  PROVE  (pc[t] = "post" /\ local'[t] = local[t]) \/ Copy(t)
<1>1. ASSUME Deliver(t), ~Copy(t) PROVE FALSE
  BY <1>1, NotifyMoves, CallMoves, PostLeaves
  DEF Deliver, Add, Bump, Store, Clear, Tell, Goto, BInv, ThreadTypes
<1>2. ~Begins(t)
  BY DEF Begins
<1>3. ASSUME NEW s \in Chats \cup {Home}, Open(s), pc[t] = "idle" PROVE FALSE
  BY <1>3 DEF Open, Goto, BInv, ThreadTypes
<1>4. ASSUME t = "ui", UiStep PROVE FALSE
  BY <1>4 DEF UiStep, Count, Freeze, RefreshHome, Subscribe, Drop, Forget, Goto, BInv, ThreadTypes
<1> QED
  BY <1>1, <1>2, <1>3, <1>4, Movers

LEMMA CopiesKept ==
  ASSUME BInv, NotYet, Copies, Next
  PROVE  Copies'
<1>0. BInv' /\ "ui" \in Threads
  BY NextBInv DEF Threads
<1>1. ASSUME NEW s \in Chats \cup {Home}, Open(s), InChat'
      PROVE  /\ Starts(label', messages'[Shown'])
             /\ \A i \in DOMAIN uiQueue' : uiQueue'[i].visit # Visit'
             /\ \A t \in Threads : ~(pc'[t] = "post" /\ local'[t].visit = Visit')
  <2>1. label' = <<>>
    BY <1>1, OpenFacts DEF NotYet, InChat
  <2>2. messages'[Shown'] \in Lists
    <3>1. Shown' = s /\ s \in Chats /\ messages' = messages
      BY <1>1, OpenFacts DEF InChat
    <3> QED
      BY <3>1 DEF BInv, Types
  <2>3. \A i \in DOMAIN uiQueue' : uiQueue'[i].visit # Visit'
    BY <1>1, OpenFacts
  <2>4. pc'["ui"] # "post"
    BY <1>0, <1>1 DEF Open, Goto, BInv, ThreadTypes
  <2>5. ASSUME NEW t \in Threads, pc'[t] = "post", local'[t].visit = Visit'
        PROVE  FALSE
    BY <1>1, <2>4, <2>5, OpenFacts DEF Rendering
  <2> QED
    BY <2>1, <2>2, <2>3, <2>5, StartsFacts
<1>2. ASSUME InChat, ~Leave, ~shifted'
      PROVE  /\ Starts(label', messages'[Shown'])
             /\ \A i \in DOMAIN uiQueue' :
                  uiQueue'[i].visit = Visit' => Starts(uiQueue'[i].text, messages'[Shown'])
             /\ \A t \in Threads : pc'[t] = "post" /\ local'[t].visit = Visit' =>
                  Starts(local'[t].text, messages'[Shown'])
  <2>1. Visit' = Visit /\ Shown' = Shown
    BY <1>2, ChatStays
  <2>2. PICK list \in Lists, new \in Lists :
          /\ list = messages[Shown] /\ new = messages'[Shown]
          /\ Len(list) <= Len(new) /\ \A i \in DOMAIN list : new[i] = list[i]
    BY <1>2, ShownGrows
  <2>3. \A text \in Lists : Starts(text, list) => Starts(text, new)
    BY <2>2, StartsFacts
  <2>4. ~shifted
    BY <1>2, ShownGrows
  <2>5. /\ label \in Lists /\ Starts(label, list) /\ uiQueue \in Seq(Updates)
        /\ \A i \in DOMAIN uiQueue : /\ uiQueue[i].text \in Lists
                                     /\ uiQueue[i].visit = Visit => Starts(uiQueue[i].text, list)
        /\ \A t \in Threads : /\ local[t].text \in Lists
                              /\ pc[t] = "post" /\ local[t].visit = Visit => Starts(local[t].text, list)
    <3>1. uiQueue \in Seq(Updates) /\ \A i \in DOMAIN uiQueue : uiQueue[i].text \in Lists
      <4>1. uiQueue \in Seq(Updates)
        BY DEF BInv, Types
      <4>2. \A i \in DOMAIN uiQueue : uiQueue[i] \in Updates
        BY <4>1
      <4> QED
        BY <4>1, <4>2 DEF Updates
    <3>2. \A t \in Threads : local[t].text \in Lists
      BY ThreadFacts
    <3>3. label \in Lists
      BY DEF BInv, Types
    <3> QED
      BY <1>2, <2>2, <2>4, <3>1, <3>2, <3>3 DEF Copies
  <2>6. Starts(label', new)
    <3>1. CASE label' = label
      BY <2>3, <2>5, <3>1
    <3>2. CASE RunUpdate /\ Head(uiQueue).visit = Visit /\ label' = Head(uiQueue).text
      <4>1. 1 \in DOMAIN uiQueue /\ Head(uiQueue) = uiQueue[1]
        BY <2>5, <3>2, TailFacts DEF RunUpdate
      <4> QED
        BY <2>3, <2>5, <3>2, <4>1
    <3> QED
      BY <1>2, <3>1, <3>2, LabelMoves
  <2>7. ASSUME NEW i \in DOMAIN uiQueue', uiQueue'[i].visit = Visit
        PROVE  Starts(uiQueue'[i].text, new)
    <3>1. CASE RunUpdate
      <4>1. PICK j \in DOMAIN uiQueue : uiQueue'[i] = uiQueue[j]
        BY <3>1, RunUpdateQueue
      <4> QED
        BY <2>3, <2>5, <2>7, <4>1
    <3>2. CASE i \in DOMAIN uiQueue /\ uiQueue'[i] = uiQueue[i]
      BY <2>3, <2>5, <2>7, <3>2
    <3>3. CASE uiQueue'[i].text = <<>>
      BY <3>3, StartsFacts
    <3>4. ASSUME NEW t \in Threads, Post(t), uiQueue'[i].visit = local[t].visit,
                 uiQueue'[i].text = local[t].text
          PROVE  Starts(uiQueue'[i].text, new)
      BY <2>3, <2>5, <2>7, <3>4 DEF Post
    <3> QED
      BY <2>7, <3>1, <3>2, <3>3, <3>4, QueueMoves
  <2>8. ASSUME NEW t \in Threads, pc'[t] = "post", local'[t].visit = Visit
        PROVE  Starts(local'[t].text, new)
    <3>1. CASE pc[t] = "post" /\ local'[t] = local[t]
      BY <2>3, <2>5, <2>8, <3>1
    <3>2. CASE Copy(t)
      <4>1. /\ pc[t] = "copy" /\ local'[t].text = messages[local[t].key]
            /\ local'[t].visit = local[t].visit
        BY <3>2 DEF Copy, BInv, ThreadTypes, Locals
      <4>2. visits[local[t].visit] = local[t].key
        BY <4>1, ThreadFacts DEF Sound, Rendering
      <4>3. local'[t].text = list
        BY <2>2, <2>8, <4>1, <4>2 DEF Shown
      <4> QED
        BY <2>3, <4>3, StartsFacts
    <3> QED
      BY <2>8, <3>1, <3>2, PostPlaces
  <2> QED
    BY <2>1, <2>2, <2>6, <2>7, <2>8
<1>3. ASSUME InChat', \A s \in Chats \cup {Home} : ~Open(s)
      PROVE  InChat /\ ~Leave
  <2>1. ~Leave
    BY <1>3 DEF Leave, InChat
  <2> QED
    BY <1>3, <2>1, ScreenMoves DEF InChat, Shown, Visit
<1> QED
  BY <1>1, <1>2, <1>3 DEF Copies

DividerInv ==
  MessagesInv /\ Past /\ Apart /\ Ordered /\ Counted /\ NotYet /\ Frozen /\ Placing /\ Copies

\* What histories, counters, texts on their way and the screen in the foreground
\* say of each other: messages stay in their order, a counter counts no fewer
\* than wait, and the divider is where it was when the chat opened.
THEOREM DividerInvIsInvariant == Spec => []DividerInv
<1>1. Init => Past /\ Apart /\ Ordered /\ Counted /\ NotYet /\ Frozen /\ Placing /\ Copies
  <2> SUFFICES ASSUME Init
               PROVE  Past /\ Apart /\ Ordered /\ Counted /\ NotYet /\ Frozen /\ Placing /\ Copies
    OBVIOUS
  <2>1. /\ \A k \in Chats : messages[k] = <<>> /\ unread[k] = 0 /\ ghosts[k] = {}
        /\ \A t \in Threads : pc[t] = "idle" /\ local[t].text = <<>>
        /\ uiQueue = <<>> /\ ~foreground /\ label = <<>>
        /\ seen = {} /\ missed = {} /\ arriving = {} /\ "ui" \in Threads /\ "worker" \in Threads
    BY UnusedFacts DEF Init, Threads
  <2>2. ToSet(<<>>) = {} /\ DOMAIN uiQueue = {} /\ Cardinality({}) = 0
    BY <2>1, EmptyList, FS_EmptySet
  <2>3. InTexts = {}
    BY <2>1, <2>2 DEF InTexts, Texts
  <2>4. Past
    BY <2>1, <2>3 DEF Past
  <2>5. Apart
    BY <2>1, <2>2 DEF Apart, OnceIn
  <2>6. Ordered
    BY <2>1 DEF Ordered, ClosedIn
  <2>7. Counted
    <3>1. ASSUME NEW k \in Chats PROVE Cardinality(Waiting(k)) <= unread[k]
      <4>1. Waiting(k) = {}
        BY <2>1, <2>2 DEF Waiting
      <4> QED
        BY <2>1, <2>2, <4>1
    <3> QED
      BY <2>1, <3>1 DEF Counted
  <2> QED
    BY <2>1, <2>4, <2>5, <2>6, <2>7 DEF NotYet, Frozen, Placing, Copies, InChat
<1>2. DividerInv /\ [Next]_vars =>
        (Past /\ Apart /\ Ordered /\ Counted /\ NotYet /\ Frozen /\ Placing /\ Copies)'
  <2> SUFFICES ASSUME DividerInv, [Next]_vars
               PROVE  (Past /\ Apart /\ Ordered /\ Counted /\ NotYet /\ Frozen /\ Placing /\ Copies)'
    OBVIOUS
  <2>1. CASE Next
    BY <2>1, PastKept, ApartKept, OrderedKept, CountedKept, NotYetKept, FrozenKept, PlacingKept,
       CopiesKept
    DEF DividerInv, MessagesInv
  <2>2. CASE UNCHANGED vars
    <3>1. UNCHANGED <<joined, messages, unread, subscribers, visits, foreground, readCount, label,
                      uiQueue, pc, local, used, own, seen, before, arriving, shifted, missed, ghosts>>
      BY <2>2 DEF vars, manager, screen, history
    <3>2. Visit' = Visit /\ Shown' = Shown /\ InChat' = InChat
      BY <3>1 DEF Visit, Shown, InChat
    <3>3. Texts' = Texts /\ InTexts' = InTexts /\ InWork' = InWork
      BY <3>1 DEF Texts, InTexts, InWork
    <3>4. Past' /\ Apart' /\ Ordered'
      BY <3>1, <3>3 DEF DividerInv, Past, Apart, Ordered
    <3>5. Counted'
      BY <3>1, <3>3 DEF DividerInv, Counted, Waiting, Rendered
    <3>6. NotYet'
      BY <3>1, <3>2 DEF DividerInv, NotYet
    <3>7. Known' = Known /\ Late' = Late
      BY <3>1, <3>2 DEF Known, Late, Ahead
    <3>8. Frozen' /\ Placing'
      BY <3>1, <3>2, <3>7 DEF DividerInv, Frozen, Placing
    <3>9. Copies'
      BY <3>1, <3>2 DEF DividerInv, Copies
    <3> QED
      BY <3>4, <3>5, <3>6, <3>8, <3>9
  <2> QED
    BY <2>1, <2>2
<1> QED
  BY <1>1, <1>2, MessagesInvIsInvariant, PTL DEF Spec, DividerInv

\* The line "new" stands where it should (onResume and _render of both chat
\* screens): above it are no more messages that were on no screen before this
\* visit, and are not the user's own, than came in or were added to a removed
\* chat while it opened.
THEOREM DividerRight == Spec => []DividerIsRight
<1>1. DividerInv => DividerIsRight
  <2> SUFFICES ASSUME DividerInv, ~shifted, 0 < readCount, readCount < Len(label)
               PROVE  Cardinality({label[i] : i \in 1..readCount} \ (own \cup before \cup missed))
                        <= Cardinality(arriving \cup ghosts[Shown])
    BY DEF DividerIsRight
  <2>1. BInv /\ NotYet /\ Placing /\ Copies
    BY DEF DividerInv, MessagesInv
  <2>2. PICK text \in Lists, count \in Nat : text = label /\ count = readCount
    BY <2>1 DEF BInv, Types
  <2>3. Len(text) \in Nat /\ DOMAIN text = 1..Len(text) /\ count < Len(text) /\ 0 < count
    BY <2>2 DEF Lists
  <2>4. text # <<>>
    BY <2>3
  <2>5. InChat /\ pc["ui"] \notin {"count", "freeze"} /\ Ahead = {}
    BY <2>1, <2>2, <2>4 DEF NotYet, Ahead
  <2>6. PICK list : list = messages[Shown]
    OBVIOUS
  <2>7. \A i \in 1..count : text[i] = list[i]
    BY <2>1, <2>2, <2>3, <2>5, <2>6 DEF Copies, Starts
  <2>8. Cardinality({list[i] : i \in 1..count} \ Known) <= Cardinality(Late)
    BY <2>1, <2>2, <2>5, <2>6 DEF Placing
  <2>9. {text[i] : i \in 1..count} = {list[i] : i \in 1..count}
    BY <2>7
  <2>10. Known = own \cup before \cup missed
    BY <2>5 DEF Known
  <2> QED
    BY <2>2, <2>8, <2>9, <2>10 DEF Late
<1> QED
  BY <1>1, DividerInvIsInvariant, PTL
=============================================================================
