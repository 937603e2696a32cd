-------------------------- MODULE ContactStoreProofs --------------------------
(***************************************************************************)
(* Theorems about the saved contacts and histories, for any number of      *)
(* companions, messages and threads and without the bounds of the runs.    *)
(*                                                                         *)
(* Type correctness rests on LocalsSet: a call that has come to a certain  *)
(* point has the local variables it needs there. The next two invariants   *)
(* are strengthened by what holds in the middle of the calls they speak    *)
(* of: FlushPromised and SavePromised. The last part, on the histories,    *)
(* has an invariant of its own, HistoryInv.                                *)
(***************************************************************************)
EXTENDS ContactStore, SequenceTheorems, TLAPS

\* The arguments and snapshots in use.
LocalsSet ==
  \A t \in Threads :
    /\ pc[t] \in {"append", "mark", "put", "forget", "erase"} => local[t].pub \in Pubkeys
    /\ pc[t] = "append" => local[t].msg \in Numbers
    /\ pc[t] = "commit" => local[t].copy \in ContactLists

\* A mark that no worker will look at has a thread on its way to flush it.
FlushPromised ==
  ~workerRunning /\ dirty # {} => \E t \in Threads : pc[t] \in {"ask", "list", "clear"}

\* Without an overlap a thread that is about to write the contact list has the
\* list as it is, and with nobody saving it is stored.
SavePromised ==
  ~stale =>
    /\ \A t \in Threads : pc[t] = "commit" => local[t].copy = contacts
    /\ ContactsStored

IInv == TypeOK /\ LocalsSet /\ FlushPromised /\ SavePromised

-----------------------------------------------------------------------------
\* Appending to a history keeps it within its cap.
LEMMA CappedFacts ==
  ASSUME NEW S, NEW list \in ListsOver(S), NEW x \in S
  PROVE  Capped(Append(list, x)) \in ListsOver(S)
<1>1. list \in Seq(S) /\ Len(list) \in Nat /\ Len(list) <= MAX_MESSAGES
  BY DEF ListsOver
<1>2. /\ Append(list, x) \in Seq(S)
      /\ Len(Append(list, x)) = Len(list) + 1
  BY <1>1
<1>3. CASE Len(Append(list, x)) > MAX_MESSAGES
  <2>1. Append(list, x) # <<>>
    BY <1>1, <1>2
  <2>2. /\ Tail(Append(list, x)) \in Seq(S)
        /\ Len(Tail(Append(list, x))) = Len(Append(list, x)) - 1
    BY <1>2, <2>1
  <2> QED
    BY <1>1, <1>2, <1>3, <2>2 DEF Capped, ListsOver
<1>4. CASE ~(Len(Append(list, x)) > MAX_MESSAGES)
  BY <1>1, <1>2, <1>4, StoreAssumption DEF Capped, ListsOver
<1> QED
  BY <1>3, <1>4

\* The empty list is one.
LEMMA EmptyFacts ==
  ASSUME NEW S
  PROVE  <<>> \in ListsOver(S)
BY StoreAssumption, EmptySeq DEF ListsOver

\* A list made position by position from another is a list of the same length.
LEMMA MapFacts ==
  ASSUME NEW S, NEW T, NEW list \in ListsOver(S), NEW f,
         f \in [1..Len(list) -> T]
  PROVE  f \in ListsOver(T)
<1>1. Len(list) \in Nat /\ Len(list) <= MAX_MESSAGES
  BY DEF ListsOver
<1>2. f \in Seq(T) /\ Len(f) = Len(list)
  BY <1>1, IsASeq
<1> QED
  BY <1>1, <1>2 DEF ListsOver

LEMMA WrittenFacts ==
  ASSUME TypeOK, NEW list \in ListsOver(Numbers)
  PROVE  Written(list) \in ListsOver(Numbers \X Marks)
<1>1. Len(list) \in Nat /\ \A k \in 1..Len(list) : list[k] \in Numbers
  BY DEF ListsOver
<1>2. \A k \in 1..Len(list) : <<list[k], marks[list[k]]>> \in Numbers \X Marks
  BY <1>1 DEF TypeOK
<1>3. Written(list) \in [1..Len(list) -> Numbers \X Marks]
  BY <1>2 DEF Written
<1> QED
  BY <1>3, MapFacts

LEMMA ShownFacts ==
  ASSUME TypeOK, NEW p \in Pubkeys
  PROVE  /\ Shown(p) \in ListsOver(Numbers)
         /\ Stored(p) \in ListsOver(Numbers \X Marks)
BY EmptyFacts DEF TypeOK, Shown, Stored

\* What a restart loads.
LEMMA LoadedFacts ==
  ASSUME TypeOK
  PROVE  /\ \A p \in Pubkeys : LoadedList(p) \in ListsOver(Numbers) \cup {NoList}
         /\ \A i \in Numbers : LoadedMark(i) \in Marks
<1>1. ASSUME NEW p \in Pubkeys
      PROVE  /\ \A k \in DOMAIN Stored(p) : Stored(p)[k] \in Numbers \X Marks
             /\ DOMAIN Stored(p) = 1..Len(Stored(p))
  BY ShownFacts DEF ListsOver
<1>2. ASSUME NEW p \in Pubkeys
      PROVE  LoadedList(p) \in ListsOver(Numbers) \cup {NoList}
  <2> DEFINE list == [k \in 1..Len(Stored(p)) |-> Stored(p)[k][1]]
  <2>1. list \in [1..Len(Stored(p)) -> Numbers]
    BY <1>1
  <2>2. list \in ListsOver(Numbers)
    BY <2>1, ShownFacts, MapFacts
  <2> QED
    BY <2>2 DEF LoadedList
<1>3. ASSUME NEW i \in Numbers
      PROVE  LoadedMark(i) \in Marks
  <2> DEFINE stored == UNION {{Stored(p)[k] : k \in DOMAIN Stored(p)} : p \in Pubkeys}
             of_i   == {e \in stored : e[1] = i}
  <2>1. of_i \subseteq Numbers \X Marks
    BY <1>1
  <2>2. of_i # {} => (CHOOSE e \in of_i : TRUE) \in of_i
    OBVIOUS
  <2>3. marks[i] \in Marks
    BY DEF TypeOK
  <2>4. LoadedMark(i) = IF of_i = {} THEN marks[i] ELSE (CHOOSE e \in of_i : TRUE)[2]
    BY DEF LoadedMark
  <2> HIDE DEF of_i, stored
  <2> QED
    BY <2>1, <2>2, <2>3, <2>4
<1> QED
  BY <1>2, <1>3

-----------------------------------------------------------------------------
(* Type correctness.                                                       *)

LocalTypes ==
  /\ pc \in [Threads -> Pcs]
  /\ local \in [Threads -> Locals]
  /\ LocalsSet

\* What a thread must have to be at a label.
Equipped(label, mine) ==
  /\ label \in {"append", "mark", "put", "forget", "erase"} => mine.pub \in Pubkeys
  /\ label = "append" => mine.msg \in Numbers
  /\ label = "commit" => mine.copy \in ContactLists

\* One thread goes to a label with local variables that fit it.
LEMMA MoveFacts ==
  ASSUME LocalTypes, NEW t \in Threads, NEW label \in Pcs, NEW mine \in Locals,
         Equipped(label, mine), Goto(t, label), local' = [local EXCEPT ![t] = mine]
  PROVE  LocalTypes'
BY DEF LocalTypes, LocalsSet, Equipped, Goto

\* The same with its local variables left alone.
LEMMA GotoFacts ==
  ASSUME LocalTypes, NEW t \in Threads, NEW label \in Pcs,
         Equipped(label, local[t]), Goto(t, label), UNCHANGED local
  PROVE  LocalTypes'
BY DEF LocalTypes, LocalsSet, Equipped, Goto

LEMMA NoLocalsFacts == NoLocals \in Locals
BY DEF NoLocals, Locals

LEMMA ReturnFacts ==
  ASSUME LocalTypes, NEW t \in Threads, Return(t)
  PROVE  LocalTypes'
<1>1. /\ "gone" \in Pcs /\ "rest" \in Pcs
      /\ Equipped("gone", NoLocals) /\ Equipped("rest", NoLocals)
  BY DEF Pcs, Equipped
<1> QED
  BY <1>1, MoveFacts, NoLocalsFacts DEF Return

LEMMA ContinueFacts ==
  ASSUME LocalTypes, NEW t \in Threads, NEW todo \in SUBSET Pubkeys, Continue(t, todo)
  PROVE  LocalTypes'
<1>1. CASE todo = {}
  BY <1>1, ReturnFacts DEF Continue
<1>2. CASE todo # {}
  <2> DEFINE mine == [local[t] EXCEPT !.todo = todo, !.pub = Nothing, !.held = Nothing]
  <2>1. mine \in Locals
    BY DEF LocalTypes, Locals
  <2>2. Goto(t, "flush") /\ local' = [local EXCEPT ![t] = mine]
    BY <1>2 DEF Continue, LocalTypes
  <2>3. "flush" \in Pcs /\ Equipped("flush", mine)
    BY DEF Pcs, Equipped
  <2> QED
    BY <2>1, <2>2, <2>3, MoveFacts
<1> QED
  BY <1>1, <1>2

LEMMA ListFacts ==
  ASSUME LocalTypes, dirty \subseteq Pubkeys, NEW t \in Threads, List(t)
  PROVE  LocalTypes'
<1>1. CASE dirty = {}
  BY <1>1, ReturnFacts DEF List
<1>2. CASE dirty # {}
  <2> DEFINE mine == [local[t] EXCEPT !.todo = dirty]
  <2>1. mine \in Locals
    BY DEF LocalTypes, Locals
  <2>2. Goto(t, "clear") /\ local' = [local EXCEPT ![t] = mine]
    BY <1>2 DEF List, LocalTypes
  <2>3. "clear" \in Pcs /\ Equipped("clear", mine)
    BY DEF Pcs, Equipped
  <2> QED
    BY <2>1, <2>2, <2>3, MoveFacts
<1> QED
  BY <1>1, <1>2

LEMMA SavedContactsFacts ==
  ASSUME LocalTypes, NEW t \in Threads, SavedContacts(t)
  PROVE  LocalTypes'
<1>1. CASE local[t].pub = Nothing
  BY <1>1, ReturnFacts DEF SavedContacts
<1>2. CASE local[t].pub # Nothing
  <2> DEFINE mine == [local[t] EXCEPT !.copy = Nothing]
  <2>1. mine \in Locals /\ mine.pub \in Pubkeys
    BY <1>2 DEF LocalTypes, Locals
  <2>2. Goto(t, "forget") /\ local' = [local EXCEPT ![t] = mine]
    BY <1>2 DEF SavedContacts, LocalTypes
  <2>3. "forget" \in Pcs /\ Equipped("forget", mine)
    BY <2>1 DEF Pcs, Equipped
  <2> QED
    BY <2>1, <2>2, <2>3, MoveFacts
<1> QED
  BY <1>1, <1>2

DataTypes ==
  /\ contacts \in ContactLists
  /\ history \in [Pubkeys -> ListsOver(Numbers) \cup {NoList}]
  /\ marks \in [Numbers -> Marks]
  /\ awaiting \subseteq Pubkeys \X Numbers
  /\ dirty \subseteq Pubkeys
  /\ running \in BOOLEAN /\ workerRunning \in BOOLEAN
  /\ storedContacts \in ContactLists
  /\ storedHistory \in [Pubkeys -> ListsOver(Numbers \X Marks) \cup {NoList}]
  /\ orphaned \subseteq Pubkeys /\ lost \subseteq Pubkeys /\ stale \in BOOLEAN

LEMMA TypeParts ==
  TypeOK /\ LocalsSet <=> DataTypes /\ LocalTypes /\ events \in 0..EVENTS
BY DEF TypeOK, DataTypes, LocalTypes

\* _save_contacts and the way through a flush keep the types.
LEMMA SaveTypes ==
  ASSUME TypeOK, LocalsSet, NEW t \in Threads, Save(t)
  PROVE  DataTypes' /\ LocalTypes'
<1>0. DataTypes /\ LocalTypes
  BY TypeParts
<1>1. CASE SaveContacts(t)
  <2> DEFINE mine == [local[t] EXCEPT !.copy = contacts]
  <2>1. /\ mine \in Locals /\ "commit" \in Pcs
        /\ Equipped("commit", mine)
    BY <1>0 DEF LocalTypes, DataTypes, Locals, Pcs, Equipped
  <2>2. Goto(t, "commit") /\ local' = [local EXCEPT ![t] = mine]
    BY <1>0, <1>1 DEF SaveContacts, LocalTypes
  <2>3. LocalTypes'
    BY <1>0, <2>1, <2>2, MoveFacts
  <2>4. DataTypes'
    BY <1>0, <1>1 DEF SaveContacts, DataTypes, ramVars, flagVars, storedVars, ghostVars
  <2> QED
    BY <2>3, <2>4
<1>2. CASE CommitContacts(t)
  <2>1. local[t].copy \in ContactLists
    BY <1>0, <1>2 DEF CommitContacts, SavedContacts, LocalTypes, LocalsSet
  <2>2. LocalTypes'
    BY <1>0, <1>2, SavedContactsFacts DEF CommitContacts
  <2>3. DataTypes'
    BY <1>0, <1>2, <2>1 DEF CommitContacts, SavedContacts, DataTypes, ramVars, flagVars
  <2> QED
    BY <2>2, <2>3
<1>3. CASE SaveHistory(t)
  <2>1. local[t].pub \in Pubkeys
    BY <1>0, <1>3 DEF SaveHistory, LocalTypes, LocalsSet
  <2>2. DataTypes'
    BY <1>0, <1>3, <2>1
    DEF SaveHistory, DataTypes, flagVars, storedVars, ghostVars
  <2>3. CASE IsContact(local[t].pub)
    <3> DEFINE mine == [local[t] EXCEPT !.pub = Nothing]
    <3>1. /\ mine \in Locals /\ "ask" \in Pcs
          /\ Equipped("ask", mine)
      BY <1>0 DEF LocalTypes, Locals, Pcs, Equipped
    <3>2. Goto(t, "ask") /\ local' = [local EXCEPT ![t] = mine]
      BY <1>0, <1>3, <2>3 DEF SaveHistory, LocalTypes
    <3> QED
      BY <1>0, <2>2, <3>1, <3>2, MoveFacts
  <2>4. CASE ~IsContact(local[t].pub)
    BY <1>0, <1>3, <2>2, <2>4, ReturnFacts DEF SaveHistory
  <2> QED
    BY <2>3, <2>4
<1>4. CASE AskForWorker(t)
  <2>1. DataTypes'
    BY <1>0, <1>4 DEF AskForWorker, DataTypes, ramVars, flagVars, storedVars, ghostVars
  <2>2. "list" \in Pcs /\ Equipped("list", local[t])
    BY DEF Pcs, Equipped
  <2>3. LocalTypes'
    BY <1>0, <1>4, <2>2, ReturnFacts, GotoFacts DEF AskForWorker
  <2> QED
    BY <2>1, <2>3
<1>5. CASE FlushList(t)
  <2>1. DataTypes'
    BY <1>0, <1>5 DEF FlushList, List, DataTypes, ramVars, flagVars, storedVars, ghostVars
  <2>2. LocalTypes'
    BY <1>0, <1>5, ListFacts DEF FlushList, DataTypes
  <2> QED
    BY <2>1, <2>2
<1>6. CASE FlushClear(t)
  <2>1. DataTypes'
    BY <1>0, <1>6 DEF FlushClear, DataTypes, flagVars, storedVars
  <2>2. "flush" \in Pcs /\ Equipped("flush", local[t])
    BY DEF Pcs, Equipped
  <2>3. LocalTypes'
    BY <1>0, <1>6, <2>2, GotoFacts DEF FlushClear
  <2> QED
    BY <2>1, <2>3
<1>7. CASE FlushNext(t)
  <2>1. DataTypes'
    BY <1>0, <1>7 DEF FlushNext, DataTypes, ramVars, flagVars, storedVars, ghostVars
  <2>2. local[t].todo \subseteq Pubkeys
    BY <1>0 DEF LocalTypes, Locals
  <2>3. PICK p \in local[t].todo :
          IF IsContact(p)
          THEN /\ Goto(t, "put")
               /\ local' = [local EXCEPT ![t].todo = @ \ {p}, ![t].pub = p]
          ELSE Continue(t, local[t].todo \ {p})
    BY <1>7 DEF FlushNext
  <2>4. CASE IsContact(p)
    <3> DEFINE mine == [local[t] EXCEPT !.todo = @ \ {p}, !.pub = p]
    <3>1. /\ mine \in Locals /\ "put" \in Pcs
          /\ Equipped("put", mine)
      BY <1>0, <2>2 DEF LocalTypes, Locals, Pcs, Equipped
    <3>2. Goto(t, "put") /\ local' = [local EXCEPT ![t] = mine]
      BY <1>0, <2>3, <2>4 DEF LocalTypes
    <3> QED
      BY <1>0, <2>1, <3>1, <3>2, MoveFacts
  <2>5. CASE ~IsContact(p)
    BY <1>0, <2>1, <2>2, <2>3, <2>5, ContinueFacts
  <2> QED
    BY <2>4, <2>5
<1>8. CASE FlushCommit(t)
  <2>1. local[t].pub \in Pubkeys /\ local[t] \in Locals
    BY <1>0, <1>8 DEF FlushCommit, LocalTypes, LocalsSet
  <2> DEFINE list == IF local[t].held = Nothing THEN Shown(local[t].pub) ELSE local[t].held
  <2>2. list \in ListsOver(Numbers)
    BY <2>1, ShownFacts DEF Locals
  <2>3. Written(list) \in ListsOver(Numbers \X Marks)
    BY <2>2, WrittenFacts
  <2>4. /\ storedHistory' = [storedHistory EXCEPT ![local[t].pub] = Written(list)]
        /\ lost' \subseteq lost
    BY <1>8 DEF FlushCommit
  <2> HIDE DEF list
  <2>5. DataTypes'
    BY <1>0, <1>8, <2>3, <2>4, ZenonT(30) DEF FlushCommit, DataTypes, ramVars, flagVars
  <2>6. LocalTypes'
    BY <1>0, <1>8, <2>1, ContinueFacts DEF FlushCommit, Locals
  <2> QED
    BY <2>5, <2>6
<1> QED
  BY <1>1, <1>2, <1>3, <1>4, <1>5, <1>6, <1>7, <1>8 DEF Save

\* Messages that come and go keep the types.
LEMMA MessageTypes ==
  ASSUME TypeOK, LocalsSet, NEW t \in Threads, Message(t)
  PROVE  DataTypes' /\ LocalTypes'
<1>0. DataTypes /\ LocalTypes
  BY TypeParts
<1>1. ASSUME NEW p \in Pubkeys, NEW i \in Numbers, NEW mark \in Marks,
             Begin(t, p, i, mark), awaiting' \subseteq Pubkeys \X Numbers
      PROVE  DataTypes' /\ LocalTypes'
  <2> DEFINE mine == [local[t] EXCEPT !.pub = p, !.msg = i]
  <2>1. /\ mine \in Locals /\ "append" \in Pcs
        /\ Equipped("append", mine)
    BY <1>0 DEF LocalTypes, Locals, Pcs, Equipped
  <2>2. Goto(t, "append") /\ local' = [local EXCEPT ![t] = mine]
    BY <1>0, <1>1 DEF Begin, LocalTypes
  <2>3. LocalTypes'
    BY <1>0, <2>1, <2>2, MoveFacts
  <2>4. DataTypes'
    BY <1>0, <1>1 DEF Begin, DataTypes, flagVars, storedVars, ghostVars
  <2> QED
    BY <2>3, <2>4
<1>2. ASSUME NEW p \in Pubkeys, NEW i \in Numbers, NEW mark \in Marks,
             Mark(t, p, i, mark), awaiting' \subseteq Pubkeys \X Numbers
      PROVE  DataTypes' /\ LocalTypes'
  <2> DEFINE mine == [local[t] EXCEPT !.pub = p]
  <2>1. /\ mine \in Locals /\ "mark" \in Pcs
        /\ Equipped("mark", mine)
    BY <1>0 DEF LocalTypes, Locals, Pcs, Equipped
  <2>2. Goto(t, "mark") /\ local' = [local EXCEPT ![t] = mine]
    BY <1>0, <1>2 DEF Mark, LocalTypes
  <2>3. LocalTypes'
    BY <1>0, <2>1, <2>2, MoveFacts
  <2>4. DataTypes'
    BY <1>0, <1>2 DEF Mark, DataTypes, flagVars, storedVars, ghostVars
  <2> QED
    BY <2>3, <2>4
<1>3. {"received", "sending", "failed", "delivered"} \subseteq Marks
  BY DEF Marks
<1>4. ASSUME NEW p \in Pubkeys, NEW i \in Numbers,
             SendDm(t, p, i) \/ HandleDm(t, p, i) \/ MarkDelivered(t, p, i) \/ GiveUp(t, p, i)
      PROVE  DataTypes' /\ LocalTypes'
  <2>1. awaiting' \subseteq Pubkeys \X Numbers
    BY <1>0, <1>4 DEF DataTypes, SendDm, HandleDm, MarkDelivered, GiveUp
  <2> QED
    BY <1>1, <1>2, <1>3, <1>4, <2>1 DEF SendDm, HandleDm, MarkDelivered, GiveUp
<1>5. CASE AddDm(t)
  <2> DEFINE p == local[t].pub
             list == Capped(Append(Shown(p), local[t].msg))
  <2>1. p \in Pubkeys /\ local[t].msg \in Numbers
    BY <1>0, <1>5 DEF AddDm, LocalTypes, LocalsSet
  <2>2. list \in ListsOver(Numbers)
    BY <2>1, ShownFacts, CappedFacts
  <2>3. history' = [history EXCEPT ![p] = list]
    BY <1>5 DEF AddDm
  <2>4. "mark" \in Pcs /\ Equipped("mark", local[t])
    BY <2>1 DEF Pcs, Equipped
  <2>5. LocalTypes'
    BY <1>0, <1>5, <2>4, GotoFacts DEF AddDm
  <2> HIDE DEF p, list
  <2>6. DataTypes'
    BY <1>0, <1>5, <2>2, <2>3 DEF AddDm, DataTypes, flagVars, storedVars, ghostVars
  <2> QED
    BY <2>5, <2>6
<1> QED
  BY <1>4, <1>5 DEF Message

\* The worker's own steps keep the types.
LEMMA WorkerTypes ==
  ASSUME TypeOK, LocalsSet, NEW w \in Workers, IdleFlush(w) \/ Leave(w) \/ LowerFlag(w)
  PROVE  DataTypes' /\ LocalTypes'
<1>0. DataTypes /\ LocalTypes /\ w \in Threads
  BY TypeParts DEF Threads
<1>1. CASE IdleFlush(w)
  <2>1. DataTypes'
    BY <1>0, <1>1 DEF IdleFlush, List, DataTypes, ramVars, flagVars, storedVars, ghostVars
  <2> QED
    BY <1>0, <1>1, <2>1, ListFacts DEF IdleFlush, DataTypes
<1>2. CASE Leave(w)
  <2>1. DataTypes'
    BY <1>0, <1>2 DEF Leave, DataTypes, ramVars, flagVars, storedVars, ghostVars
  <2>2. "exit" \in Pcs /\ Equipped("exit", local[w])
    BY DEF Pcs, Equipped
  <2> QED
    BY <1>0, <1>2, <2>1, <2>2, GotoFacts DEF Leave
<1>3. CASE LowerFlag(w)
  <2> DEFINE mine == [local[w] EXCEPT !.last = TRUE]
  <2>1. /\ mine \in Locals /\ "list" \in Pcs
        /\ Equipped("list", mine)
    BY <1>0 DEF LocalTypes, Locals, Pcs, Equipped
  <2>2. Goto(w, "list") /\ local' = [local EXCEPT ![w] = mine]
    BY <1>0, <1>3 DEF LowerFlag, LocalTypes
  <2>3. LocalTypes'
    BY <1>0, <2>1, <2>2, MoveFacts
  <2>4. DataTypes'
    BY <1>0, <1>3 DEF LowerFlag, DataTypes, ramVars, storedVars, ghostVars
  <2> QED
    BY <2>3, <2>4
<1> QED
  BY <1>1, <1>2, <1>3

\* Changes of the contact list keep the types.
LEMMA ChangeTypes ==
  ASSUME TypeOK, LocalsSet, Changes
  PROVE  DataTypes' /\ LocalTypes'
<1>0. DataTypes /\ LocalTypes /\ UI \in Threads
  BY TypeParts DEF Threads
<1>1. ASSUME NEW t \in Threads PROVE "save" \in Pcs /\ Equipped("save", local[t])
  BY DEF Pcs, Equipped
<1>2. ASSUME NEW p \in Pubkeys, AddContact(p)
      PROVE  DataTypes' /\ LocalTypes'
  <2>1. Shown(p) \in ListsOver(Numbers)
    BY ShownFacts
  <2>2. LocalTypes'
    BY <1>0, <1>1, <1>2, GotoFacts DEF AddContact
  <2>3. contacts' \in ContactLists /\ stale' \in BOOLEAN
    BY <1>0, <1>2 DEF AddContact, DataTypes, ContactLists
  <2>4. DataTypes'
    BY <1>0, <1>2, <2>1, <2>3 DEF AddContact, DataTypes, flagVars, storedVars
  <2> QED
    BY <2>2, <2>4
<1>3. ASSUME NEW w \in Workers, NEW p \in Pubkeys, ChangeContact(w, p)
      PROVE  DataTypes' /\ LocalTypes'
  <2>1. w \in Threads
    BY DEF Threads
  <2>2. LocalTypes'
    BY <1>0, <1>1, <1>3, <2>1, GotoFacts DEF ChangeContact
  <2>3. contacts' \in ContactLists /\ stale' \in BOOLEAN
    BY <1>0, <1>3 DEF ChangeContact, DataTypes, ContactLists
  <2>4. DataTypes'
    BY <1>0, <1>3, <2>3 DEF ChangeContact, DataTypes, flagVars, storedVars
  <2> QED
    BY <2>2, <2>4
<1>4. ASSUME NEW p \in Pubkeys, RemoveContact(p)
      PROVE  DataTypes' /\ LocalTypes'
  <2>1. Shown(p) \in ListsOver(Numbers)
    BY ShownFacts
  <2>2. contacts' \in ContactLists /\ stale' \in BOOLEAN
    BY <1>0, <1>4 DEF RemoveContact, DataTypes, ContactLists
  <2>3. DataTypes'
    BY <1>0, <1>4, <2>2 DEF RemoveContact, DataTypes, flagVars, storedVars
  <2>4. ASSUME NEW t \in Threads
        PROVE  /\ local'[t] \in Locals
               /\ t # UI => local'[t].pub = local[t].pub
               /\ local'[t].msg = local[t].msg /\ local'[t].copy = local[t].copy
    <3>1. local[t] \in Locals
      BY <1>0 DEF LocalTypes
    <3>2. local'[t] = IF t = UI THEN [local[UI] EXCEPT !.pub = p] ELSE KeepsHolding(t, p)
      BY <1>4 DEF RemoveContact
    <3>3. CASE t = UI
      BY <3>1, <3>2, <3>3 DEF Locals
    <3>4. CASE t # UI
      BY <2>1, <3>1, <3>2, <3>4 DEF Locals, KeepsHolding
    <3> QED
      BY <3>3, <3>4
  <2>5. local' \in [Threads -> Locals]
    BY <1>4, <2>4 DEF RemoveContact
  <2>6. pc' = [pc EXCEPT ![UI] = "save"]
    BY <1>4 DEF RemoveContact, Goto
  <2>7. pc' \in [Threads -> Pcs] /\ pc'[UI] = "save" /\ \A t \in Threads \ {UI} : pc'[t] = pc[t]
    BY <1>0, <1>1, <2>6 DEF LocalTypes
  <2>8. LocalsSet'
    BY <1>0, <2>4, <2>7 DEF LocalsSet, LocalTypes
  <2> QED
    BY <2>3, <2>5, <2>7, <2>8 DEF LocalTypes
<1> QED
  BY <1>2, <1>3, <1>4 DEF Changes

\* What else the user interface thread does keeps the types.
LEMMA UserTypes ==
  ASSUME TypeOK, LocalsSet,
         ForgetMark \/ DeleteHistory \/ Raise \/ EnsureWorker \/ Switches
  PROVE  DataTypes' /\ LocalTypes'
<1>0. DataTypes /\ LocalTypes /\ UI \in Threads
  BY TypeParts DEF Threads
<1>1. CASE ForgetMark
  <2>1. DataTypes'
    BY <1>0, <1>1 DEF ForgetMark, DataTypes, flagVars, storedVars, ghostVars
  <2>2. "erase" \in Pcs /\ Equipped("erase", local[UI])
    BY <1>0, <1>1 DEF ForgetMark, LocalTypes, LocalsSet, Pcs, Equipped
  <2> QED
    BY <1>0, <1>1, <2>1, <2>2, GotoFacts DEF ForgetMark
<1>2. CASE DeleteHistory
  <2>1. DataTypes'
    BY <1>0, <1>2 DEF DeleteHistory, DataTypes, ramVars, flagVars, ghostVars
  <2> QED
    BY <1>0, <1>2, <2>1, ReturnFacts DEF DeleteHistory
<1>3. CASE Raise \/ Start \/ Restart \/ Stop
  <2>1. DataTypes'
    BY <1>0, <1>3
    DEF Raise, Start, Restart, Stop, DataTypes, ramVars, storedVars, ghostVars
  <2>2. ASSUME NEW label \in {"start", "raise", "list"}
        PROVE  label \in Pcs /\ Equipped(label, local[UI])
    BY DEF Pcs, Equipped
  <2>3. UNCHANGED local /\ \E label \in {"start", "raise", "list"} : Goto(UI, label)
    BY <1>3 DEF Raise, Start, Restart, Stop
  <2> QED
    BY <1>0, <2>1, <2>2, <2>3, GotoFacts
<1>4. CASE EnsureWorker
  <2>1. DataTypes'
    BY <1>0, <1>4 DEF EnsureWorker, DataTypes, ramVars, storedVars, ghostVars
  <2>2. UNCHANGED local
    BY <1>4 DEF EnsureWorker
  <2>3. /\ pc' \in [Threads -> Pcs]
        /\ \A t \in Threads : pc'[t] \in {pc[t], "rest"}
    BY <1>0, <1>4 DEF EnsureWorker, Goto, LocalTypes, Pcs
  <2>4. LocalsSet'
    BY <1>0, <2>2, <2>3 DEF LocalTypes, LocalsSet
  <2> QED
    BY <1>0, <2>1, <2>2, <2>3, <2>4 DEF LocalTypes
<1>5. CASE RadioInitFails
  BY <1>0, <1>5
  DEF RadioInitFails, DataTypes, LocalTypes, LocalsSet, ramVars, storedVars, ghostVars
<1> QED
  BY <1>1, <1>2, <1>3, <1>4, <1>5 DEF Switches

\* Commits that fail and restarts keep the types.
LEMMA FailureTypes ==
  ASSUME TypeOK, LocalsSet, Failures \/ Reboot
  PROVE  DataTypes' /\ LocalTypes'
<1>0. DataTypes /\ LocalTypes /\ UI \in Threads
  BY TypeParts DEF Threads
<1>1. ASSUME NEW t \in Threads, CommitContactsFails(t)
      PROVE  DataTypes' /\ LocalTypes'
  <2>1. DataTypes'
    BY <1>0, <1>1 DEF CommitContactsFails, SavedContacts, DataTypes, ramVars, flagVars
  <2> QED
    BY <1>0, <1>1, <2>1, SavedContactsFacts DEF CommitContactsFails
<1>2. ASSUME NEW t \in Threads, FlushCommitFails(t)
      PROVE  DataTypes' /\ LocalTypes'
  <2>1. local[t].pub \in Pubkeys /\ local[t].todo \in SUBSET Pubkeys
    BY <1>0, <1>2 DEF FlushCommitFails, LocalTypes, LocalsSet, Locals
  <2>2. DataTypes'
    BY <1>0, <1>2, <2>1 DEF FlushCommitFails, DataTypes, ramVars, flagVars, storedVars
  <2> QED
    BY <1>0, <1>2, <2>1, <2>2, ContinueFacts DEF FlushCommitFails
<1>3. CASE DeleteHistoryFails
  <2>1. DataTypes'
    BY <1>0, <1>3
    DEF DeleteHistoryFails, DataTypes, ramVars, flagVars, storedVars, ghostVars
  <2> QED
    BY <1>0, <1>3, <2>1, ReturnFacts DEF DeleteHistoryFails
<1>4. CASE Reboot
  <2>1. history' \in [Pubkeys -> ListsOver(Numbers) \cup {NoList}] /\ marks' \in [Numbers -> Marks]
    BY <1>4, LoadedFacts DEF Reboot
  <2>2. DataTypes'
    BY <1>0, <1>4, <2>1 DEF Reboot, DataTypes, storedVars
  <2>3. AtRest \in [Threads -> Pcs] /\ \A t \in Threads : AtRest[t] \in {"gone", "rest"}
    BY DEF AtRest, Pcs
  <2>4. /\ pc' = AtRest
        /\ local' \in [Threads -> Locals]
    BY <1>4, NoLocalsFacts DEF Reboot
  <2> QED
    BY <2>2, <2>3, <2>4 DEF LocalTypes, LocalsSet
<1> QED
  BY <1>1, <1>2, <1>3, <1>4 DEF Failures

-----------------------------------------------------------------------------
(* Where the calls of one thread take it. *)

OnlyMoves(t, labels) ==
  /\ pc'[t] \in labels
  /\ \A u \in Threads \ {t} : pc'[u] = pc[u] /\ local'[u] = local[u]

LEMMA GotoMoves ==
  ASSUME LocalTypes, NEW t \in Threads, NEW label, Goto(t, label),
         \A u \in Threads \ {t} : local'[u] = local[u]
  PROVE  OnlyMoves(t, {label})
BY DEF LocalTypes, Goto, OnlyMoves

LEMMA ReturnMoves ==
  ASSUME LocalTypes, NEW t \in Threads, Return(t)
  PROVE  OnlyMoves(t, {"gone", "rest"})
BY DEF LocalTypes, Goto, Return, OnlyMoves

LEMMA ContinueMoves ==
  ASSUME LocalTypes, NEW t \in Threads, NEW todo, Continue(t, todo)
  PROVE  OnlyMoves(t, {"gone", "rest", "flush"})
BY ReturnMoves DEF LocalTypes, Goto, Continue, OnlyMoves

LEMMA SavedMoves ==
  ASSUME LocalTypes, NEW t \in Threads, SavedContacts(t)
  PROVE  OnlyMoves(t, {"gone", "rest", "forget"})
BY ReturnMoves DEF LocalTypes, Goto, SavedContacts, OnlyMoves

LEMMA ListMoves ==
  ASSUME LocalTypes, NEW t \in Threads, List(t)
  PROVE  /\ dirty = {} => OnlyMoves(t, {"gone", "rest"})
         /\ dirty # {} => OnlyMoves(t, {"clear"})
BY ReturnMoves DEF LocalTypes, Goto, List, OnlyMoves

-----------------------------------------------------------------------------
(* Every mark is looked at.                                                *)

\* A thread that is not about to flush moves on, and marks nothing.
LEMMA FlushKept ==
  ASSUME FlushPromised, NEW t \in Threads, pc[t] \notin {"ask", "list", "clear"},
         \A u \in Threads \ {t} : pc'[u] = pc[u],
         dirty' \subseteq dirty, UNCHANGED workerRunning
  PROVE  FlushPromised'
BY DEF FlushPromised

LEMMA FlushSaves ==
  ASSUME IInv, NEW t \in Threads, Save(t)
  PROVE  FlushPromised'
<1>0. LocalTypes /\ FlushPromised
  BY TypeParts DEF IInv
<1>1. CASE SaveContacts(t) \/ CommitContacts(t) \/ FlushNext(t) \/ FlushCommit(t)
  <2>1. /\ pc[t] \in {"save", "commit", "flush", "put"}
        /\ UNCHANGED <<dirty, workerRunning>>
    BY <1>1
    DEF SaveContacts, CommitContacts, SavedContacts, FlushNext, FlushCommit, ramVars, flagVars
  <2>2. \A u \in Threads \ {t} : pc'[u] = pc[u]
    BY <1>0, <1>1, SavedMoves, ContinueMoves
    DEF SaveContacts, CommitContacts, FlushNext, FlushCommit, OnlyMoves, Goto, LocalTypes
  <2> QED
    BY <1>0, <2>1, <2>2, FlushKept
<1>2. CASE SaveHistory(t)
  <2>1. CASE IsContact(local[t].pub)
    <3>1. pc'[t] = "ask"
      BY <1>0, <1>2, <2>1 DEF SaveHistory, Goto, LocalTypes
    <3> QED
      BY <3>1 DEF FlushPromised
  <2>2. CASE ~IsContact(local[t].pub)
    <3>1. /\ pc[t] = "mark" /\ UNCHANGED <<dirty, workerRunning>>
          /\ OnlyMoves(t, {"gone", "rest"})
      BY <1>0, <1>2, <2>2, ReturnMoves DEF SaveHistory, flagVars
    <3> QED
      BY <1>0, <3>1, FlushKept DEF OnlyMoves
  <2> QED
    BY <2>1, <2>2
<1>3. CASE AskForWorker(t)
  <2>1. workerRunning' = workerRunning
    BY <1>3 DEF AskForWorker, flagVars
  <2>2. CASE workerRunning
    BY <2>1, <2>2 DEF FlushPromised
  <2>3. CASE ~workerRunning
    <3>1. pc'[t] = "list"
      BY <1>0, <1>3, <2>3 DEF AskForWorker, Goto, LocalTypes
    <3> QED
      BY <3>1 DEF FlushPromised
  <2> QED
    BY <2>2, <2>3
<1>4. CASE FlushList(t)
  <2>1. dirty' = dirty
    BY <1>4 DEF FlushList, List, ramVars
  <2>2. dirty # {} => pc'[t] = "clear"
    BY <1>0, <1>4, ListMoves DEF FlushList, OnlyMoves
  <2> QED
    BY <2>1, <2>2 DEF FlushPromised
<1>5. CASE FlushClear(t)
  BY <1>5 DEF FlushClear, FlushPromised
<1> QED
  BY <1>1, <1>2, <1>3, <1>4, <1>5 DEF Save

LEMMA FlushWork ==
  ASSUME IInv, Work
  PROVE  FlushPromised'
<1>0. LocalTypes /\ FlushPromised /\ UI \in Threads /\ Workers \subseteq Threads
  BY TypeParts DEF IInv, Threads
<1>1. ASSUME NEW t \in Threads, Message(t)
      PROVE  FlushPromised'
  <2>1. /\ pc[t] \in {"rest", "append"} /\ UNCHANGED <<dirty, workerRunning>>
        /\ \A u \in Threads \ {t} : pc'[u] = pc[u]
    BY <1>0, <1>1
    DEF Message, SendDm, HandleDm, Begin, MarkDelivered, GiveUp, Mark, AddDm, Goto,
        LocalTypes, flagVars
  <2> QED
    BY <1>0, <2>1, FlushKept
<1>2. ASSUME NEW w \in Workers, IdleFlush(w)
      PROVE  FlushPromised'
  <2>1. dirty' = dirty /\ pc'[w] = "clear"
    BY <1>0, <1>2, ListMoves DEF IdleFlush, List, ramVars, OnlyMoves
  <2> QED
    BY <1>0, <2>1 DEF FlushPromised
<1>3. ASSUME NEW w \in Workers, Leave(w)
      PROVE  FlushPromised'
  <2>1. /\ pc[w] = "rest" /\ UNCHANGED <<dirty, workerRunning>>
        /\ \A u \in Threads \ {w} : pc'[u] = pc[u]
    BY <1>0, <1>3 DEF Leave, Goto, LocalTypes, ramVars, flagVars
  <2> QED
    BY <1>0, <2>1, FlushKept
<1>4. ASSUME NEW w \in Workers, LowerFlag(w)
      PROVE  FlushPromised'
  <2>1. pc'[w] = "list"
    BY <1>0, <1>4 DEF LowerFlag, Goto, LocalTypes
  <2> QED
    BY <1>0, <2>1 DEF FlushPromised
<1>5. CASE ForgetMark \/ DeleteHistory \/ Raise
  <2>1. /\ pc[UI] \in {"forget", "erase", "raise"}
        /\ dirty' \subseteq dirty /\ UNCHANGED workerRunning
        /\ \A u \in Threads \ {UI} : pc'[u] = pc[u]
    BY <1>0, <1>5, ReturnMoves
    DEF ForgetMark, DeleteHistory, Raise, Goto, LocalTypes, ramVars, flagVars, OnlyMoves
  <2> QED
    BY <1>0, <2>1, FlushKept
<1>6. CASE EnsureWorker
  <2>1. workerRunning'
    BY <1>6 DEF EnsureWorker
  <2> QED
    BY <2>1 DEF FlushPromised
<1> QED
  BY <1>1, <1>2, <1>3, <1>4, <1>5, <1>6, FlushSaves DEF Work

LEMMA FlushEvents ==
  ASSUME IInv, Changes \/ Switches \/ Failures \/ Reboot
  PROVE  FlushPromised'
<1>0. LocalTypes /\ FlushPromised /\ UI \in Threads /\ Workers \subseteq Threads
  BY TypeParts DEF IInv, Threads
<1>1. ASSUME NEW p \in Pubkeys, AddContact(p) \/ RemoveContact(p)
      PROVE  FlushPromised'
  <2>1. /\ pc[UI] = "rest" /\ UNCHANGED <<dirty, workerRunning>>
        /\ \A u \in Threads \ {UI} : pc'[u] = pc[u]
    BY <1>0, <1>1 DEF AddContact, RemoveContact, Goto, LocalTypes, flagVars
  <2> QED
    BY <1>0, <2>1, FlushKept
<1>2. ASSUME NEW w \in Workers, NEW p \in Pubkeys, ChangeContact(w, p)
      PROVE  FlushPromised'
  <2>1. /\ pc[w] = "rest" /\ UNCHANGED <<dirty, workerRunning>>
        /\ \A u \in Threads \ {w} : pc'[u] = pc[u]
    BY <1>0, <1>2 DEF ChangeContact, Goto, LocalTypes, flagVars
  <2> QED
    BY <1>0, <2>1, FlushKept
<1>3. CASE Switches
  <2>1. UNCHANGED <<dirty, workerRunning>>
    BY <1>3 DEF Switches, Start, Restart, Stop, RadioInitFails, ramVars
  <2>2. CASE RadioInitFails
    BY <1>0, <2>1, <2>2 DEF RadioInitFails, FlushPromised
  <2>3. CASE ~RadioInitFails
    <3>1. /\ pc[UI] = "rest"
          /\ \A u \in Threads \ {UI} : pc'[u] = pc[u]
      BY <1>0, <1>3, <2>3 DEF Switches, Start, Restart, Stop, Goto, LocalTypes
    <3> QED
      BY <1>0, <2>1, <3>1, FlushKept
  <2> QED
    BY <2>2, <2>3
<1>4. ASSUME NEW t \in Threads, CommitContactsFails(t) \/ FlushCommitFails(t)
      PROVE  FlushPromised'
  <2>1. /\ pc[t] \in {"commit", "put"} /\ UNCHANGED <<dirty, workerRunning>>
        /\ \A u \in Threads \ {t} : pc'[u] = pc[u]
    BY <1>0, <1>4, SavedMoves, ContinueMoves
    DEF CommitContactsFails, SavedContacts, FlushCommitFails, OnlyMoves, ramVars, flagVars
  <2> QED
    BY <1>0, <2>1, FlushKept
<1>5. CASE DeleteHistoryFails
  <2>1. /\ pc[UI] = "erase" /\ UNCHANGED <<dirty, workerRunning>>
        /\ \A u \in Threads \ {UI} : pc'[u] = pc[u]
    BY <1>0, <1>5, ReturnMoves DEF DeleteHistoryFails, OnlyMoves, ramVars, flagVars
  <2> QED
    BY <1>0, <2>1, FlushKept
<1>6. CASE Reboot
  BY <1>6 DEF Reboot, FlushPromised
<1> QED
  BY <1>1, <1>2, <1>3, <1>4, <1>5, <1>6 DEF Changes, Failures

-----------------------------------------------------------------------------
(* What is saved of the contact list.                                      *)

Saving == {"save", "commit"}

\* A thread that is not saving moves on, and does not begin to.
LEMMA SaveKept ==
  ASSUME SavePromised, NEW t \in Threads, pc[t] \notin Saving, pc'[t] \notin Saving,
         \A u \in Threads \ {t} : pc'[u] = pc[u] /\ local'[u].copy = local[u].copy,
         UNCHANGED <<contacts, storedContacts, stale>>
  PROVE  SavePromised'
BY DEF SavePromised, ContactsStored, Saving

\* A thread that changes the list goes on to save it: with others on their way
\* the list counts as stale.
LEMMA SaveBegun ==
  ASSUME NEW t \in Threads, pc'[t] = "save",
         \A u \in Threads \ {t} : pc'[u] = pc[u],
         stale' = (OthersSaving(t) # {})
  PROVE  SavePromised'
BY DEF SavePromised, ContactsStored, OthersSaving

LEMMA SaveSaves ==
  ASSUME IInv, NEW t \in Threads, Save(t)
  PROVE  SavePromised'
<1>0. LocalTypes /\ SavePromised
  BY TypeParts DEF IInv
<1>1. CASE SaveContacts(t)
  <2>1. /\ pc'[t] = "commit" /\ local'[t].copy = contacts
        /\ \A u \in Threads \ {t} : pc'[u] = pc[u] /\ local'[u] = local[u]
        /\ UNCHANGED <<contacts, stale>>
    BY <1>0, <1>1 DEF SaveContacts, Goto, LocalTypes, Locals, ramVars, ghostVars
  <2> QED
    BY <1>0, <2>1 DEF SavePromised, ContactsStored
<1>2. CASE CommitContacts(t)
  <2>1. /\ pc[t] = "commit" /\ storedContacts' = local[t].copy
        /\ UNCHANGED <<contacts, stale>>
    BY <1>2 DEF CommitContacts, SavedContacts, ramVars
  <2>2. /\ pc'[t] # "commit"
        /\ \A u \in Threads \ {t} : pc'[u] = pc[u] /\ local'[u] = local[u]
    BY <1>0, <1>2, SavedMoves DEF CommitContacts, OnlyMoves
  <2> QED
    BY <1>0, <2>1, <2>2 DEF SavePromised, ContactsStored
<1>3. CASE SaveHistory(t)
  <2>1. /\ pc[t] = "mark" /\ UNCHANGED <<contacts, storedContacts, stale>>
        /\ pc'[t] \in {"ask", "gone", "rest"}
        /\ \A u \in Threads \ {t} : pc'[u] = pc[u] /\ local'[u] = local[u]
    BY <1>0, <1>3, ReturnMoves
    DEF SaveHistory, OnlyMoves, Goto, LocalTypes, storedVars, ghostVars
  <2> QED
    BY <1>0, <2>1, SaveKept DEF Saving
<1>4. CASE AskForWorker(t)
  <2>1. /\ pc[t] = "ask" /\ UNCHANGED <<contacts, storedContacts, stale>>
        /\ pc'[t] \in {"list", "gone", "rest"}
        /\ \A u \in Threads \ {t} : pc'[u] = pc[u] /\ local'[u] = local[u]
    BY <1>0, <1>4, ReturnMoves
    DEF AskForWorker, OnlyMoves, Goto, LocalTypes, ramVars, storedVars, ghostVars
  <2> QED
    BY <1>0, <2>1, SaveKept DEF Saving
<1>5. CASE FlushList(t)
  <2>1. /\ pc[t] = "list" /\ UNCHANGED <<contacts, storedContacts, stale>>
        /\ pc'[t] \in {"clear", "gone", "rest"}
        /\ \A u \in Threads \ {t} : pc'[u] = pc[u] /\ local'[u] = local[u]
    BY <1>0, <1>5, ListMoves
    DEF FlushList, List, OnlyMoves, ramVars, storedVars, ghostVars
  <2> QED
    BY <1>0, <2>1, SaveKept DEF Saving
<1>6. CASE FlushClear(t)
  <2>1. /\ pc[t] = "clear" /\ UNCHANGED <<contacts, storedContacts, stale>>
        /\ pc'[t] = "flush"
        /\ \A u \in Threads \ {t} : pc'[u] = pc[u] /\ local'[u] = local[u]
    BY <1>0, <1>6 DEF FlushClear, Goto, LocalTypes, storedVars
  <2> QED
    BY <1>0, <2>1, SaveKept DEF Saving
<1>7. CASE FlushNext(t)
  <2>1. /\ pc[t] = "flush" /\ UNCHANGED <<contacts, storedContacts, stale>>
        /\ pc'[t] \in {"put", "flush", "gone", "rest"}
        /\ \A u \in Threads \ {t} : pc'[u] = pc[u] /\ local'[u] = local[u]
    BY <1>0, <1>7, ContinueMoves
    DEF FlushNext, OnlyMoves, Goto, LocalTypes, ramVars, storedVars, ghostVars
  <2> QED
    BY <1>0, <2>1, SaveKept DEF Saving
<1>8. CASE FlushCommit(t)
  <2>1. /\ pc[t] = "put" /\ UNCHANGED <<contacts, storedContacts, stale>>
        /\ pc'[t] \in {"flush", "gone", "rest"}
        /\ \A u \in Threads \ {t} : pc'[u] = pc[u] /\ local'[u] = local[u]
    BY <1>0, <1>8, ContinueMoves DEF FlushCommit, OnlyMoves, ramVars
  <2> QED
    BY <1>0, <2>1, SaveKept DEF Saving
<1> QED
  BY <1>1, <1>2, <1>3, <1>4, <1>5, <1>6, <1>7, <1>8 DEF Save

LEMMA SaveWork ==
  ASSUME IInv, Work
  PROVE  SavePromised'
<1>0. LocalTypes /\ SavePromised /\ UI \in Threads /\ Workers \subseteq Threads
  BY TypeParts DEF IInv, Threads
<1>1. ASSUME NEW t \in Threads, Message(t)
      PROVE  SavePromised'
  <2>1. /\ pc[t] \in {"rest", "append"} /\ UNCHANGED <<contacts, storedContacts, stale>>
        /\ pc'[t] \in {"append", "mark"}
        /\ \A u \in Threads \ {t} : pc'[u] = pc[u] /\ local'[u] = local[u]
    BY <1>0, <1>1
    DEF Message, SendDm, HandleDm, Begin, MarkDelivered, GiveUp, Mark, AddDm, Goto,
        LocalTypes, storedVars, ghostVars
  <2> QED
    BY <1>0, <2>1, SaveKept DEF Saving
<1>2. ASSUME NEW w \in Workers, IdleFlush(w)
      PROVE  SavePromised'
  <2>1. /\ pc[w] = "rest" /\ UNCHANGED <<contacts, storedContacts, stale>>
        /\ pc'[w] = "clear"
        /\ \A u \in Threads \ {w} : pc'[u] = pc[u] /\ local'[u] = local[u]
    BY <1>0, <1>2, ListMoves
    DEF IdleFlush, List, OnlyMoves, ramVars, storedVars, ghostVars
  <2> QED
    BY <1>0, <2>1, SaveKept DEF Saving
<1>3. ASSUME NEW w \in Workers, Leave(w) \/ LowerFlag(w)
      PROVE  SavePromised'
  <2>1. /\ pc[w] \in {"rest", "exit"} /\ UNCHANGED <<contacts, storedContacts, stale>>
        /\ pc'[w] \in {"exit", "list"}
        /\ \A u \in Threads \ {w} : pc'[u] = pc[u] /\ local'[u] = local[u]
    BY <1>0, <1>3 DEF Leave, LowerFlag, Goto, LocalTypes, ramVars, storedVars, ghostVars
  <2> QED
    BY <1>0, <2>1, SaveKept DEF Saving
<1>4. CASE ForgetMark \/ DeleteHistory \/ Raise
  <2>1. /\ pc[UI] \in {"forget", "erase", "raise"}
        /\ UNCHANGED <<contacts, storedContacts, stale>>
        /\ pc'[UI] \in {"erase", "start", "gone", "rest"}
        /\ \A u \in Threads \ {UI} : pc'[u] = pc[u] /\ local'[u] = local[u]
    BY <1>0, <1>4, ReturnMoves
    DEF ForgetMark, DeleteHistory, Raise, Goto, LocalTypes, OnlyMoves, ramVars,
        storedVars, ghostVars
  <2> QED
    BY <1>0, <2>1, SaveKept DEF Saving
<1>5. CASE EnsureWorker
  <2>1. /\ UNCHANGED <<contacts, storedContacts, stale, local>>
        /\ \A u \in Threads : pc'[u] = pc[u] \/ {pc[u], pc'[u]} \cap Saving = {}
    BY <1>0, <1>5
    DEF EnsureWorker, Goto, LocalTypes, ramVars, storedVars, ghostVars, Saving
  <2> QED
    BY <1>0, <2>1 DEF SavePromised, ContactsStored, Saving
<1> QED
  BY <1>1, <1>2, <1>3, <1>4, <1>5, SaveSaves DEF Work

LEMMA SaveEvents ==
  ASSUME IInv, Changes \/ Switches \/ Failures \/ Reboot
  PROVE  SavePromised'
<1>0. LocalTypes /\ SavePromised /\ UI \in Threads /\ Workers \subseteq Threads
  BY TypeParts DEF IInv, Threads
<1>1. CASE Changes
  <2>1. PICK t \in Threads : /\ Goto(t, "save")
                             /\ stale' = (OthersSaving(t) # {})
    BY <1>0, <1>1 DEF Changes, AddContact, RemoveContact, ChangeContact
  <2>2. pc'[t] = "save" /\ \A u \in Threads \ {t} : pc'[u] = pc[u]
    BY <1>0, <2>1 DEF Goto, LocalTypes
  <2> QED
    BY <2>1, <2>2, SaveBegun
<1>2. CASE Switches
  <2>1. /\ UNCHANGED <<contacts, storedContacts, stale, local>>
    BY <1>2
    DEF Switches, Start, Restart, Stop, RadioInitFails, ramVars, storedVars, ghostVars
  <2>2. \A u \in Threads : pc'[u] = pc[u] \/ {pc[u], pc'[u]} \cap Saving = {}
    BY <1>0, <1>2
    DEF Switches, Start, Restart, Stop, RadioInitFails, Goto, LocalTypes, Saving
  <2> QED
    BY <1>0, <2>1, <2>2 DEF SavePromised, ContactsStored, Saving
<1>3. ASSUME NEW t \in Threads, CommitContactsFails(t)
      PROVE  SavePromised'
  BY <1>3 DEF CommitContactsFails, SavePromised
<1>4. ASSUME NEW t \in Threads, FlushCommitFails(t)
      PROVE  SavePromised'
  <2>1. /\ pc[t] = "put" /\ UNCHANGED <<contacts, storedContacts, stale>>
        /\ pc'[t] \in {"flush", "gone", "rest"}
        /\ \A u \in Threads \ {t} : pc'[u] = pc[u] /\ local'[u] = local[u]
    BY <1>0, <1>4, ContinueMoves DEF FlushCommitFails, OnlyMoves, ramVars, storedVars
  <2> QED
    BY <1>0, <2>1, SaveKept DEF Saving
<1>5. CASE DeleteHistoryFails
  <2>1. /\ pc[UI] = "erase" /\ UNCHANGED <<contacts, storedContacts, stale>>
        /\ pc'[UI] \in {"gone", "rest"}
        /\ \A u \in Threads \ {UI} : pc'[u] = pc[u] /\ local'[u] = local[u]
    BY <1>0, <1>5, ReturnMoves
    DEF DeleteHistoryFails, OnlyMoves, ramVars, storedVars, ghostVars
  <2> QED
    BY <1>0, <2>1, SaveKept DEF Saving
<1>6. CASE Reboot
  <2>1. /\ \A t \in Threads : pc'[t] \in {"gone", "rest"}
        /\ storedContacts' = contacts'
    BY <1>6 DEF Reboot, AtRest, storedVars
  <2> QED
    BY <2>1 DEF SavePromised, ContactsStored
<1> QED
  BY <1>1, <1>2, <1>3, <1>4, <1>5, <1>6 DEF Failures

-----------------------------------------------------------------------------
\* A device that is turned on for the first time has stored nothing and
\* promised nothing.
THEOREM InitIInv == Init => IInv
<1> SUFFICES ASSUME Init PROVE IInv
  OBVIOUS
<1>1. /\ AtRest \in [Threads -> Pcs] /\ NoContacts \in ContactLists
      /\ \A t \in Threads : AtRest[t] \in {"gone", "rest"}
      /\ "none" \in Marks /\ events \in 0..EVENTS
  BY StoreAssumption DEF Init, AtRest, NoContacts, ContactLists, Pcs, Marks
<1>2. TypeOK
  BY <1>1, NoLocalsFacts DEF Init, TypeOK
<1>3. LocalsSet
  BY <1>1 DEF Init, LocalsSet
<1>4. FlushPromised
  BY DEF Init, FlushPromised
<1>5. SavePromised
  BY <1>1 DEF Init, SavePromised, ContactsStored
<1> QED
  BY <1>2, <1>3, <1>4, <1>5 DEF IInv

\* Every step of the device keeps the invariant.
THEOREM NextIInv == IInv /\ [Next]_vars => IInv'
<1> SUFFICES ASSUME IInv, [Next]_vars PROVE IInv'
  OBVIOUS
<1>0. TypeOK /\ LocalsSet /\ DataTypes /\ LocalTypes /\ events \in 0..EVENTS
  BY TypeParts DEF IInv
<1>1. CASE Work /\ UNCHANGED events
  <2>1. DataTypes' /\ LocalTypes'
    BY <1>0, <1>1, SaveTypes, MessageTypes, WorkerTypes, UserTypes DEF Work
  <2>2. TypeOK' /\ LocalsSet'
    BY <1>0, <1>1, <2>1 DEF TypeOK, DataTypes, LocalTypes
  <2> QED
    BY <1>1, <2>2, FlushWork, SaveWork DEF IInv
<1>2. CASE /\ Changes \/ Switches \/ Failures \/ Reboot
           /\ events < EVENTS
           /\ events' = events + 1
  <2>1. DataTypes' /\ LocalTypes'
    BY <1>0, <1>2, ChangeTypes, UserTypes, FailureTypes
  <2>2. events' \in 0..EVENTS
    BY <1>0, <1>2, StoreAssumption
  <2>3. TypeOK' /\ LocalsSet'
    BY <2>1, <2>2 DEF TypeOK, DataTypes, LocalTypes
  <2> QED
    BY <1>2, <2>3, FlushEvents, SaveEvents DEF IInv
<1>3. CASE UNCHANGED vars
  BY <1>3
  DEF IInv, vars, ramVars, flagVars, storedVars, ghostVars, TypeOK, LocalsSet,
      FlushPromised, SavePromised, ContactsStored
<1> QED
  BY <1>1, <1>2, <1>3 DEF Next

\* The inductive invariant holds in every reachable state.
THEOREM IInvIsInvariant == Spec => []IInv
BY InitIInv, NextIInv, PTL DEF Spec

\* The variables have their types: histories never exceed their cap, whatever
\* the threads and restarts do (_add_dm, _load_contacts).
THEOREM TypeCorrect == Spec => []TypeOK
<1>1. IInv => TypeOK
  BY DEF IInv
<1> QED
  BY <1>1, IInvIsInvariant, PTL

\* With no worker and every call returned no history is left marked, for any
\* number of send threads and workers that come and go: the flag is lowered
\* before the last flush, and asked for after a mark is set.
THEOREM NothingIsLeftMarked == Spec => []OffIsFlushed
<1>1. IInv => OffIsFlushed
  BY DEF IInv, FlushPromised, OffIsFlushed, Quiet
<1> QED
  BY <1>1, IInvIsInvariant, PTL

\* The stored contact list is the one in memory once nobody is saving, unless
\* saves overlapped or failed, for any number of contacts and threads.
THEOREM ContactListIsStored == Spec => []ContactsStored
<1>1. IInv => ContactsStored
  BY DEF IInv, SavePromised, ContactsStored
<1> QED
  BY <1>1, IInvIsInvariant, PTL

-----------------------------------------------------------------------------
(* What is shown is stored, or on its way there.                           *)

InList(i, list) == \E k \in DOMAIN list : list[k] = i

\* A thread that will add the message to p's chat, or that is about to write a
\* list with it which is no longer p's.
Holds(t, p, i) ==
  /\ local[t].pub = p
  /\ \/ pc[t] = "append" /\ local[t].msg = i
     \/ local[t].held # Nothing /\ InList(i, local[t].held)

IsStored(p, i) == \E k \in DOMAIN Stored(p) : Stored(p)[k][1] = i

\* Where message i of companion p may be.
Has(p, i) ==
  \/ <<p, i>> \in awaiting
  \/ InList(i, Shown(p))
  \/ IsStored(p, i)
  \/ \E t \in Threads : Holds(t, p, i)

\* A message belongs to one companion, and has a mark.
OneOwner ==
  \A p \in Pubkeys, i \in Numbers :
    Has(p, i) => marks[i] # "none" /\ \A q \in Pubkeys : Has(q, i) => q = p

\* A stored list says one thing of a message.
StoredSound ==
  \A p \in Pubkeys : \A j, k \in DOMAIN Stored(p) :
    /\ Stored(p)[j][2] # "none"
    /\ Stored(p)[j][1] = Stored(p)[k][1] => Stored(p)[j] = Stored(p)[k]

\* Local variables are in use only where they are read again; whose list was
\* taken away under a flush, or is being deleted, was removed.
CleanAt(label, mine, removed) ==
  /\ label \in {"rest", "gone", "exit", "start", "raise"} => mine = NoLocals
  /\ mine.todo # {} => label \in {"clear", "flush", "put"}
  /\ mine.held # Nothing => label = "put" /\ mine.pub \in removed
  /\ label \in {"save", "commit", "forget", "erase"} => mine.pub \in removed \cup {Nothing}

Clean == \A t \in Threads : CleanAt(pc[t], local[t], orphaned)

\* Who is no contact, and never was removed, has no messages.
StrangersAreEmpty ==
  \A p \in Pubkeys \ orphaned :
    ~IsContact(p) =>
      /\ Shown(p) = <<>> /\ Stored(p) = <<>>
      /\ \A t \in Threads : pc[t] = "append" => local[t].pub # p

HistoryParts == OneOwner /\ StoredSound /\ Clean /\ StrangersAreEmpty /\ HistoryTracked

HistoryInv == IInv /\ HistoryParts

-----------------------------------------------------------------------------
\* The types, and what a step needs of them.
LEMMA HistoryTypes ==
  ASSUME HistoryInv
  PROVE  /\ DataTypes /\ LocalTypes /\ TypeOK
         /\ \A t \in Threads : local[t] \in Locals /\ pc[t] \in Pcs
         /\ \A p \in Pubkeys : /\ Shown(p) \in ListsOver(Numbers)
                               /\ Stored(p) \in ListsOver(Numbers \X Marks)
BY TypeParts, ShownFacts DEF HistoryInv, HistoryParts, IInv, LocalTypes

LEMMA InListFacts ==
  ASSUME NEW S, NEW list \in ListsOver(S)
  PROVE  /\ list \in Seq(S) /\ Len(list) \in Nat
         /\ DOMAIN list = 1..Len(list)
         /\ \A k \in DOMAIN list : list[k] \in S
BY DEF ListsOver

\* A message that is in a full list after another was appended was there before.
LEMMA CappedIn ==
  ASSUME NEW list \in ListsOver(Numbers), NEW x \in Numbers, NEW i,
         InList(i, Capped(Append(list, x)))
  PROVE  i = x \/ InList(i, list)
<1>1. list \in Seq(Numbers) /\ Len(list) \in Nat /\ DOMAIN list = 1..Len(list)
  BY DEF ListsOver
<1>2. PICK long : long = Append(list, x)
  OBVIOUS
<1>3. /\ long \in Seq(Numbers) /\ Len(long) = Len(list) + 1 /\ DOMAIN long = 1..(Len(list) + 1)
      /\ \A k \in 1..Len(list) : long[k] = list[k]
      /\ long[Len(list) + 1] = x
  BY <1>1, <1>2
<1>4. ASSUME NEW k \in DOMAIN long, long[k] = i
      PROVE  i = x \/ InList(i, list)
  BY <1>1, <1>3, <1>4 DEF InList
<1>5. CASE Len(long) > MAX_MESSAGES
  <2>1. InList(i, Tail(long))
    BY <1>2, <1>5 DEF Capped
  <2>2. PICK k \in DOMAIN Tail(long) : Tail(long)[k] = i
    BY <2>1 DEF InList
  <2>3. k \in 1..Len(list) /\ Tail(long)[k] = long[k + 1]
    BY <1>1, <1>3, <2>2
  <2> QED
    BY <1>1, <1>3, <1>4, <2>2, <2>3
<1>6. CASE ~(Len(long) > MAX_MESSAGES)
  BY <1>2, <1>4, <1>6 DEF Capped, InList
<1> QED
  BY <1>5, <1>6

\* What is written of a list.
LEMMA WrittenIn ==
  ASSUME NEW list \in ListsOver(Numbers)
  PROVE  /\ DOMAIN Written(list) = DOMAIN list
         /\ \A k \in DOMAIN list : Written(list)[k] = <<list[k], marks[list[k]]>>
BY DEF ListsOver, Written

LEMMA WrittenEmpty == Written(<<>>) = <<>>
BY DEF Written

-----------------------------------------------------------------------------
(* What a step leaves alone.                                               *)

\* A step that brings no message anywhere new, and takes no mark back.
LEMMA OwnerKept ==
  ASSUME OneOwner,
         \A p \in Pubkeys, i \in Numbers : Has(p, i)' => Has(p, i),
         \A i \in Numbers : marks[i] # "none" => marks'[i] # "none"
  PROVE  OneOwner'
<1>1. ASSUME NEW p \in Pubkeys, NEW i \in Numbers, Has(p, i)'
      PROVE  marks'[i] # "none" /\ \A q \in Pubkeys : Has(q, i)' => q = p
  BY <1>1 DEF OneOwner
<1> QED
  BY <1>1 DEF OneOwner

\* Where the messages are after a step of one thread.
LEMMA HasKept ==
  ASSUME NEW t \in Threads,
         \A u \in Threads \ {t} : pc'[u] = pc[u] /\ local'[u] = local[u],
         pc'[t] # "append", local'[t].held = Nothing,
         awaiting' \subseteq awaiting,
         NEW p \in Pubkeys, NEW i \in Numbers,
         InList(i, Shown(p))' => Has(p, i),
         IsStored(p, i)' => Has(p, i),
         Has(p, i)'
  PROVE  Has(p, i)
<1>1. ASSUME NEW u \in Threads, Holds(u, p, i)'
      PROVE  Holds(u, p, i)
  BY <1>1 DEF Holds, InList
<1> QED
  BY <1>1 DEF Has

LEMMA CleanKept ==
  ASSUME Clean, NEW t \in Threads,
         \A u \in Threads \ {t} : pc'[u] = pc[u] /\ local'[u] = local[u],
         orphaned \subseteq orphaned',
         CleanAt(pc'[t], local'[t], orphaned')
  PROVE  Clean'
BY DEF Clean, CleanAt

\* A step of one thread that changes neither messages nor what is stored.
LEMMA PlainStep ==
  ASSUME HistoryInv, NEW t \in Threads,
         \A u \in Threads \ {t} : pc'[u] = pc[u] /\ local'[u] = local[u],
         pc'[t] # "append", local'[t].held = Nothing,
         CleanAt(pc'[t], local'[t], orphaned),
         UNCHANGED <<contacts, history, marks, awaiting, storedHistory, orphaned>>,
         lost \subseteq lost',
         \A p \in Pubkeys \ (orphaned \cup lost') :
           IsContact(p) /\ (p \in dirty \/ Carries(t, p)) => p \in dirty' \/ Carries(t, p)'
  PROVE  HistoryParts'
<1>0. HistoryInv
  OBVIOUS
<1>1. /\ \A p \in Pubkeys : Shown(p)' = Shown(p) /\ Stored(p)' = Stored(p)
      /\ \A p \in Pubkeys : IsContact(p)' = IsContact(p)
  BY DEF Shown, Stored, IsContact
<1>2. OneOwner'
  <2>1. ASSUME NEW p \in Pubkeys, NEW i \in Numbers, Has(p, i)'
        PROVE  Has(p, i)
    <3>1. /\ InList(i, Shown(p))' => Has(p, i)
          /\ IsStored(p, i)' => Has(p, i)
      BY <1>1 DEF InList, IsStored, Has
    <3> QED
      BY <2>1, <3>1, HasKept
  <2> QED
    BY <1>0, <2>1, OwnerKept DEF HistoryInv, HistoryParts
<1>3. StoredSound'
  BY <1>0, <1>1 DEF HistoryInv, HistoryParts, StoredSound
<1>4. Clean'
  BY <1>0, CleanKept DEF HistoryInv, HistoryParts
<1>5. StrangersAreEmpty'
  BY <1>0, <1>1 DEF HistoryInv, HistoryParts, StrangersAreEmpty
<1>6. HistoryTracked'
  <2> SUFFICES ASSUME NEW p \in Pubkeys \ (orphaned' \cup lost'), IsContact(p)'
               PROVE  \/ Stored(p)' = Written(Shown(p))'
                      \/ p \in dirty'
                      \/ \E u \in Threads : Carries(u, p)'
    BY DEF HistoryTracked
  <2>1. p \notin orphaned /\ p \notin lost /\ IsContact(p)
    BY <1>1
  <2>2. CASE Stored(p) = Written(Shown(p))
    BY <1>1, <2>2 DEF Written
  <2>3. CASE p \in dirty \/ Carries(t, p)
    BY <2>1, <2>3
  <2>4. ASSUME NEW u \in Threads, Carries(u, p), u # t
        PROVE  Carries(u, p)'
    BY <2>4 DEF Carries
  <2> QED
    BY <1>0, <2>1, <2>2, <2>3, <2>4 DEF HistoryInv, HistoryParts, HistoryTracked
<1> QED
  BY <1>2, <1>3, <1>4, <1>5, <1>6 DEF HistoryParts

-----------------------------------------------------------------------------
(* The steps of that kind.                                                 *)

\* A thread that goes to a label with the local variables mine, or returns.
LEMMA GotoMine ==
  ASSUME LocalTypes, NEW t \in Threads, NEW label, Goto(t, label)
  PROVE  pc'[t] = label /\ \A u \in Threads \ {t} : pc'[u] = pc[u]
BY DEF LocalTypes, Goto

LEMMA ReturnMine ==
  ASSUME LocalTypes, NEW t \in Threads, Return(t), NEW removed
  PROVE  /\ pc'[t] \in {"gone", "rest"} /\ local'[t] = NoLocals
         /\ \A u \in Threads \ {t} : pc'[u] = pc[u] /\ local'[u] = local[u]
         /\ pc'[t] # "append" /\ local'[t].held = Nothing
         /\ CleanAt(pc'[t], local'[t], removed)
         /\ \A p \in Pubkeys : ~Carries(t, p)'
BY StoreAssumption DEF LocalTypes, Goto, Return, NoLocals, CleanAt, Carries

\* A return of a thread that carried nothing.
LEMMA PlainReturn ==
  ASSUME HistoryInv, NEW t \in Threads, Return(t),
         UNCHANGED <<contacts, history, marks, awaiting, dirty, storedHistory, orphaned>>,
         lost \subseteq lost',
         \A p \in Pubkeys \ (orphaned \cup lost') : ~(IsContact(p) /\ Carries(t, p))
  PROVE  HistoryParts'
<1>1. LocalTypes
  BY HistoryTypes
<1> QED
  BY <1>1, ReturnMine, PlainStep DEF HistoryParts

\* A thread goes elsewhere; it carried nothing, and its local variables stay.
LEMMA PlainGoto ==
  ASSUME HistoryInv, NEW t \in Threads, NEW label, Goto(t, label), UNCHANGED local,
         label \notin {"append", "put"},
         CleanAt(label, local[t], orphaned),
         UNCHANGED <<contacts, history, marks, awaiting, storedHistory, orphaned>>,
         lost \subseteq lost',
         \A p \in Pubkeys \ (orphaned \cup lost') :
           IsContact(p) /\ (p \in dirty \/ Carries(t, p)) => p \in dirty' \/ Carries(t, p)'
  PROVE  HistoryParts'
<1>1. LocalTypes /\ local[t] \in Locals
  BY HistoryTypes
<1>2. pc'[t] = label /\ \A u \in Threads \ {t} : pc'[u] = pc[u]
  BY <1>1, GotoMine
<1>3. local'[t].held = Nothing
  BY DEF CleanAt
<1> QED
  BY <1>1, <1>2, <1>3, PlainStep DEF HistoryParts

\* What a thread has after the rest of its list, or at the end of its flush.
LEMMA ContinueMine ==
  ASSUME LocalTypes, NEW t \in Threads, NEW todo \in SUBSET Pubkeys, Continue(t, todo),
         NEW removed
  PROVE  /\ \A u \in Threads \ {t} : pc'[u] = pc[u] /\ local'[u] = local[u]
         /\ pc'[t] # "append" /\ local'[t].held = Nothing
         /\ CleanAt(pc'[t], local'[t], removed)
         /\ \A p \in Pubkeys : Carries(t, p)' <=> p \in todo
<1>1. CASE todo = {}
  BY <1>1, ReturnMine DEF Continue
<1>2. CASE todo # {}
  <2>1. /\ pc'[t] = "flush"
        /\ local'[t] = [local[t] EXCEPT !.todo = todo, !.pub = Nothing, !.held = Nothing]
        /\ \A u \in Threads \ {t} : pc'[u] = pc[u] /\ local'[u] = local[u]
    BY <1>2, GotoMine DEF Continue, LocalTypes
  <2>2. /\ local'[t].todo = todo /\ local'[t].pub = Nothing /\ local'[t].held = Nothing
    BY <2>1 DEF LocalTypes, Locals
  <2> QED
    BY <2>1, <2>2 DEF CleanAt, Carries
<1> QED
  BY <1>1, <1>2

LEMMA PlainContinue ==
  ASSUME HistoryInv, NEW t \in Threads, NEW todo \in SUBSET Pubkeys, Continue(t, todo),
         UNCHANGED <<contacts, history, marks, awaiting, dirty, storedHistory, orphaned>>,
         lost \subseteq lost',
         \A p \in Pubkeys \ (orphaned \cup lost') : IsContact(p) /\ Carries(t, p) => p \in todo
  PROVE  HistoryParts'
<1>1. LocalTypes
  BY HistoryTypes
<1> QED
  BY <1>1, ContinueMine, PlainStep DEF HistoryParts

LEMMA HistSaves ==
  ASSUME HistoryInv, NEW t \in Threads,
         SaveContacts(t) \/ CommitContacts(t) \/ CommitContactsFails(t)
  PROVE  HistoryParts'
<1>0. LocalTypes /\ local[t] \in Locals /\ CleanAt(pc[t], local[t], orphaned)
  BY HistoryTypes DEF HistoryInv, HistoryParts, Clean
<1>1. CASE SaveContacts(t)
  <2>1. /\ pc[t] = "save" /\ Goto(t, "commit") /\ local' = [local EXCEPT ![t].copy = contacts]
        /\ UNCHANGED <<contacts, history, marks, awaiting, dirty, storedHistory, orphaned, lost>>
    BY <1>1 DEF SaveContacts, ramVars, storedVars, ghostVars
  <2>2. /\ pc'[t] = "commit" /\ local'[t] = [local[t] EXCEPT !.copy = contacts]
        /\ \A u \in Threads \ {t} : pc'[u] = pc[u] /\ local'[u] = local[u]
    BY <1>0, <2>1, GotoMine DEF LocalTypes
  <2>3. /\ local'[t].todo = local[t].todo /\ local'[t].held = local[t].held
        /\ local'[t].pub = local[t].pub
    BY <1>0, <2>2 DEF Locals
  <2>4. local'[t].held = Nothing /\ CleanAt(pc'[t], local'[t], orphaned)
    BY <1>0, <2>1, <2>2, <2>3 DEF CleanAt
  <2>5. \A p \in Pubkeys : ~Carries(t, p)
    BY <1>0, <2>1 DEF CleanAt, Carries
  <2> QED
    BY <2>1, <2>2, <2>4, <2>5, PlainStep DEF HistoryParts
<1>2. CASE CommitContacts(t) \/ CommitContactsFails(t)
  <2>1. /\ pc[t] = "commit"
        /\ IF local[t].pub = Nothing THEN Return(t)
           ELSE Goto(t, "forget") /\ local' = [local EXCEPT ![t].copy = Nothing]
        /\ UNCHANGED <<contacts, history, marks, awaiting, dirty, storedHistory, orphaned, lost>>
    BY <1>2 DEF CommitContacts, CommitContactsFails, SavedContacts, ramVars
  <2>5. \A p \in Pubkeys : ~Carries(t, p)
    BY <1>0, <2>1 DEF CleanAt, Carries
  <2>6. CASE local[t].pub = Nothing
    BY <2>1, <2>5, <2>6, PlainReturn
  <2>7. CASE local[t].pub # Nothing
    <3>2. /\ pc'[t] = "forget" /\ local'[t] = [local[t] EXCEPT !.copy = Nothing]
          /\ \A u \in Threads \ {t} : pc'[u] = pc[u] /\ local'[u] = local[u]
      BY <1>0, <2>1, <2>7, GotoMine DEF LocalTypes
    <3>3. /\ local'[t].todo = local[t].todo /\ local'[t].held = local[t].held
          /\ local'[t].pub = local[t].pub
      BY <1>0, <3>2 DEF Locals
    <3>4. local'[t].held = Nothing /\ CleanAt(pc'[t], local'[t], orphaned)
      BY <1>0, <2>1, <3>2, <3>3 DEF CleanAt
    <3> QED
      BY <2>1, <2>5, <3>2, <3>4, PlainStep DEF HistoryParts
  <2> QED
    BY <2>6, <2>7
<1> QED
  BY <1>1, <1>2

\* _save_history and the question for the worker.
LEMMA HistMarks ==
  ASSUME HistoryInv, NEW t \in Threads, SaveHistory(t) \/ AskForWorker(t)
  PROVE  HistoryParts'
<1>0. LocalTypes /\ local[t] \in Locals /\ CleanAt(pc[t], local[t], orphaned)
  BY HistoryTypes DEF HistoryInv, HistoryParts, Clean
<1>1. CASE SaveHistory(t)
  <2>1. /\ pc[t] = "mark"
        /\ UNCHANGED <<contacts, history, marks, awaiting, storedHistory, orphaned, lost>>
    BY <1>1 DEF SaveHistory, storedVars, ghostVars
  <2>2. \A p \in Pubkeys : Carries(t, p) => p = local[t].pub
    BY <1>0, <2>1 DEF CleanAt, Carries
  <2>3. CASE ~IsContact(local[t].pub)
    <3>1. Return(t) /\ UNCHANGED dirty
      BY <1>1, <2>3 DEF SaveHistory
    <3> QED
      BY <2>1, <2>2, <2>3, <3>1, PlainReturn
  <2>4. CASE IsContact(local[t].pub)
    <3>1. /\ Goto(t, "ask") /\ dirty' = dirty \cup {local[t].pub}
          /\ local' = [local EXCEPT ![t].pub = Nothing]
      BY <1>1, <2>4 DEF SaveHistory
    <3>2. /\ pc'[t] = "ask" /\ local'[t] = [local[t] EXCEPT !.pub = Nothing]
          /\ \A u \in Threads \ {t} : pc'[u] = pc[u] /\ local'[u] = local[u]
      BY <1>0, <3>1, GotoMine DEF LocalTypes
    <3>3. local'[t].todo = local[t].todo /\ local'[t].held = local[t].held
      BY <1>0, <3>2 DEF Locals
    <3>4. local'[t].held = Nothing /\ CleanAt(pc'[t], local'[t], orphaned)
      BY <1>0, <2>1, <3>2, <3>3 DEF CleanAt
    <3> QED
      BY <2>1, <2>2, <3>1, <3>2, <3>4, PlainStep DEF HistoryParts
  <2> QED
    BY <2>3, <2>4
<1>2. CASE AskForWorker(t)
  <2>1. /\ pc[t] = "ask"
        /\ Return(t) \/ (Goto(t, "list") /\ UNCHANGED local)
        /\ UNCHANGED <<contacts, history, marks, awaiting, dirty, storedHistory, orphaned, lost>>
    BY <1>2 DEF AskForWorker, ramVars, storedVars, ghostVars
  <2>2. \A p \in Pubkeys : ~Carries(t, p)
    BY <1>0, <2>1 DEF CleanAt, Carries
  <2>3. CleanAt("list", local[t], orphaned)
    BY <1>0, <2>1 DEF CleanAt
  <2>4. CASE Return(t)
    BY <2>1, <2>2, <2>4, PlainReturn
  <2>5. CASE Goto(t, "list") /\ UNCHANGED local
    BY <2>1, <2>2, <2>3, <2>5, PlainGoto
  <2> QED
    BY <2>1, <2>4, <2>5
<1> QED
  BY <1>1, <1>2

\* The way through a flush up to a commit, and the worker's idle flush.
LEMMA HistFlushes ==
  ASSUME HistoryInv, NEW t \in Threads,
         FlushList(t) \/ IdleFlush(t) \/ FlushClear(t) \/ FlushNext(t) \/ FlushCommitFails(t)
  PROVE  HistoryParts'
<1>0. LocalTypes /\ local[t] \in Locals /\ CleanAt(pc[t], local[t], orphaned)
  BY HistoryTypes DEF HistoryInv, HistoryParts, Clean
<1>1. CASE FlushList(t) \/ IdleFlush(t)
  <2>1. /\ pc[t] \in {"list", "rest"} /\ List(t)
        /\ UNCHANGED <<contacts, history, marks, awaiting, dirty, storedHistory, orphaned, lost>>
    BY <1>1 DEF FlushList, IdleFlush, List, ramVars, storedVars, ghostVars
  <2>2. \A p \in Pubkeys : ~Carries(t, p)
    BY <1>0, <2>1 DEF CleanAt, Carries
  <2>3. CASE dirty = {}
    BY <2>1, <2>2, <2>3, PlainReturn DEF List
  <2>4. CASE dirty # {}
    <3>1. Goto(t, "clear") /\ local' = [local EXCEPT ![t].todo = dirty]
      BY <2>1, <2>4 DEF List
    <3>2. /\ pc'[t] = "clear" /\ local'[t] = [local[t] EXCEPT !.todo = dirty]
          /\ \A u \in Threads \ {t} : pc'[u] = pc[u] /\ local'[u] = local[u]
      BY <1>0, <3>1, GotoMine DEF LocalTypes
    <3>3. local'[t].held = local[t].held
      BY <1>0, <3>2 DEF Locals
    <3>4. local'[t].held = Nothing /\ CleanAt(pc'[t], local'[t], orphaned)
      BY <1>0, <2>1, <3>2, <3>3 DEF CleanAt
    <3> QED
      BY <2>1, <2>2, <3>2, <3>4, PlainStep DEF HistoryParts
  <2> QED
    BY <2>3, <2>4
<1>2. CASE FlushClear(t)
  <2>1. /\ pc[t] = "clear" /\ Goto(t, "flush") /\ dirty' = {}
        /\ lost' = lost \cup (dirty \ local[t].todo)
        /\ UNCHANGED <<contacts, history, marks, awaiting, storedHistory, orphaned, local>>
    BY <1>2 DEF FlushClear, storedVars
  <2>2. CleanAt("flush", local[t], orphaned)
    BY <1>0, <2>1 DEF CleanAt
  <2>3. \A p \in Pubkeys : Carries(t, p) => p \in local[t].todo
    BY <1>0, <2>1 DEF CleanAt, Carries
  <2>4. \A p \in Pubkeys : p \in local[t].todo => Carries(t, p)'
    BY <2>1 DEF Carries
  <2> QED
    BY <2>1, <2>2, <2>3, <2>4, PlainGoto
<1>3. CASE FlushNext(t)
  <2>1. /\ pc[t] = "flush"
        /\ UNCHANGED <<contacts, history, marks, awaiting, dirty, storedHistory, orphaned, lost>>
    BY <1>3 DEF FlushNext, ramVars, storedVars, ghostVars
  <2>2. PICK p \in local[t].todo :
          IF IsContact(p)
          THEN /\ Goto(t, "put")
               /\ local' = [local EXCEPT ![t].todo = @ \ {p}, ![t].pub = p]
          ELSE Continue(t, local[t].todo \ {p})
    BY <1>3 DEF FlushNext
  <2>3. \A q \in Pubkeys : Carries(t, q) => q \in local[t].todo
    BY <1>0, <2>1 DEF CleanAt, Carries
  <2>4. CASE IsContact(p)
    <3>1. Goto(t, "put") /\ local' = [local EXCEPT ![t].todo = @ \ {p}, ![t].pub = p]
      BY <2>2, <2>4
    <3>2. /\ pc'[t] = "put"
          /\ local'[t] = [local[t] EXCEPT !.todo = local[t].todo \ {p}, !.pub = p]
          /\ \A u \in Threads \ {t} : pc'[u] = pc[u] /\ local'[u] = local[u]
      BY <1>0, <3>1, GotoMine DEF LocalTypes
    <3>3. /\ local'[t].held = local[t].held /\ local'[t].pub = p
          /\ local'[t].todo = local[t].todo \ {p}
      BY <1>0, <3>2 DEF Locals
    <3>4. local'[t].held = Nothing /\ CleanAt(pc'[t], local'[t], orphaned)
      BY <1>0, <2>1, <3>2, <3>3 DEF CleanAt
    <3>5. \A q \in Pubkeys : Carries(t, q) => Carries(t, q)'
      BY <2>3, <3>2, <3>3 DEF Carries
    <3> QED
      BY <2>1, <3>2, <3>4, <3>5, PlainStep DEF HistoryParts
  <2>5. CASE ~IsContact(p)
    <3>1. Continue(t, local[t].todo \ {p})
      BY <2>2, <2>5
    <3>2. local[t].todo \ {p} \in SUBSET Pubkeys
      BY <1>0 DEF Locals
    <3>3. \A q \in Pubkeys : IsContact(q) /\ Carries(t, q) => q \in local[t].todo \ {p}
      BY <2>3, <2>5
    <3> QED
      BY <2>1, <3>1, <3>2, <3>3, PlainContinue
  <2> QED
    BY <2>4, <2>5
<1>4. CASE FlushCommitFails(t)
  <2>1. /\ pc[t] = "put" /\ Continue(t, local[t].todo) /\ lost' = lost \cup {local[t].pub}
        /\ UNCHANGED <<contacts, history, marks, awaiting, dirty, storedHistory, orphaned>>
    BY <1>4 DEF FlushCommitFails, ramVars, storedVars
  <2>2. \A q \in Pubkeys : Carries(t, q) => q \in local[t].todo \cup {local[t].pub}
    BY <1>0, <2>1 DEF CleanAt, Carries
  <2>3. local[t].todo \in SUBSET Pubkeys
    BY <1>0 DEF Locals
  <2> QED
    BY <2>1, <2>2, <2>3, PlainContinue
<1> QED
  BY <1>1, <1>2, <1>3, <1>4

\* The worker's way out and the user's switches.
LEMMA HistSwitches ==
  ASSUME HistoryInv,
         \/ \E w \in Workers : Leave(w) \/ LowerFlag(w)
         \/ Raise \/ EnsureWorker \/ Switches
  PROVE  HistoryParts'
<1>0. /\ LocalTypes /\ UI \in Threads /\ Workers \subseteq Threads
      /\ \A t \in Threads : local[t] \in Locals /\ CleanAt(pc[t], local[t], orphaned)
  BY HistoryTypes DEF HistoryInv, HistoryParts, Clean, Threads
<1>1. ASSUME NEW t \in Threads, pc[t] \in {"rest", "exit", "start", "raise"}
      PROVE  /\ local[t] = NoLocals /\ \A p \in Pubkeys : ~Carries(t, p)
             /\ \A label \in {"start", "raise", "exit", "rest", "list"} :
                  CleanAt(label, local[t], orphaned)
  BY <1>0, <1>1 DEF CleanAt, Carries, NoLocals
<1>2. ASSUME NEW w \in Workers, Leave(w)
      PROVE  HistoryParts'
  <2>1. /\ pc[w] = "rest" /\ Goto(w, "exit") /\ UNCHANGED local
        /\ UNCHANGED <<contacts, history, marks, awaiting, dirty, storedHistory, orphaned, lost>>
    BY <1>2 DEF Leave, ramVars, storedVars, ghostVars
  <2> QED
    BY <1>0, <1>1, <2>1, PlainGoto
<1>3. ASSUME NEW w \in Workers, LowerFlag(w)
      PROVE  HistoryParts'
  <2>1. /\ pc[w] = "exit" /\ Goto(w, "list") /\ local' = [local EXCEPT ![w].last = TRUE]
        /\ UNCHANGED <<contacts, history, marks, awaiting, dirty, storedHistory, orphaned, lost>>
    BY <1>3 DEF LowerFlag, ramVars, storedVars, ghostVars
  <2>2. /\ pc'[w] = "list" /\ local'[w] = [local[w] EXCEPT !.last = TRUE]
        /\ \A u \in Threads \ {w} : pc'[u] = pc[u] /\ local'[u] = local[u]
    BY <1>0, <2>1, GotoMine DEF LocalTypes
  <2>3. local[w] = NoLocals /\ \A p \in Pubkeys : ~Carries(w, p)
    BY <1>0, <1>1, <2>1
  <2>4. /\ local'[w].held = Nothing /\ local'[w].todo = {}
    BY <2>2, <2>3 DEF NoLocals
  <2>5. CleanAt(pc'[w], local'[w], orphaned)
    BY <2>2, <2>4 DEF CleanAt
  <2> QED
    BY <1>0, <2>1, <2>2, <2>3, <2>4, <2>5, PlainStep DEF HistoryParts
<1>4. CASE Raise \/ Start \/ Restart \/ Stop
  <2>1. /\ pc[UI] \in {"rest", "raise"} /\ UNCHANGED local
        /\ UNCHANGED <<contacts, history, marks, awaiting, dirty, storedHistory, orphaned, lost>>
        /\ \E label \in {"start", "raise", "list"} : Goto(UI, label)
    BY <1>4 DEF Raise, Start, Restart, Stop, ramVars, storedVars, ghostVars
  <2> QED
    BY <1>0, <1>1, <2>1, PlainGoto
<1>5. CASE EnsureWorker \/ RadioInitFails
  <2>1. /\ UNCHANGED local
        /\ UNCHANGED <<contacts, history, marks, awaiting, dirty, storedHistory, orphaned, lost>>
    BY <1>5 DEF EnsureWorker, RadioInitFails, ramVars, storedVars, ghostVars
  <2>2. \A t \in Threads : pc'[t] = pc[t] \/ (pc[t] \in {"start", "gone"} /\ pc'[t] = "rest")
    BY <1>0, <1>5 DEF EnsureWorker, RadioInitFails, Goto, LocalTypes
  <2>3. /\ \A p \in Pubkeys : Shown(p)' = Shown(p) /\ Stored(p)' = Stored(p)
        /\ \A p \in Pubkeys : IsContact(p)' = IsContact(p)
    BY <2>1 DEF Shown, Stored, IsContact
  <2>4. \A t \in Threads : pc[t] # pc'[t] => local[t] = NoLocals
    BY <1>0, <2>2 DEF CleanAt
  <2>5. OneOwner'
    <3>1. ASSUME NEW p \in Pubkeys, NEW i \in Numbers, Has(p, i)'
          PROVE  Has(p, i)
      BY <2>1, <2>2, <2>3, <3>1 DEF Has, Holds, InList, IsStored
    <3> QED
      BY <2>1, <3>1, OwnerKept DEF HistoryInv, HistoryParts
  <2>6. StoredSound' /\ StrangersAreEmpty'
    BY <2>1, <2>2, <2>3 DEF HistoryInv, HistoryParts, StoredSound, StrangersAreEmpty
  <2>7. Clean'
    BY <2>1, <2>2, <2>4 DEF HistoryInv, HistoryParts, Clean, CleanAt, NoLocals
  <2>8. HistoryTracked'
    <3>1. \A t \in Threads, p \in Pubkeys : Carries(t, p) => Carries(t, p)'
      BY <2>1, <2>2, <2>4 DEF Carries, NoLocals
    <3>2. \A p \in Pubkeys : Written(Shown(p))' = Written(Shown(p))
      BY <2>1, <2>3 DEF Written
    <3> QED
      BY <2>1, <2>3, <3>1, <3>2 DEF HistoryInv, HistoryParts, HistoryTracked
  <2> QED
    BY <2>5, <2>6, <2>7, <2>8 DEF HistoryParts
<1> QED
  BY <1>2, <1>3, <1>4, <1>5 DEF Switches

\* _delete_history: of a companion who was removed.
LEMMA HistDeletes ==
  ASSUME HistoryInv, ForgetMark \/ DeleteHistory \/ DeleteHistoryFails
  PROVE  HistoryParts'
<1>0. /\ LocalTypes /\ UI \in Threads
      /\ CleanAt(pc[UI], local[UI], orphaned)
      /\ pc[UI] \in {"forget", "erase"} => local[UI].pub \in orphaned
  <2>1. LocalTypes /\ UI \in Threads /\ CleanAt(pc[UI], local[UI], orphaned)
    BY HistoryTypes DEF HistoryInv, HistoryParts, Clean, Threads
  <2> QED
    BY <2>1, StoreAssumption DEF CleanAt, LocalTypes, LocalsSet
<1>1. pc[UI] \in {"forget", "erase"} => \A p \in Pubkeys : ~Carries(UI, p)
  BY <1>0 DEF CleanAt, Carries
<1>2. CASE ForgetMark
  <2>1. /\ pc[UI] = "forget" /\ Goto(UI, "erase") /\ UNCHANGED local
        /\ dirty' = dirty \ {local[UI].pub}
        /\ UNCHANGED <<contacts, history, marks, awaiting, storedHistory, orphaned, lost>>
    BY <1>2 DEF ForgetMark, storedVars, ghostVars
  <2>2. CleanAt("erase", local[UI], orphaned)
    BY <1>0, <2>1 DEF CleanAt
  <2> QED
    BY <1>0, <1>1, <2>1, <2>2, PlainGoto
<1>3. CASE DeleteHistoryFails
  <2>1. /\ pc[UI] = "erase" /\ Return(UI)
        /\ UNCHANGED <<contacts, history, marks, awaiting, dirty, storedHistory, orphaned, lost>>
    BY <1>3 DEF DeleteHistoryFails, ramVars, storedVars, ghostVars
  <2> QED
    BY <1>0, <1>1, <2>1, PlainReturn
<1>4. CASE DeleteHistory
  <2>1. /\ pc[UI] = "erase" /\ Return(UI)
        /\ storedHistory' = [storedHistory EXCEPT ![local[UI].pub] = NoList]
        /\ UNCHANGED <<contacts, history, marks, awaiting, dirty, orphaned, lost>>
    BY <1>4 DEF DeleteHistory, ramVars, ghostVars
  <2>2. storedHistory \in [Pubkeys -> ListsOver(Numbers \X Marks) \cup {NoList}]
    BY HistoryTypes DEF DataTypes
  <2>3. /\ \A p \in Pubkeys : Shown(p)' = Shown(p) /\ (IsContact(p)' <=> IsContact(p))
        /\ \A p \in Pubkeys : Stored(p)' = Stored(p) \/ (Stored(p)' = <<>> /\ p \in orphaned)
    BY <1>0, <2>1, <2>2 DEF Shown, Stored, IsContact
  <2>4. /\ pc'[UI] \in {"gone", "rest"}
        /\ \A u \in Threads \ {UI} : pc'[u] = pc[u] /\ local'[u] = local[u]
        /\ pc'[UI] # "append" /\ local'[UI].held = Nothing
        /\ CleanAt(pc'[UI], local'[UI], orphaned)
    BY <1>0, <2>1, ReturnMine
  <2>5. OneOwner'
    <3>1. ASSUME NEW p \in Pubkeys, NEW i \in Numbers, Has(p, i)'
          PROVE  Has(p, i)
      <4>1. InList(i, Shown(p))' => Has(p, i)
        BY <2>3 DEF InList, Has
      <4>2. IsStored(p, i)' => Has(p, i)
        BY <2>3 DEF IsStored, Has
      <4> QED
        BY <1>0, <2>1, <2>4, <3>1, <4>1, <4>2, HasKept
    <3> QED
      BY <2>1, <3>1, OwnerKept DEF HistoryInv, HistoryParts
  <2>6. StoredSound' /\ StrangersAreEmpty'
    BY <2>1, <2>3, <2>4 DEF HistoryInv, HistoryParts, StoredSound, StrangersAreEmpty
  <2>7. Clean'
    BY <1>0, <2>1, <2>4, CleanKept DEF HistoryInv, HistoryParts
  <2>8. HistoryTracked'
    <3>1. \A t \in Threads, p \in Pubkeys : Carries(t, p) => Carries(t, p)'
      BY <1>1, <2>1, <2>4 DEF Carries
    <3>2. \A p \in Pubkeys : Written(Shown(p))' = Written(Shown(p))
      BY <2>1, <2>3 DEF Written
    <3> QED
      BY <2>1, <2>3, <3>1, <3>2 DEF HistoryInv, HistoryParts, HistoryTracked
  <2> QED
    BY <2>5, <2>6, <2>7, <2>8 DEF HistoryParts
<1> QED
  BY <1>2, <1>3, <1>4

-----------------------------------------------------------------------------
(* Messages.                                                               *)

\* A message that begins is nobody's yet.
LEMMA HistBegins ==
  ASSUME HistoryInv, NEW t \in Threads, NEW p \in Pubkeys, NEW i \in Numbers,
         NEW mark \in Marks \ {"none"}, Begin(t, p, i, mark),
         awaiting' \subseteq awaiting \cup {<<p, i>>}
  PROVE  HistoryParts'
<1>0. /\ LocalTypes /\ local[t] \in Locals /\ CleanAt(pc[t], local[t], orphaned)
      /\ marks \in [Numbers -> Marks]
      /\ \A q \in Pubkeys : Shown(q) \in ListsOver(Numbers)
  BY HistoryTypes DEF HistoryInv, HistoryParts, Clean, DataTypes
<1>1. /\ pc[t] = "rest" /\ IsContact(p) /\ marks[i] = "none"
      /\ marks' = [marks EXCEPT ![i] = mark]
      /\ local' = [local EXCEPT ![t].pub = p, ![t].msg = i]
      /\ Goto(t, "append")
      /\ UNCHANGED <<contacts, history, dirty, storedHistory, orphaned, lost>>
  BY DEF Begin, Unused, storedVars, ghostVars
<1>2. /\ pc'[t] = "append" /\ local[t] = NoLocals
      /\ local'[t] = [local[t] EXCEPT !.pub = p, !.msg = i]
      /\ \A u \in Threads \ {t} : pc'[u] = pc[u] /\ local'[u] = local[u]
  BY <1>0, <1>1, GotoMine DEF LocalTypes, CleanAt
<1>3. /\ local'[t].pub = p /\ local'[t].msg = i
      /\ local'[t].todo = {} /\ local'[t].held = Nothing
  BY <1>2 DEF NoLocals
<1>4. /\ \A q \in Pubkeys : Shown(q)' = Shown(q) /\ Stored(q)' = Stored(q)
      /\ \A q \in Pubkeys : IsContact(q)' <=> IsContact(q)
  BY <1>1 DEF Shown, Stored, IsContact
<1>5. \A q \in Pubkeys : ~Has(q, i)
  BY <1>1 DEF HistoryInv, HistoryParts, OneOwner
<1>6. \A j \in Numbers : marks'[j] = IF j = i THEN mark ELSE marks[j]
  BY <1>0, <1>1
<1>7. ASSUME NEW q \in Pubkeys, NEW j \in Numbers, Has(q, j)'
      PROVE  (q = p /\ j = i) \/ Has(q, j)
  <2>1. ASSUME NEW u \in Threads, Holds(u, q, j)'
        PROVE  (q = p /\ j = i) \/ Holds(u, q, j)
    BY <1>2, <1>3, <2>1 DEF Holds, InList
  <2>2. InList(j, Shown(q))' => InList(j, Shown(q))
    BY <1>4 DEF InList
  <2>3. IsStored(q, j)' => IsStored(q, j)
    BY <1>4 DEF IsStored
  <2> QED
    BY <1>7, <2>1, <2>2, <2>3 DEF Has
<1>8. OneOwner'
  <2>1. ASSUME NEW q \in Pubkeys, NEW j \in Numbers, Has(q, j)'
        PROVE  marks'[j] # "none" /\ \A r \in Pubkeys : Has(r, j)' => r = q
    <3>1. CASE j = i
      BY <1>5, <1>6, <1>7, <2>1, <3>1
    <3>2. CASE j # i
      BY <1>6, <1>7, <2>1, <3>2 DEF HistoryInv, HistoryParts, OneOwner
    <3> QED
      BY <3>1, <3>2
  <2> QED
    BY <2>1 DEF OneOwner
<1>9. StoredSound' /\ StrangersAreEmpty'
  <2>1. StoredSound'
    BY <1>4 DEF HistoryInv, HistoryParts, StoredSound
  <2>2. ASSUME NEW q \in Pubkeys \ orphaned', ~IsContact(q)'
        PROVE  /\ Shown(q)' = <<>> /\ Stored(q)' = <<>>
               /\ \A u \in Threads : pc'[u] = "append" => local'[u].pub # q
    <3>1. q # p /\ q \notin orphaned /\ ~IsContact(q)
      BY <1>1, <1>4, <2>2
    <3>2. \A u \in Threads : pc'[u] = "append" => local'[u].pub # q
      BY <1>2, <1>3, <3>1, ZenonT(30) DEF HistoryInv, HistoryParts, StrangersAreEmpty
    <3> QED
      BY <1>4, <3>1, <3>2 DEF HistoryInv, HistoryParts, StrangersAreEmpty
  <2> QED
    BY <2>1, <2>2 DEF StrangersAreEmpty
<1>10. Clean'
  <2>1. CleanAt(pc'[t], local'[t], orphaned')
    BY <1>2, <1>3 DEF CleanAt
  <2> QED
    BY <1>1, <1>2, <2>1, CleanKept DEF HistoryInv, HistoryParts
<1>11. HistoryTracked'
  <2>1. \A u \in Threads, q \in Pubkeys : Carries(u, q) => Carries(u, q)'
    <3>1. \A q \in Pubkeys : ~Carries(t, q)
      BY <1>1, <1>2 DEF Carries, NoLocals
    <3> QED
      BY <1>2, <3>1 DEF Carries
  <2>2. ASSUME NEW q \in Pubkeys
        PROVE  Written(Shown(q))' = Written(Shown(q))
    <3>1. ASSUME NEW k \in 1..Len(Shown(q))
          PROVE  marks'[Shown(q)[k]] = marks[Shown(q)[k]]
      <4>1. /\ k \in DOMAIN Shown(q) /\ Shown(q)[k] \in Numbers
        BY <1>0, <3>1, InListFacts
      <4>2. Shown(q)[k] # i
        BY <1>5, <4>1 DEF Has, InList
      <4> QED
        BY <1>6, <4>1, <4>2
    <3> QED
      BY <1>4, <3>1 DEF Written
  <2> QED
    BY <1>1, <1>4, <2>1, <2>2 DEF HistoryInv, HistoryParts, HistoryTracked
<1> QED
  BY <1>8, <1>9, <1>10, <1>11 DEF HistoryParts

\* A verdict is its owner's, whose history is then saved.
LEMMA HistVerdicts ==
  ASSUME HistoryInv, NEW t \in Threads, NEW p \in Pubkeys, NEW i \in Numbers,
         NEW mark \in Marks \ {"none"}, Mark(t, p, i, mark),
         awaiting' \subseteq awaiting
  PROVE  HistoryParts'
<1>0. /\ LocalTypes /\ local[t] \in Locals /\ CleanAt(pc[t], local[t], orphaned)
      /\ marks \in [Numbers -> Marks]
      /\ \A q \in Pubkeys : Shown(q) \in ListsOver(Numbers)
  BY HistoryTypes DEF HistoryInv, HistoryParts, Clean, DataTypes
<1>1. /\ pc[t] = "rest" /\ <<p, i>> \in awaiting
      /\ marks' = [marks EXCEPT ![i] = mark]
      /\ local' = [local EXCEPT ![t].pub = p]
      /\ Goto(t, "mark")
      /\ UNCHANGED <<contacts, history, dirty, storedHistory, orphaned, lost>>
  BY DEF Mark, storedVars, ghostVars
<1>2. /\ pc'[t] = "mark" /\ local[t] = NoLocals
      /\ local'[t] = [local[t] EXCEPT !.pub = p]
      /\ \A u \in Threads \ {t} : pc'[u] = pc[u] /\ local'[u] = local[u]
  BY <1>0, <1>1, GotoMine DEF LocalTypes, CleanAt
<1>3. local'[t].pub = p /\ local'[t].todo = {} /\ local'[t].held = Nothing
  BY <1>2 DEF NoLocals
<1>4. /\ \A q \in Pubkeys : Shown(q)' = Shown(q) /\ Stored(q)' = Stored(q)
      /\ \A q \in Pubkeys : IsContact(q)' <=> IsContact(q)
  BY <1>1 DEF Shown, Stored, IsContact
<1>5. \A q \in Pubkeys : Has(q, i) => q = p
  BY <1>1 DEF HistoryInv, HistoryParts, OneOwner, Has
<1>6. \A j \in Numbers : marks'[j] = IF j = i THEN mark ELSE marks[j]
  BY <1>0, <1>1
<1>8. OneOwner'
  <2>1. ASSUME NEW q \in Pubkeys, NEW j \in Numbers, Has(q, j)'
        PROVE  Has(q, j)
    <3>1. InList(j, Shown(q))' => Has(q, j)
      BY <1>4 DEF InList, Has
    <3>2. IsStored(q, j)' => Has(q, j)
      BY <1>4 DEF IsStored, Has
    <3> QED
      BY <1>2, <1>3, <2>1, <3>1, <3>2, HasKept
  <2> QED
    BY <1>6, <2>1, OwnerKept DEF HistoryInv, HistoryParts
<1>9. StoredSound' /\ StrangersAreEmpty'
  BY <1>1, <1>2, <1>3, <1>4 DEF HistoryInv, HistoryParts, StoredSound, StrangersAreEmpty
<1>10. Clean'
  <2>1. CleanAt(pc'[t], local'[t], orphaned')
    BY <1>2, <1>3 DEF CleanAt
  <2> QED
    BY <1>1, <1>2, <2>1, CleanKept DEF HistoryInv, HistoryParts
<1>11. HistoryTracked'
  <2>1. /\ \A u \in Threads, q \in Pubkeys : Carries(u, q) => Carries(u, q)'
        /\ Carries(t, p)'
    BY <1>1, <1>2, <1>3 DEF Carries, NoLocals
  <2>2. ASSUME NEW q \in Pubkeys \ {p}
        PROVE  Written(Shown(q))' = Written(Shown(q))
    <3>1. ASSUME NEW k \in 1..Len(Shown(q))
          PROVE  marks'[Shown(q)[k]] = marks[Shown(q)[k]]
      <4>1. /\ k \in DOMAIN Shown(q) /\ Shown(q)[k] \in Numbers
        BY <1>0, <3>1, InListFacts
      <4>2. Shown(q)[k] # i
        BY <1>5, <4>1 DEF Has, InList
      <4> QED
        BY <1>6, <4>1, <4>2
    <3> QED
      BY <1>4, <3>1 DEF Written
  <2> QED
    BY <1>1, <1>4, <2>1, <2>2 DEF HistoryInv, HistoryParts, HistoryTracked
<1> QED
  BY <1>8, <1>9, <1>10, <1>11 DEF HistoryParts

\* A message comes into its chat, which is then saved.
LEMMA HistAdds ==
  ASSUME HistoryInv, NEW t \in Threads, AddDm(t)
  PROVE  HistoryParts'
<1>0. /\ LocalTypes /\ local[t] \in Locals /\ CleanAt(pc[t], local[t], orphaned)
      /\ history \in [Pubkeys -> ListsOver(Numbers) \cup {NoList}]
      /\ \A q \in Pubkeys : Shown(q) \in ListsOver(Numbers)
  BY HistoryTypes DEF HistoryInv, HistoryParts, Clean, DataTypes
<1>2. PICK p \in Pubkeys, i \in Numbers : local[t].pub = p /\ local[t].msg = i
  BY <1>0 DEF AddDm, LocalTypes, LocalsSet
<1>1. /\ pc[t] = "append" /\ Goto(t, "mark")
      /\ history' = [history EXCEPT ![p] = Capped(Append(Shown(p), i))]
      /\ UNCHANGED <<contacts, marks, awaiting, dirty, storedHistory, orphaned, lost, local>>
  BY <1>2 DEF AddDm, storedVars, ghostVars
<1>3. /\ pc'[t] = "mark" /\ local'[t] = local[t]
      /\ \A u \in Threads \ {t} : pc'[u] = pc[u] /\ local'[u] = local[u]
  BY <1>0, <1>1, GotoMine
<1>4. local[t].held = Nothing /\ local[t].todo = {}
  BY <1>0, <1>1 DEF CleanAt
<1>5. Capped(Append(Shown(p), i)) \in ListsOver(Numbers)
  BY <1>0, <1>2, CappedFacts
<1>6. /\ Shown(p)' = Capped(Append(Shown(p), i))
      /\ \A q \in Pubkeys \ {p} : Shown(q)' = Shown(q)
      /\ \A q \in Pubkeys : Stored(q)' = Stored(q) /\ (IsContact(q)' <=> IsContact(q))
  BY <1>0, <1>1, <1>2, <1>5, ListAssumption DEF Shown, Stored, IsContact
<1>7. Holds(t, p, i)
  BY <1>1, <1>2 DEF Holds
<1>8. OneOwner'
  <2>1. ASSUME NEW q \in Pubkeys, NEW j \in Numbers, Has(q, j)'
        PROVE  Has(q, j)
    <3>1. ASSUME InList(j, Shown(q))'
          PROVE  Has(q, j)
      <4>1. CASE q = p
        <5>1. InList(j, Capped(Append(Shown(p), i)))
          BY <1>6, <3>1, <4>1 DEF InList
        <5>2. j = i \/ InList(j, Shown(p))
          BY <1>0, <1>2, <5>1, CappedIn
        <5> QED
          BY <1>7, <4>1, <5>2 DEF Has
      <4>2. CASE q # p
        BY <1>6, <3>1, <4>2 DEF InList, Has
      <4> QED
        BY <4>1, <4>2
    <3>2. IsStored(q, j)' => Has(q, j)
      BY <1>6 DEF IsStored, Has
    <3> QED
      BY <1>1, <1>3, <1>4, <2>1, <3>1, <3>2, HasKept
  <2> QED
    BY <1>1, <2>1, OwnerKept DEF HistoryInv, HistoryParts
<1>9. StoredSound'
  BY <1>6 DEF HistoryInv, HistoryParts, StoredSound
<1>10. StrangersAreEmpty'
  <2>1. p \in orphaned \/ IsContact(p)
    BY <1>1, <1>2 DEF HistoryInv, HistoryParts, StrangersAreEmpty
  <2> QED
    BY <1>1, <1>3, <1>6, <2>1 DEF HistoryInv, HistoryParts, StrangersAreEmpty
<1>11. Clean'
  <2>1. CleanAt(pc'[t], local'[t], orphaned')
    BY <1>3, <1>4 DEF CleanAt
  <2> QED
    BY <1>1, <1>3, <2>1, CleanKept DEF HistoryInv, HistoryParts
<1>12. HistoryTracked'
  <2>1. /\ \A u \in Threads, q \in Pubkeys : Carries(u, q) => Carries(u, q)'
        /\ Carries(t, p)'
    BY <1>1, <1>2, <1>3, <1>4 DEF Carries
  <2>2. \A q \in Pubkeys \ {p} : Written(Shown(q))' = Written(Shown(q))
    BY <1>1, <1>6 DEF Written
  <2> QED
    BY <1>1, <1>6, <2>1, <2>2 DEF HistoryInv, HistoryParts, HistoryTracked
<1> QED
  BY <1>8, <1>9, <1>10, <1>11, <1>12 DEF HistoryParts

LEMMA HistMessages ==
  ASSUME HistoryInv, NEW t \in Threads, Message(t)
  PROVE  HistoryParts'
<1>1. {"received", "sending", "failed", "delivered"} \subseteq Marks \ {"none"}
  BY DEF Marks
<1>2. ASSUME NEW p \in Pubkeys, NEW i \in Numbers, SendDm(t, p, i) \/ HandleDm(t, p, i)
      PROVE  HistoryParts'
  BY <1>1, <1>2, HistBegins DEF SendDm, HandleDm
<1>3. ASSUME NEW p \in Pubkeys, NEW i \in Numbers, MarkDelivered(t, p, i) \/ GiveUp(t, p, i)
      PROVE  HistoryParts'
  BY <1>1, <1>3, HistVerdicts DEF MarkDelivered, GiveUp
<1> QED
  BY <1>2, <1>3, HistAdds DEF Message

\* A commit writes the live list; one that was taken away is of a companion who
\* was removed.
LEMMA HistCommits ==
  ASSUME HistoryInv, NEW t \in Threads, FlushCommit(t)
  PROVE  HistoryParts'
<1>0. /\ LocalTypes /\ local[t] \in Locals /\ CleanAt(pc[t], local[t], orphaned)
      /\ storedHistory \in [Pubkeys -> ListsOver(Numbers \X Marks) \cup {NoList}]
      /\ TypeOK /\ \A q \in Pubkeys : Shown(q) \in ListsOver(Numbers)
  BY HistoryTypes DEF HistoryInv, HistoryParts, Clean, DataTypes
<1>1. PICK p \in Pubkeys : p = local[t].pub
  BY <1>0 DEF FlushCommit, LocalTypes, LocalsSet
<1>2. PICK list : list = IF local[t].held = Nothing THEN Shown(p) ELSE local[t].held
  OBVIOUS
<1>3. PICK written : written = Written(list)
  OBVIOUS
<1>4. /\ pc[t] = "put" /\ Continue(t, local[t].todo)
      /\ storedHistory' = [storedHistory EXCEPT ![p] = written]
      /\ lost' = IF local[t].held = Nothing THEN lost \ {p} ELSE lost
      /\ UNCHANGED <<contacts, history, marks, awaiting, dirty, orphaned>>
  BY <1>1, <1>2, <1>3 DEF FlushCommit, ramVars
<1>5. list \in ListsOver(Numbers)
  BY <1>0, <1>2 DEF Locals
<1>6. /\ written \in ListsOver(Numbers \X Marks)
      /\ DOMAIN written = DOMAIN list
      /\ \A k \in DOMAIN list : written[k] = <<list[k], marks[list[k]]>>
  BY <1>0, <1>3, <1>5, WrittenFacts, WrittenIn
<1>7. /\ Stored(p)' = written
      /\ \A q \in Pubkeys \ {p} : Stored(q)' = Stored(q)
      /\ \A q \in Pubkeys : Shown(q)' = Shown(q) /\ (IsContact(q)' <=> IsContact(q))
  BY <1>0, <1>4, <1>6, ListAssumption DEF Shown, Stored, IsContact
<1>8. /\ \A u \in Threads \ {t} : pc'[u] = pc[u] /\ local'[u] = local[u]
      /\ pc'[t] # "append" /\ local'[t].held = Nothing
      /\ CleanAt(pc'[t], local'[t], orphaned)
      /\ \A q \in Pubkeys : Carries(t, q)' <=> q \in local[t].todo
  <2>1. local[t].todo \in SUBSET Pubkeys
    BY <1>0 DEF Locals
  <2> QED
    BY <1>0, <1>4, <2>1, ContinueMine
<1>9. p \in orphaned \/ list = Shown(p)
  BY <1>0, <1>1, <1>2 DEF CleanAt
<1>10. ASSUME NEW j, InList(j, list)
       PROVE  Has(p, j)
  BY <1>1, <1>2, <1>10 DEF Has, Holds
<1>11. OneOwner'
  <2>1. ASSUME NEW q \in Pubkeys, NEW j \in Numbers, Has(q, j)'
        PROVE  Has(q, j)
    <3>1. InList(j, Shown(q))' => Has(q, j)
      BY <1>7 DEF InList, Has
    <3>2. ASSUME IsStored(q, j)'
          PROVE  Has(q, j)
      <4>1. CASE q = p
        <5>1. PICK k \in DOMAIN written : written[k][1] = j
          BY <1>7, <3>2, <4>1 DEF IsStored
        <5>2. InList(j, list)
          BY <1>6, <5>1 DEF InList
        <5> QED
          BY <1>10, <4>1, <5>2
      <4>2. CASE q # p
        BY <1>7, <3>2, <4>2 DEF IsStored, Has
      <4> QED
        BY <4>1, <4>2
    <3> QED
      BY <1>4, <1>8, <2>1, <3>1, <3>2, HasKept
  <2> QED
    BY <1>4, <2>1, OwnerKept DEF HistoryInv, HistoryParts
<1>12. StoredSound'
  <2>1. ASSUME NEW j \in DOMAIN written, NEW k \in DOMAIN written
        PROVE  /\ written[j][2] # "none"
               /\ written[j][1] = written[k][1] => written[j] = written[k]
    <3>1. list[j] \in Numbers /\ list[k] \in Numbers /\ InList(list[j], list)
      BY <1>5, <1>6, <2>1, InListFacts DEF InList
    <3>2. marks[list[j]] # "none"
      BY <1>10, <3>1 DEF HistoryInv, HistoryParts, OneOwner
    <3> QED
      BY <1>6, <2>1, <3>2
  <2>2. ASSUME NEW q \in Pubkeys \ {p}
        PROVE  \A j, k \in DOMAIN Stored(q)' :
                 /\ Stored(q)'[j][2] # "none"
                 /\ Stored(q)'[j][1] = Stored(q)'[k][1] => Stored(q)'[j] = Stored(q)'[k]
    BY <1>7 DEF HistoryInv, HistoryParts, StoredSound
  <2> QED
    BY <1>7, <2>1, <2>2 DEF StoredSound
<1>13. StrangersAreEmpty'
  <2>1. ASSUME p \notin orphaned, ~IsContact(p)
        PROVE  written = <<>>
    <3>1. Shown(p) = <<>>
      BY <2>1 DEF HistoryInv, HistoryParts, StrangersAreEmpty
    <3> QED
      BY <1>3, <1>9, <2>1, <3>1, WrittenEmpty
  <2> QED
    BY <1>4, <1>7, <1>8, <2>1 DEF HistoryInv, HistoryParts, StrangersAreEmpty
<1>14. Clean'
  BY <1>4, <1>8, CleanKept DEF HistoryInv, HistoryParts
<1>15. HistoryTracked'
  <2>1. \A q \in Pubkeys : Written(Shown(q))' = Written(Shown(q))
    BY <1>4, <1>7 DEF Written
  <2>2. ASSUME NEW q \in Pubkeys \ {p}, NEW u \in Threads, Carries(u, q)
        PROVE  Carries(u, q)'
    <3>1. CASE u = t
      BY <1>1, <1>4, <1>8, <2>2, <3>1 DEF Carries
    <3>2. CASE u # t
      BY <1>8, <2>2, <3>2 DEF Carries
    <3> QED
      BY <3>1, <3>2
  <2>3. ASSUME p \notin orphaned
        PROVE  Stored(p)' = Written(Shown(p))'
    BY <1>3, <1>7, <1>9, <2>1, <2>3
  <2>4. ASSUME NEW q \in Pubkeys \ (orphaned' \cup lost'), IsContact(q)', q # p
        PROVE  \/ Stored(q)' = Written(Shown(q))'
               \/ q \in dirty'
               \/ \E u \in Threads : Carries(u, q)'
    BY <1>4, <1>7, <2>1, <2>2, <2>4 DEF HistoryInv, HistoryParts, HistoryTracked
  <2> QED
    BY <1>4, <2>3, <2>4 DEF HistoryTracked
<1> QED
  BY <1>11, <1>12, <1>13, <1>14, <1>15 DEF HistoryParts

-----------------------------------------------------------------------------
(* Contacts.                                                               *)

\* A thread at rest that goes to save the contact list.
LEMMA HistContacts ==
  ASSUME HistoryInv, NEW t \in Threads, NEW p \in Pubkeys,
         (t = UI /\ AddContact(p)) \/ (t \in Workers /\ ChangeContact(t, p))
  PROVE  HistoryParts'
<1>0. /\ LocalTypes /\ local[t] \in Locals /\ CleanAt(pc[t], local[t], orphaned)
      /\ contacts \in ContactLists
      /\ history \in [Pubkeys -> ListsOver(Numbers) \cup {NoList}]
  BY HistoryTypes DEF HistoryInv, HistoryParts, Clean, DataTypes
<1>1. /\ pc[t] = "rest" /\ Goto(t, "save")
      /\ \E e \in Entries : contacts' = [contacts EXCEPT ![p] = e]
      /\ history' = history \/ (~IsContact(p) /\ history' = [history EXCEPT ![p] = Shown(p)])
      /\ UNCHANGED <<marks, awaiting, dirty, storedHistory, orphaned, lost, local>>
  BY DEF AddContact, ChangeContact, storedVars
<1>2. IsContact(p) \/ history' = [history EXCEPT ![p] = Shown(p)]
  BY DEF AddContact, ChangeContact
<1>3. /\ pc'[t] = "save" /\ local[t] = NoLocals /\ local'[t] = NoLocals
      /\ \A u \in Threads \ {t} : pc'[u] = pc[u] /\ local'[u] = local[u]
  BY <1>0, <1>1, GotoMine DEF CleanAt
<1>4. /\ \A q \in Pubkeys : Shown(q)' = Shown(q) /\ Stored(q)' = Stored(q)
      /\ \A q \in Pubkeys \ {p} : IsContact(q)' <=> IsContact(q)
      /\ IsContact(p)'
  <2>1. Shown(p)' = Shown(p) /\ \A q \in Pubkeys \ {p} : Shown(q)' = Shown(q)
    BY <1>0, <1>1 DEF Shown
  <2>2. PICK e \in Entries : contacts' = [contacts EXCEPT ![p] = e]
    BY <1>1
  <2>3. contacts'[p] = e /\ \A q \in Pubkeys \ {p} : contacts'[q] = contacts[q]
    BY <1>0, <2>2 DEF ContactLists
  <2> QED
    BY <1>1, <2>1, <2>3, StoreAssumption DEF Stored, IsContact
<1>5. local'[t].held = Nothing /\ CleanAt(pc'[t], local'[t], orphaned)
  BY <1>3 DEF NoLocals, CleanAt
<1>6. OneOwner'
  <2>1. ASSUME NEW q \in Pubkeys, NEW j \in Numbers, Has(q, j)'
        PROVE  Has(q, j)
    <3>1. InList(j, Shown(q))' => Has(q, j)
      BY <1>4 DEF InList, Has
    <3>2. IsStored(q, j)' => Has(q, j)
      BY <1>4 DEF IsStored, Has
    <3> QED
      BY <1>1, <1>3, <1>5, <2>1, <3>1, <3>2, HasKept
  <2> QED
    BY <1>1, <2>1, OwnerKept DEF HistoryInv, HistoryParts
<1>7. StoredSound' /\ StrangersAreEmpty'
  BY <1>1, <1>3, <1>4 DEF HistoryInv, HistoryParts, StoredSound, StrangersAreEmpty
<1>8. Clean'
  BY <1>1, <1>3, <1>5, CleanKept DEF HistoryInv, HistoryParts
<1>9. HistoryTracked'
  <2>1. \A u \in Threads, q \in Pubkeys : Carries(u, q) => Carries(u, q)'
    <3>1. \A q \in Pubkeys : ~Carries(t, q)
      BY <1>1, <1>3 DEF Carries, NoLocals
    <3> QED
      BY <1>3, <3>1 DEF Carries
  <2>2. \A q \in Pubkeys : Written(Shown(q))' = Written(Shown(q))
    BY <1>1, <1>4 DEF Written
  <2>3. ASSUME ~IsContact(p), p \notin orphaned
        PROVE  Stored(p)' = Written(Shown(p))'
    <3>1. Stored(p) = <<>> /\ Shown(p) = <<>>
      BY <2>3 DEF HistoryInv, HistoryParts, StrangersAreEmpty
    <3> QED
      BY <1>4, <2>2, <3>1, WrittenEmpty
  <2> QED
    BY <1>1, <1>4, <2>1, <2>2, <2>3 DEF HistoryInv, HistoryParts, HistoryTracked
<1> QED
  BY <1>6, <1>7, <1>8, <1>9 DEF HistoryParts

\* A removed companion takes its list along; a flush may keep it.
LEMMA HistRemoves ==
  ASSUME HistoryInv, NEW p \in Pubkeys, RemoveContact(p)
  PROVE  HistoryParts'
<1>0. /\ LocalTypes /\ UI \in Threads
      /\ \A t \in Threads : local[t] \in Locals /\ CleanAt(pc[t], local[t], orphaned)
      /\ contacts \in ContactLists
      /\ history \in [Pubkeys -> ListsOver(Numbers) \cup {NoList}]
  BY HistoryTypes DEF HistoryInv, HistoryParts, Clean, DataTypes, Threads
<1>1. /\ pc[UI] = "rest" /\ Goto(UI, "save")
      /\ contacts' = [contacts EXCEPT ![p] = NoContact]
      /\ history' = [history EXCEPT ![p] = NoList]
      /\ local' = [t \in Threads |-> IF t = UI THEN [local[UI] EXCEPT !.pub = p]
                                     ELSE KeepsHolding(t, p)]
      /\ orphaned' = orphaned \cup {p}
      /\ UNCHANGED <<marks, awaiting, dirty, storedHistory, lost>>
  BY DEF RemoveContact, storedVars
<1>2. pc'[UI] = "save" /\ \A t \in Threads \ {UI} : pc'[t] = pc[t]
  BY <1>0, <1>1, GotoMine
<1>3. /\ local'[UI].pub = p /\ local'[UI].todo = {} /\ local'[UI].held = Nothing
      /\ local[UI].todo = {}
  <2>1. local[UI] = NoLocals /\ local'[UI] = [local[UI] EXCEPT !.pub = p]
    BY <1>0, <1>1 DEF CleanAt
  <2> QED
    BY <2>1 DEF NoLocals
<1>4. ASSUME NEW t \in Threads \ {UI}
      PROVE  /\ local'[t].pub = local[t].pub /\ local'[t].todo = local[t].todo
             /\ local'[t].msg = local[t].msg
             /\ \/ local'[t] = local[t]
                \/ pc[t] = "put" /\ local[t].pub = p /\ local'[t].held = Shown(p)
  <2>1. local'[t] = KeepsHolding(t, p)
    BY <1>1, <1>4
  <2> QED
    BY <1>0, <2>1 DEF KeepsHolding, Locals
<1>5. /\ \A q \in Pubkeys : Stored(q)' = Stored(q)
      /\ \A q \in Pubkeys \ {p} : Shown(q)' = Shown(q) /\ (IsContact(q)' <=> IsContact(q))
      /\ Shown(p)' = <<>>
  BY <1>0, <1>1 DEF Shown, Stored, IsContact, ContactLists
<1>6. OneOwner'
  <2>1. ASSUME NEW q \in Pubkeys, NEW j \in Numbers, Has(q, j)'
        PROVE  Has(q, j)
    <3>1. ASSUME InList(j, Shown(q))'
          PROVE  Has(q, j)
      <4>1. q # p
        BY <1>5, <3>1 DEF InList
      <4> QED
        BY <1>5, <3>1, <4>1 DEF InList, Has
    <3>2. IsStored(q, j)' => Has(q, j)
      BY <1>5 DEF IsStored, Has
    <3>3. ASSUME NEW t \in Threads, Holds(t, q, j)'
          PROVE  Has(q, j)
      <4>1. CASE t = UI
        BY <1>2, <1>3, <3>3, <4>1 DEF Holds
      <4>2. CASE t # UI /\ local'[t] = local[t]
        BY <1>2, <3>3, <4>2 DEF Holds, InList, Has
      <4>3. CASE t # UI /\ pc[t] = "put" /\ local[t].pub = p /\ local'[t].held = Shown(p)
        BY <1>2, <1>4, <3>3, <4>3 DEF Holds, InList, Has
      <4> QED
        BY <1>4, <4>1, <4>2, <4>3
    <3> QED
      BY <1>1, <2>1, <3>1, <3>2, <3>3 DEF Has
  <2> QED
    BY <1>1, <2>1, OwnerKept DEF HistoryInv, HistoryParts
<1>7. StoredSound'
  BY <1>5 DEF HistoryInv, HistoryParts, StoredSound
<1>8. StrangersAreEmpty'
  <2>1. ASSUME NEW q \in Pubkeys \ orphaned', ~IsContact(q)', NEW t \in Threads, pc'[t] = "append"
        PROVE  local'[t].pub # q
    <3>1. q # p /\ q \notin orphaned /\ ~IsContact(q) /\ t # UI
      BY <1>1, <1>2, <1>5, <2>1
    <3> QED
      BY <1>2, <1>4, <2>1, <3>1 DEF HistoryInv, HistoryParts, StrangersAreEmpty
  <2> QED
    BY <1>1, <1>5, <2>1 DEF HistoryInv, HistoryParts, StrangersAreEmpty
<1>9. Clean'
  <2>1. CleanAt(pc'[UI], local'[UI], orphaned')
    BY <1>1, <1>2, <1>3 DEF CleanAt
  <2>2. ASSUME NEW t \in Threads \ {UI}
        PROVE  CleanAt(pc'[t], local'[t], orphaned')
    <3>1. CASE local'[t] = local[t]
      BY <1>0, <1>1, <1>2, <3>1 DEF CleanAt
    <3>2. CASE pc[t] = "put" /\ local[t].pub = p /\ local'[t].held = Shown(p)
      BY <1>1, <1>2, <1>4, <3>2 DEF CleanAt
    <3> QED
      BY <1>4, <3>1, <3>2
  <2> QED
    BY <2>1, <2>2 DEF Clean
<1>10. HistoryTracked'
  <2>1. ASSUME NEW t \in Threads, NEW q \in Pubkeys, Carries(t, q)
        PROVE  Carries(t, q)'
    <3>1. t # UI
      BY <1>1, <1>3, <2>1 DEF Carries
    <3> QED
      BY <1>2, <1>4, <2>1, <3>1 DEF Carries
  <2>2. \A q \in Pubkeys \ {p} : Written(Shown(q))' = Written(Shown(q))
    BY <1>1, <1>5 DEF Written
  <2> QED
    BY <1>1, <1>5, <2>1, <2>2 DEF HistoryInv, HistoryParts, HistoryTracked
<1> QED
  BY <1>6, <1>7, <1>8, <1>9, <1>10 DEF HistoryParts

-----------------------------------------------------------------------------
(* A restart.                                                              *)

\* What is loaded of a message that is stored is what is stored with it.
LEMMA LoadedMarkFacts ==
  ASSUME HistoryInv, NEW i \in Numbers
  PROVE  /\ \A p \in Pubkeys : \A k \in DOMAIN Stored(p) :
              Stored(p)[k][1] = i => LoadedMark(i) = Stored(p)[k][2]
         /\ (\E p \in Pubkeys : Has(p, i)) => LoadedMark(i) # "none"
<1> DEFINE stored == UNION {{Stored(p)[k] : k \in DOMAIN Stored(p)} : p \in Pubkeys}
<1>1. PICK of_i : of_i = {e \in stored : e[1] = i}
  OBVIOUS
<1>2. LoadedMark(i) = IF of_i = {} THEN marks[i] ELSE (CHOOSE e \in of_i : TRUE)[2]
  BY <1>1 DEF LoadedMark
<1>3. \A e : e \in of_i <=>
        e[1] = i /\ \E p \in Pubkeys : \E k \in DOMAIN Stored(p) : e = Stored(p)[k]
  BY <1>1
<1>4. ASSUME NEW p \in Pubkeys, NEW k \in DOMAIN Stored(p), Stored(p)[k][1] = i
      PROVE  LoadedMark(i) = Stored(p)[k][2] /\ Stored(p)[k][2] # "none"
  <2>1. PICK e : e = (CHOOSE x \in of_i : TRUE)
    OBVIOUS
  <2>2. Stored(p)[k] \in of_i
    BY <1>3, <1>4
  <2>3. e \in of_i
    BY <2>1, <2>2
  <2>4. PICK q \in Pubkeys : \E j \in DOMAIN Stored(q) : e = Stored(q)[j]
    BY <1>3, <2>3
  <2>5. PICK j \in DOMAIN Stored(q) : e = Stored(q)[j]
    BY <2>4
  <2>6. e[1] = i
    BY <1>3, <2>3
  <2>7. Has(p, i) /\ Has(q, i)
    BY <1>4, <2>5, <2>6 DEF Has, IsStored
  <2>8. q = p
    BY <2>7 DEF HistoryInv, HistoryParts, OneOwner
  <2>9. e = Stored(p)[k] /\ Stored(p)[k][2] # "none"
    BY <1>4, <2>5, <2>6, <2>8 DEF HistoryInv, HistoryParts, StoredSound
  <2> QED
    BY <1>2, <2>1, <2>2, <2>9
<1>5. ASSUME NEW p \in Pubkeys, Has(p, i)
      PROVE  LoadedMark(i) # "none"
  <2>1. CASE of_i = {}
    BY <1>2, <1>5, <2>1 DEF HistoryInv, HistoryParts, OneOwner
  <2>2. CASE of_i # {}
    <3>1. PICK e : e \in of_i
      BY <2>2
    <3>2. PICK q \in Pubkeys : \E k \in DOMAIN Stored(q) : e = Stored(q)[k]
      BY <1>3, <3>1
    <3>3. PICK k \in DOMAIN Stored(q) : e = Stored(q)[k]
      BY <3>2
    <3>4. Stored(q)[k][1] = i
      BY <1>3, <3>1, <3>3
    <3> QED
      BY <1>4, <3>4
  <2> QED
    BY <2>1, <2>2
<1> QED
  BY <1>4, <1>5

LEMMA HistReboots ==
  ASSUME HistoryInv, Reboot
  PROVE  HistoryParts'
<1>0. /\ \A p \in Pubkeys : Stored(p) \in ListsOver(Numbers \X Marks)
      /\ \A p \in Pubkeys : LoadedList(p) \in ListsOver(Numbers) \cup {NoList}
  BY HistoryTypes, LoadedFacts
<1>1. /\ contacts' = storedContacts /\ storedHistory' = storedHistory
      /\ history' = [p \in Pubkeys |-> LoadedList(p)]
      /\ marks' = [i \in Numbers |-> LoadedMark(i)]
      /\ awaiting' = {} /\ pc' = AtRest
      /\ local' = [t \in Threads |-> NoLocals]
      /\ orphaned' = orphaned \cup
           {p \in Pubkeys : storedContacts[p] = NoContact /\ Stored(p) # <<>>}
  BY DEF Reboot, storedVars
<1>2. \A t \in Threads : /\ pc'[t] \in {"gone", "rest"} /\ local'[t] = NoLocals
                         /\ local'[t].held = Nothing /\ local'[t].todo = {}
  BY <1>1 DEF AtRest, NoLocals
<1>3. \A p \in Pubkeys : Stored(p)' = Stored(p) /\ (IsContact(p)' <=> storedContacts[p] # NoContact)
  BY <1>1 DEF Stored, IsContact
<1>4. ASSUME NEW p \in Pubkeys
      PROVE  /\ storedContacts[p] = NoContact => Shown(p)' = <<>>
             /\ storedContacts[p] # NoContact =>
                  /\ Shown(p)' \in ListsOver(Numbers)
                  /\ Shown(p)' = [k \in 1..Len(Stored(p)) |-> Stored(p)[k][1]]
  <2>1. history'[p] = LoadedList(p)
    BY <1>1
  <2>2. CASE storedContacts[p] = NoContact
    BY <2>1, <2>2 DEF LoadedList, Shown
  <2>3. CASE storedContacts[p] # NoContact
    <3>1. PICK list : list = [k \in 1..Len(Stored(p)) |-> Stored(p)[k][1]]
      OBVIOUS
    <3>2. list \in ListsOver(Numbers)
      <4>1. /\ DOMAIN Stored(p) = 1..Len(Stored(p))
            /\ \A k \in DOMAIN Stored(p) : Stored(p)[k] \in Numbers \X Marks
        BY <1>0, InListFacts
      <4>2. list \in [1..Len(Stored(p)) -> Numbers]
        BY <3>1, <4>1
      <4> QED
        BY <1>0, <4>2, MapFacts
    <3>3. history'[p] = list
      BY <2>1, <2>3, <3>1 DEF LoadedList
    <3>4. list # NoList
      BY <3>2, ListAssumption
    <3>5. Shown(p)' = list
      BY <3>3, <3>4 DEF Shown
    <3> QED
      BY <2>3, <3>1, <3>2, <3>5
  <2> QED
    BY <2>2, <2>3
<1>5. ASSUME NEW p \in Pubkeys, NEW i \in Numbers, Has(p, i)'
      PROVE  IsStored(p, i)
  <2>1. \A t \in Threads : ~Holds(t, p, i)'
    BY <1>2 DEF Holds
  <2>2. IsStored(p, i)' => IsStored(p, i)
    BY <1>3 DEF IsStored
  <2>3. ASSUME InList(i, Shown(p))'
        PROVE  IsStored(p, i)
    <3>1. Shown(p)' # <<>>
      BY <2>3 DEF InList
    <3>2. storedContacts[p] # NoContact
      BY <1>4, <3>1
    <3>3. Shown(p)' = [k \in 1..Len(Stored(p)) |-> Stored(p)[k][1]]
      BY <1>4, <3>2
    <3>4. DOMAIN Stored(p) = 1..Len(Stored(p))
      BY <1>0, InListFacts
    <3> QED
      BY <2>3, <3>3, <3>4 DEF InList, IsStored
  <2> QED
    BY <1>1, <1>5, <2>1, <2>2, <2>3 DEF Has
<1>6. OneOwner'
  <2>1. ASSUME NEW p \in Pubkeys, NEW i \in Numbers, Has(p, i)'
        PROVE  Has(p, i)
    BY <1>5, <2>1 DEF Has
  <2>2. ASSUME NEW p \in Pubkeys, NEW i \in Numbers, Has(p, i)'
        PROVE  marks'[i] # "none"
    BY <1>1, <2>1, <2>2, LoadedMarkFacts
  <2> QED
    BY <2>1, <2>2 DEF HistoryInv, HistoryParts, OneOwner
<1>7. StoredSound'
  BY <1>3 DEF HistoryInv, HistoryParts, StoredSound
<1>8. StrangersAreEmpty'
  BY <1>1, <1>2, <1>3, <1>4 DEF StrangersAreEmpty
<1>9. Clean'
  BY <1>2 DEF Clean, CleanAt
<1>10. HistoryTracked'
  <2> SUFFICES ASSUME NEW p \in Pubkeys, IsContact(p)'
               PROVE  Stored(p)' = Written(Shown(p))'
    BY DEF HistoryTracked
  <2>1. PICK stored : stored = Stored(p)
    OBVIOUS
  <2>2. /\ stored \in Seq(Numbers \X Marks) /\ Len(stored) \in Nat
        /\ DOMAIN stored = 1..Len(stored)
        /\ \A k \in DOMAIN stored : stored[k] \in Numbers \X Marks
    BY <1>0, <2>1, InListFacts
  <2>3. Shown(p)' = [k \in 1..Len(stored) |-> stored[k][1]]
    BY <1>3, <1>4, <2>1
  <2>4. Len(Shown(p)') = Len(stored)
    BY <2>2, <2>3
  <2>5. \A k \in 1..Len(stored) : marks'[stored[k][1]] = stored[k][2]
    <3>1. ASSUME NEW k \in 1..Len(stored)
          PROVE  marks'[stored[k][1]] = stored[k][2]
      <4>1. stored[k][1] \in Numbers
        BY <2>2
      <4>2. LoadedMark(stored[k][1]) = stored[k][2]
        BY <2>1, <2>2, <4>1, LoadedMarkFacts
      <4> QED
        BY <1>1, <4>1, <4>2
    <3> QED
      BY <3>1
  <2>6. Written(Shown(p))' = [k \in 1..Len(stored) |-> <<stored[k][1], stored[k][2]>>]
    BY <2>3, <2>4, <2>5 DEF Written
  <2>7. \A k \in 1..Len(stored) : <<stored[k][1], stored[k][2]>> = stored[k]
    BY <2>2
  <2>8. stored = [k \in 1..Len(stored) |-> stored[k]]
    BY <2>2
  <2> QED
    BY <1>3, <2>1, <2>6, <2>7, <2>8
<1> QED
  BY <1>6, <1>7, <1>8, <1>9, <1>10 DEF HistoryParts

-----------------------------------------------------------------------------
LEMMA HistInit == Init => HistoryInv
<1> SUFFICES ASSUME Init PROVE HistoryInv
  OBVIOUS
<1>1. IInv
  BY InitIInv
<1>2. \A p \in Pubkeys : /\ Shown(p) = <<>> /\ Stored(p) = <<>> /\ ~IsContact(p)
  BY DEF Init, Shown, Stored, IsContact, NoContacts
<1>3. \A t \in Threads : /\ pc[t] \in {"gone", "rest"} /\ local[t] = NoLocals
                         /\ local[t].held = Nothing /\ local[t].todo = {}
  BY DEF Init, AtRest, NoLocals
<1>4. \A p \in Pubkeys, i \in Numbers : ~Has(p, i)
  BY <1>2, <1>3 DEF Init, Has, Holds, InList, IsStored
<1>5. OneOwner /\ StoredSound /\ StrangersAreEmpty /\ HistoryTracked
  BY <1>2, <1>3, <1>4 DEF OneOwner, StoredSound, StrangersAreEmpty, HistoryTracked
<1>6. Clean
  BY <1>3 DEF Clean, CleanAt
<1> QED
  BY <1>1, <1>5, <1>6 DEF HistoryInv, HistoryParts

LEMMA HistStep == HistoryInv /\ [Next]_vars => HistoryInv'
<1> SUFFICES ASSUME HistoryInv, [Next]_vars PROVE HistoryParts'
  BY NextIInv DEF HistoryInv, HistoryParts
<1>0. UI \in Threads /\ Workers \subseteq Threads
  BY DEF Threads
<1>1. ASSUME NEW t \in Threads, Save(t) PROVE HistoryParts'
  BY <1>1, HistSaves, HistMarks, HistFlushes, HistCommits DEF Save
<1>2. CASE Work
  BY <1>0, <1>1, <1>2, HistMessages, HistFlushes, HistSwitches, HistDeletes DEF Work
<1>3. CASE Changes
  BY <1>0, <1>3, HistContacts, HistRemoves DEF Changes
<1>4. CASE Failures
  BY <1>0, <1>4, HistSaves, HistFlushes, HistDeletes DEF Failures
<1>5. CASE UNCHANGED vars
  <2>1. UNCHANGED <<contacts, history, marks, awaiting, dirty, storedHistory, pc, local, orphaned, lost>>
    BY <1>5 DEF vars, ramVars, storedVars, ghostVars
  <2>2. /\ \A p \in Pubkeys : Shown(p)' = Shown(p) /\ Stored(p)' = Stored(p)
        /\ \A p \in Pubkeys : (IsContact(p)' <=> IsContact(p)) /\ Written(Shown(p))' = Written(Shown(p))
        /\ \A t \in Threads, p \in Pubkeys : Carries(t, p)' <=> Carries(t, p)
    BY <2>1 DEF Shown, Stored, IsContact, Written, Carries
  <2>3. \A p \in Pubkeys, i \in Numbers : Has(p, i)' <=> Has(p, i)
    BY <2>1, <2>2 DEF Has, Holds, InList, IsStored
  <2>4. OneOwner' /\ StoredSound'
    BY <2>1, <2>2, <2>3 DEF HistoryInv, HistoryParts, OneOwner, StoredSound
  <2>5. Clean' /\ StrangersAreEmpty' /\ HistoryTracked'
    BY <2>1, <2>2 DEF HistoryInv, HistoryParts, Clean, CleanAt, StrangersAreEmpty, HistoryTracked
  <2> QED
    BY <2>4, <2>5 DEF HistoryParts
<1> QED
  BY <1>2, <1>3, <1>4, <1>5, HistReboots, HistSwitches DEF Next

\* Who has which message, and what was stored of it, in every reachable state.
THEOREM HistoryInvIsInvariant == Spec => []HistoryInv
BY HistInit, HistStep, PTL DEF Spec

\* What a chat shows of a contact is in the preferences, marked dirty or about to
\* be written, for any number of threads, companions and messages, across any
\* restarts (_save_history, _flush_dirty_history, _load_contacts); but for what
\* a flush clears unseen, failed commits and companions who were removed.
THEOREM HistoriesAreTracked == Spec => []HistoryTracked
<1>1. HistoryInv => HistoryTracked
  BY DEF HistoryInv, HistoryParts
<1> QED
  BY <1>1, HistoryInvIsInvariant, PTL
===============================================================================
