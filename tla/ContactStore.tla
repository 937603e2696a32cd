---------------------------- MODULE ContactStore -----------------------------
(***************************************************************************)
(* The saved contacts and their chat histories: dictionaries in memory,    *)
(* changed by the user interface thread, by send threads and by the worker,*)
(* and their copies in the preferences, which a restart reads back.        *)
(*                                                                         *)
(* The contact list is written as a snapshot of the whole list by whoever  *)
(* changed it. A history is marked dirty and written later by the worker,  *)
(* or at once if there is no worker. One action runs from one access of    *)
(* the shared dictionaries, flags or preferences to the next.              *)
(***************************************************************************)
EXTENDS Naturals, Sequences

CONSTANTS
  Pubkeys,       \* public keys of the companions that may become contacts
  Entries,       \* what is stored of a contact: its name and its route
  Workers,       \* names for the threads that run _process_loop
  Senders,       \* the threads that run send_dm
  UI,            \* the user interface thread
  NoContact,     \* no entry in _contacts, or in the stored list
  NoList,        \* no entry in _dm_messages, or in the stored histories
  Nothing,       \* the value of a local variable not in use
  MAX_MESSAGES,  \* the length of a history, 50 in the code
  SENDS,         \* bound: messages, of all companions
  EVENTS         \* bound: changes of the contact list and of _running, commits
                 \*   that fail and restarts of the device, together

Threads == Workers \cup Senders \cup {UI}

ASSUME StoreAssumption ==
  /\ UI \notin Workers /\ UI \notin Senders /\ Workers \cap Senders = {}
  /\ NoContact \notin Entries /\ Nothing \notin Pubkeys
  /\ MAX_MESSAGES \in Nat \ {0}
  /\ SENDS \in Nat /\ EVENTS \in Nat

VARIABLES
  contacts,       \* _contacts
  history,        \* _dm_messages: the messages of a companion
  marks,          \* what the message dictionaries say of delivery
  awaiting,       \* the messages whose acknowledgement is still expected
  dirty,          \* _dirty_history
  running,        \* _running
  workerRunning,  \* _worker_running
  storedContacts, \* "contacts" in the preferences
  storedHistory,  \* "dm_history" in the preferences
  pc,             \* where each thread is
  local,          \* its local variables
  events,         \* how much of that bound is used up
  \* What was lost, and how (no variables of the program):
  orphaned,       \* companions whose stored history may outlive the contact
  lost,           \* contacts whose mark was cleared unseen, or whose write failed
  stale           \* a save of the contact list overlapped another, or failed

ramVars    == <<contacts, history, marks, awaiting, dirty>>
flagVars   == <<running, workerRunning>>
storedVars == <<storedContacts, storedHistory>>
ghostVars  == <<orphaned, lost, stale>>
vars == <<ramVars, flagVars, storedVars, pc, local, events, ghostVars>>

Numbers == 1..SENDS

\* "received" for an incoming message; the others are the states of our own.
Marks == {"none", "received", "sending", "failed", "delivered"}

ContactLists == [Pubkeys -> Entries \cup {NoContact}]

ListsOver(S) == {list \in Seq(S) : Len(list) <= MAX_MESSAGES}

ASSUME ListAssumption ==
  /\ NoList \notin ListsOver(Numbers) \cup ListsOver(Numbers \X Marks)
  /\ Nothing \notin ListsOver(Numbers)

Pcs == {"rest", "gone", "exit", "raise", "start", "append", "mark", "ask", "list",
        "clear", "flush", "put", "save", "commit", "forget", "erase"}

\* pub, msg: the companion and the message a call is about; todo: what a flush
\* still has to write; held: the list it is about to write, if that is no longer
\* the live one; copy: the snapshot of a save; last: the flush is the thread's end.
Locals == [pub : Pubkeys \cup {Nothing}, msg : Numbers \cup {Nothing},
           todo : SUBSET Pubkeys, held : ListsOver(Numbers) \cup {Nothing},
           copy : ContactLists \cup {Nothing}, last : BOOLEAN]

NoLocals == [pub |-> Nothing, msg |-> Nothing, todo |-> {}, held |-> Nothing,
             copy |-> Nothing, last |-> FALSE]

TypeOK ==
  /\ contacts \in ContactLists
  /\ history \in [Pubkeys -> ListsOver(Numbers) \cup {NoList}]
  /\ marks \in [Numbers -> Marks]
  /\ awaiting \subseteq Pubkeys \X Numbers
  /\ dirty \subseteq Pubkeys
  /\ running \in BOOLEAN /\ workerRunning \in BOOLEAN
  /\ storedContacts \in ContactLists
  /\ storedHistory \in [Pubkeys -> ListsOver(Numbers \X Marks) \cup {NoList}]
  /\ pc \in [Threads -> Pcs]
  /\ local \in [Threads -> Locals]
  /\ events \in 0..EVENTS
  /\ orphaned \subseteq Pubkeys /\ lost \subseteq Pubkeys /\ stale \in BOOLEAN

NoContacts == [p \in Pubkeys |-> NoContact]

AtRest == [t \in Threads |-> IF t \in Workers THEN "gone" ELSE "rest"]

Init ==
  /\ contacts = NoContacts /\ storedContacts = NoContacts
  /\ history = [p \in Pubkeys |-> NoList] /\ storedHistory = [p \in Pubkeys |-> NoList]
  /\ marks = [i \in Numbers |-> "none"]
  /\ awaiting = {} /\ dirty = {}
  /\ running = FALSE /\ workerRunning = FALSE
  /\ pc = AtRest
  /\ local = [t \in Threads |-> NoLocals]
  /\ events = 0
  /\ orphaned = {} /\ lost = {} /\ stale = FALSE

-----------------------------------------------------------------------------
(* Helpers.                                                                *)

IsContact(p) == contacts[p] # NoContact

\* What is written of a list of messages: the message dictionaries as they are.
Written(list) == [k \in 1..Len(list) |-> <<list[k], marks[list[k]]>>]

\* _dm_messages.get(p, []), and the same of the stored histories.
Shown(p) == IF history[p] = NoList THEN <<>> ELSE history[p]
Stored(p) == IF storedHistory[p] = NoList THEN <<>> ELSE storedHistory[p]

\* Mutant of Capped: a history grows without bound.
Uncapped(list) == list

\* A full history drops its oldest message.
Capped(list) == IF Len(list) > MAX_MESSAGES THEN Tail(list) ELSE list

Goto(t, label) == pc' = [pc EXCEPT ![t] = label]

\* The thread's call returns: it is ready for the next, or at its end.
Return(t) ==
  /\ Goto(t, IF local[t].last THEN "gone" ELSE "rest")
  /\ local' = [local EXCEPT ![t] = NoLocals]

\* Threads other than t that are on their way to write the contact list.
OthersSaving(t) == {u \in Threads \ {t} : pc[u] \in {"save", "commit"}}

-----------------------------------------------------------------------------
(* _save_contacts, for any thread.                                         *)

\* The snapshot of the whole list.
SaveContacts(t) ==
  /\ pc[t] = "save"
  /\ Goto(t, "commit")
  /\ local' = [local EXCEPT ![t].copy = contacts]
  /\ UNCHANGED <<ramVars, flagVars, storedVars, ghostVars>>

\* The end of the call. Of the callers remove_contact alone goes on, to
\* _delete_history.
SavedContacts(t) ==
  /\ pc[t] = "commit"
  /\ IF local[t].pub = Nothing THEN Return(t)
     ELSE Goto(t, "forget") /\ local' = [local EXCEPT ![t].copy = Nothing]
  /\ UNCHANGED <<ramVars, flagVars, storedHistory, orphaned, lost>>

CommitContacts(t) ==
  /\ SavedContacts(t)
  /\ storedContacts' = local[t].copy
  /\ UNCHANGED stale

\* The error is printed, and the call goes on.
CommitContactsFails(t) ==
  /\ SavedContacts(t)
  /\ stale' = TRUE
  /\ UNCHANGED storedContacts

-----------------------------------------------------------------------------
(* _save_history and _flush_dirty_history, for any thread.                 *)

\* Only a contact's history is marked.
SaveHistory(t) ==
  /\ pc[t] = "mark"
  /\ IF IsContact(local[t].pub)
     THEN /\ Goto(t, "ask")
          /\ dirty' = dirty \cup {local[t].pub}
          /\ local' = [local EXCEPT ![t].pub = Nothing]
     ELSE Return(t) /\ UNCHANGED dirty
  /\ UNCHANGED <<contacts, history, marks, awaiting, flagVars, storedVars, ghostVars>>

\* Mutant of AskForWorker: it asks for the service instead of the worker.
AskForService(t) ==
  /\ pc[t] = "ask"
  /\ IF running THEN Return(t) ELSE Goto(t, "list") /\ UNCHANGED local
  /\ UNCHANGED <<ramVars, flagVars, storedVars, ghostVars>>

\* With no worker to do it later the thread flushes itself.
AskForWorker(t) ==
  /\ pc[t] = "ask"
  /\ IF workerRunning THEN Return(t) ELSE Goto(t, "list") /\ UNCHANGED local
  /\ UNCHANGED <<ramVars, flagVars, storedVars, ghostVars>>

\* The list of what is dirty; nothing is to be done if that is nothing.
List(t) ==
  /\ IF dirty = {} THEN Return(t)
     ELSE Goto(t, "clear") /\ local' = [local EXCEPT ![t].todo = dirty]
  /\ UNCHANGED <<ramVars, flagVars, storedVars, ghostVars>>

FlushList(t) == pc[t] = "list" /\ List(t)

\* Whatever was marked since the list was made is cleared with the rest.
FlushClear(t) ==
  /\ pc[t] = "clear"
  /\ Goto(t, "flush")
  /\ dirty' = {}
  /\ lost' = lost \cup (dirty \ local[t].todo)
  /\ UNCHANGED <<contacts, history, marks, awaiting, flagVars, storedVars, local,
                 orphaned, stale>>

\* The rest of the list, or the end of the flush.
Continue(t, todo) ==
  IF todo = {} THEN Return(t)
  ELSE /\ Goto(t, "flush")
       /\ local' = [local EXCEPT ![t].todo = todo, ![t].pub = Nothing,
                                 ![t].held = Nothing]

\* The next of the list. If it is still a contact, its live list of messages
\* is what will be written.
FlushNext(t) ==
  /\ pc[t] = "flush"
  /\ \E p \in local[t].todo :
       IF IsContact(p)
       THEN /\ Goto(t, "put")
            /\ local' = [local EXCEPT ![t].todo = @ \ {p}, ![t].pub = p]
       ELSE Continue(t, local[t].todo \ {p})
  /\ UNCHANGED <<ramVars, flagVars, storedVars, ghostVars>>

\* The commit of one history.
FlushCommit(t) ==
  /\ pc[t] = "put"
  /\ LET p    == local[t].pub
         live == local[t].held = Nothing
     IN  /\ storedHistory' = [storedHistory EXCEPT ![p] =
                Written(IF live THEN Shown(p) ELSE local[t].held)]
         /\ lost' = IF live THEN lost \ {p} ELSE lost
  /\ Continue(t, local[t].todo)
  /\ UNCHANGED <<ramVars, flagVars, storedContacts, orphaned, stale>>

\* The error is printed; the mark is gone already.
FlushCommitFails(t) ==
  /\ pc[t] = "put"
  /\ lost' = lost \cup {local[t].pub}
  /\ Continue(t, local[t].todo)
  /\ UNCHANGED <<ramVars, flagVars, storedVars, orphaned, stale>>

-----------------------------------------------------------------------------
(* Messages: send_dm and _handle_dm add one, the worker changes its marks.  *)

Unused == {i \in Numbers : marks[i] = "none"}

\* The checks and _tx_dm of send_dm, the checks and decode_dm of _handle_dm:
\* from here on the call does not ask again whether p is a contact until it
\* comes to _save_history.
Begin(t, p, i, mark) ==
  /\ pc[t] = "rest"
  /\ IsContact(p)
  /\ i \in Unused /\ \A j \in Unused : i <= j
  /\ marks' = [marks EXCEPT ![i] = mark]
  /\ local' = [local EXCEPT ![t].pub = p, ![t].msg = i]
  /\ Goto(t, "append")
  /\ UNCHANGED <<contacts, history, dirty, flagVars, storedVars, ghostVars>>

\* The acknowledgement is expected before the message is in the chat.
SendDm(t, p, i) == Begin(t, p, i, "sending") /\ awaiting' = awaiting \cup {<<p, i>>}

HandleDm(w, p, i) == Begin(w, p, i, "received") /\ UNCHANGED awaiting

\* _add_dm: setdefault makes a list where there is none, contact or not.
AddDm(t) ==
  /\ pc[t] = "append"
  /\ Goto(t, "mark")
  /\ LET p == local[t].pub
     IN  history' = [history EXCEPT ![p] = Capped(Append(Shown(p), local[t].msg))]
  /\ UNCHANGED <<contacts, marks, awaiting, dirty, flagVars, storedVars, local,
                 ghostVars>>

\* Mutant of Mark: the verdict is not saved.
MarkUnsaved(w, p, i, mark) ==
  /\ pc[w] = "rest"
  /\ <<p, i>> \in awaiting
  /\ marks' = [marks EXCEPT ![i] = mark]
  /\ UNCHANGED <<contacts, history, dirty, flagVars, storedVars, pc, local, ghostVars>>

\* The end of _mark_delivered and of _give_up: the mark, then _save_history.
Mark(w, p, i, mark) ==
  /\ pc[w] = "rest"
  /\ <<p, i>> \in awaiting
  /\ marks' = [marks EXCEPT ![i] = mark]
  /\ local' = [local EXCEPT ![w].pub = p]
  /\ Goto(w, "mark")
  /\ UNCHANGED <<contacts, history, dirty, flagVars, storedVars, ghostVars>>

MarkDelivered(w, p, i) == Mark(w, p, i, "delivered") /\ awaiting' = awaiting \ {<<p, i>>}

\* A message whose send_dm has come to _retries.append is given up, once. Its
\* acknowledgement is still expected.
GiveUp(w, p, i) ==
  /\ marks[i] = "sending"
  /\ \A t \in Senders : local[t].msg # i
  /\ Mark(w, p, i, "failed")
  /\ UNCHANGED awaiting

\* Mutant of ChangeContact: the change is not saved.
ChangeContactUnsaved(w, p) ==
  /\ pc[w] = "rest"
  /\ IsContact(p)
  /\ \E e \in Entries \ {contacts[p]} : contacts' = [contacts EXCEPT ![p] = e]
  /\ stale' = (OthersSaving(w) # {})
  /\ UNCHANGED <<history, marks, awaiting, dirty, flagVars, storedVars, pc, local,
                 orphaned, lost>>

\* _learn_path, _reset_path and the renaming in _handle_advert: the entry of a
\* contact changes and the list is saved.
ChangeContact(w, p) ==
  /\ pc[w] = "rest"
  /\ IsContact(p)
  /\ \E e \in Entries \ {contacts[p]} : contacts' = [contacts EXCEPT ![p] = e]
  /\ stale' = (OthersSaving(w) # {})
  /\ Goto(w, "save")
  /\ UNCHANGED <<history, marks, awaiting, dirty, flagVars, storedVars, local,
                 orphaned, lost>>

-----------------------------------------------------------------------------
(* The worker's own part: the idle flush and the way out.                  *)

IdleFlush(w) == pc[w] = "rest" /\ dirty # {} /\ List(w)

\* The loop ends; the flag is still up.
Leave(w) ==
  /\ pc[w] = "rest"
  /\ ~running
  /\ Goto(w, "exit")
  /\ UNCHANGED <<ramVars, flagVars, storedVars, local, ghostVars>>

\* The flag goes down, then comes the last flush.
LowerFlag(w) ==
  /\ pc[w] = "exit"
  /\ workerRunning' = FALSE
  /\ local' = [local EXCEPT ![w].last = TRUE]
  /\ Goto(w, "list")
  /\ UNCHANGED <<ramVars, running, storedVars, ghostVars>>

-----------------------------------------------------------------------------
(* The user interface thread.                                              *)

\* add_contact, with any name. A list of messages that is there already stays.
AddContact(p) ==
  /\ pc[UI] = "rest"
  /\ ~IsContact(p)
  /\ \E e \in Entries : contacts' = [contacts EXCEPT ![p] = e]
  /\ history' = [history EXCEPT ![p] = Shown(p)]
  /\ stale' = (OthersSaving(UI) # {})
  /\ Goto(UI, "save")
  /\ UNCHANGED <<marks, awaiting, dirty, flagVars, storedVars, local, orphaned, lost>>

\* A flush that is about to write p's history keeps the list it holds.
KeepsHolding(t, p) ==
  IF pc[t] = "put" /\ local[t].pub = p /\ local[t].held = Nothing
  THEN [local[t] EXCEPT !.held = Shown(p)]
  ELSE local[t]

\* remove_contact: the list is saved, then the history deleted.
RemoveContact(p) ==
  /\ pc[UI] = "rest"
  /\ IsContact(p)
  /\ contacts' = [contacts EXCEPT ![p] = NoContact]
  /\ history' = [history EXCEPT ![p] = NoList]
  /\ local' = [t \in Threads |-> IF t = UI THEN [local[UI] EXCEPT !.pub = p]
                                 ELSE KeepsHolding(t, p)]
  /\ stale' = (OthersSaving(UI) # {})
  /\ orphaned' = orphaned \cup {p}
  /\ Goto(UI, "save")
  /\ UNCHANGED <<marks, awaiting, dirty, flagVars, storedVars, lost>>

\* _delete_history: first the mark, then the stored list.
ForgetMark ==
  /\ pc[UI] = "forget"
  /\ dirty' = dirty \ {local[UI].pub}
  /\ Goto(UI, "erase")
  /\ UNCHANGED <<contacts, history, marks, awaiting, flagVars, storedVars, local,
                 ghostVars>>

DeleteHistory ==
  /\ pc[UI] = "erase"
  /\ Return(UI)
  /\ storedHistory' = [storedHistory EXCEPT ![local[UI].pub] = NoList]
  /\ UNCHANGED <<ramVars, flagVars, storedContacts, ghostVars>>

DeleteHistoryFails ==
  /\ pc[UI] = "erase"
  /\ Return(UI)
  /\ UNCHANGED <<ramVars, flagVars, storedVars, ghostVars>>

\* start, and the two halves of restart; both go on to _ensure_worker.
Start ==
  /\ pc[UI] = "rest"
  /\ ~running
  /\ running' = TRUE
  /\ Goto(UI, "start")
  /\ UNCHANGED <<ramVars, workerRunning, storedVars, local, ghostVars>>

Restart ==
  /\ pc[UI] = "rest"
  /\ running' = FALSE
  /\ Goto(UI, "raise")
  /\ UNCHANGED <<ramVars, workerRunning, storedVars, local, ghostVars>>

Raise ==
  /\ pc[UI] = "raise"
  /\ running' = TRUE
  /\ Goto(UI, "start")
  /\ UNCHANGED <<ramVars, workerRunning, storedVars, local, ghostVars>>

EnsureWorker ==
  /\ pc[UI] = "start"
  /\ IF workerRunning
     THEN Goto(UI, "rest") /\ UNCHANGED workerRunning
     ELSE \E w \in Workers :
            /\ pc[w] = "gone"
            /\ pc' = [pc EXCEPT ![UI] = "rest", ![w] = "rest"]
            /\ workerRunning' = TRUE
  /\ UNCHANGED <<ramVars, running, storedVars, local, ghostVars>>

\* stop: the flag goes down, and at its end it flushes.
Stop ==
  /\ pc[UI] = "rest"
  /\ running
  /\ running' = FALSE
  /\ Goto(UI, "list")
  /\ UNCHANGED <<ramVars, workerRunning, storedVars, local, ghostVars>>

\* The thread that brings up the radio lowers the flag when it fails.
RadioInitFails ==
  /\ running
  /\ running' = FALSE
  /\ UNCHANGED <<ramVars, workerRunning, storedVars, pc, local, ghostVars>>

-----------------------------------------------------------------------------
(* A restart of the device.                                                *)

\* What _load_contacts makes of a stored history: the messages and their marks.
LoadedList(p) == IF storedContacts[p] = NoContact THEN NoList
                 ELSE [k \in 1..Len(Stored(p)) |-> Stored(p)[k][1]]

LoadedMark(i) ==
  LET stored == UNION {{Stored(p)[k] : k \in DOMAIN Stored(p)} : p \in Pubkeys}
      of_i   == {e \in stored : e[1] = i}
  IN  IF of_i = {} THEN marks[i] ELSE (CHOOSE e \in of_i : TRUE)[2]

\* The device loses power, or reboots, at any point; _load_contacts then reads
\* the preferences. _retries, _pending_acks and the marks of what was not yet
\* written are gone.
Reboot ==
  /\ contacts' = storedContacts
  /\ history' = [p \in Pubkeys |-> LoadedList(p)]
  /\ marks' = [i \in Numbers |-> LoadedMark(i)]
  /\ awaiting' = {} /\ dirty' = {}
  /\ running' = FALSE /\ workerRunning' = FALSE
  /\ pc' = AtRest
  /\ local' = [t \in Threads |-> NoLocals]
  /\ orphaned' = orphaned \cup
       {p \in Pubkeys : storedContacts[p] = NoContact /\ Stored(p) # <<>>}
  /\ lost' = {} /\ stale' = FALSE
  /\ UNCHANGED storedVars

-----------------------------------------------------------------------------
Save(t) ==
  \/ SaveContacts(t) \/ CommitContacts(t)
  \/ SaveHistory(t) \/ AskForWorker(t)
  \/ FlushList(t) \/ FlushClear(t) \/ FlushNext(t) \/ FlushCommit(t)

Message(t) ==
  \/ \E p \in Pubkeys, i \in Numbers :
       \/ t \in Senders /\ SendDm(t, p, i)
       \/ t \in Workers /\ (HandleDm(t, p, i) \/ MarkDelivered(t, p, i) \/ GiveUp(t, p, i))
  \/ AddDm(t)

\* What the threads do with the calls that were made.
Work ==
  \/ \E t \in Threads : Save(t) \/ Message(t)
  \/ \E w \in Workers : IdleFlush(w) \/ Leave(w) \/ LowerFlag(w)
  \/ ForgetMark \/ DeleteHistory \/ Raise \/ EnsureWorker

Changes ==
  \/ \E p \in Pubkeys : AddContact(p) \/ RemoveContact(p)
  \/ \E w \in Workers, p \in Pubkeys : ChangeContact(w, p)

Failures ==
  \/ \E t \in Threads : CommitContactsFails(t) \/ FlushCommitFails(t)
  \/ DeleteHistoryFails

Switches == Start \/ Restart \/ Stop \/ RadioInitFails

Next ==
  \/ Work /\ UNCHANGED events
  \/ /\ Changes \/ Switches \/ Failures \/ Reboot
     /\ events < EVENTS
     /\ events' = events + 1

Spec == Init /\ [][Next]_vars

-----------------------------------------------------------------------------
Quiet == \A t \in Threads : pc[t] \in {"rest", "gone"}

\* Threads that will still write p's history, or mark it.
Carries(t, p) ==
  \/ pc[t] = "mark" /\ local[t].pub = p
  \/ p \in local[t].todo
  \/ pc[t] = "put" /\ local[t].pub = p

\* What the chat shows of a contact is in the preferences, or marked, or on its
\* way there. The exceptions are those named: a mark that was set while a
\* flush was between its list and its clear, a write that failed, and a
\* companion whose old history may be left behind (_save_history,
\* _flush_dirty_history).
HistoryTracked ==
  \A p \in Pubkeys \ (orphaned \cup lost) :
    IsContact(p) =>
      \/ Stored(p) = Written(Shown(p))
      \/ p \in dirty
      \/ \E t \in Threads : Carries(t, p)

\* When there is no worker and every call has returned nothing is left marked:
\* nobody would write it ("persist anything pending as the worker exits").
OffIsFlushed == ~workerRunning /\ Quiet => dirty = {}

\* The stored contact list is the one in memory whenever nobody is saving,
\* except after two saves overlapped or one failed; the next undisturbed save
\* puts that right (_save_contacts).
ContactsStored ==
  ~stale /\ (\A t \in Threads : pc[t] \notin {"save", "commit"})
    => storedContacts = contacts
=============================================================================
