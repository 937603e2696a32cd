----------------------------- MODULE ChatScreens -----------------------------
(***************************************************************************)
(* Messages on their way to the user: the histories and unread counters of *)
(* the manager, the subscribers it notifies, the home screen with its      *)
(* badges and the chat screens that freeze the divider, render the history *)
(* and clear the counter.                                                  *)
(*                                                                         *)
(* Three threads run through this code: the user interface, the worker     *)
(* that takes in messages, and the thread that sends a direct message. An  *)
(* action runs from one access of shared state to the next. A channel and  *)
(* a direct chat differ in who adds the user's own messages and in which   *)
(* badges an event refreshes; everything else is written twice in the code *)
(* and once here.                                                          *)
(*                                                                         *)
(* External: one screen is in the foreground at a time, and what a thread  *)
(* marshals to the user interface runs there in order, if the screen it    *)
(* came from is still in the foreground, and is dropped otherwise.         *)
(***************************************************************************)
EXTENDS Integers, FiniteSets, SequencesExt

CONSTANTS
  Chats,          \* channels and contacts
  Contacts,       \* those of them that are contacts
  Home,           \* the home screen
  MAX_MESSAGES,   \* the cap of a history
  EVENTS,         \* a bound of the model: messages, marks, chats removed or added
  SENDS,          \* a bound of the model: how many of them are sent by the user
  VISITS          \* a bound of the model: how many screens are opened

ASSUME ScreensAssumption ==
  /\ Contacts \subseteq Chats
  /\ Home \notin Chats
  /\ MAX_MESSAGES \in Nat \ {0}
  /\ EVENTS \in Nat
  /\ SENDS \in Nat
  /\ VISITS \in Nat

VARIABLES
  joined,        \* the keys of _channels and _contacts
  messages,      \* _messages and _dm_messages: the numbers of the messages
  unread,        \* _unread
  subscribers,   \* _subscribers: the visits whose screen subscribed
  visits,        \* the screens opened so far, the current or last one at the end
  foreground,    \* whether that one is in the foreground
  readCount,     \* its _read_count
  label,         \* the messages it shows
  badges,        \* the counters the home screen shows
  uiQueue,       \* what was marshalled to the user interface
  pc, local,     \* where each thread is, and its local variables
  used,          \* events so far; a message is named by its event
  own, seen,     \* history: the user's own messages, those that were on a screen
  before,        \* history: those seen before this visit
  arriving,      \* history: the messages another thread was counting, or had just
                 \* uncounted, while this visit opened
  shifted,       \* history: whether the new messages are not the last of those
                 \* there were when it opened
  missed,        \* history: messages whose counter a closed chat has cleared
  ghosts,        \* history: what was added to or counted for a removed chat
  promised,      \* history: the messages this visit was notified of
  gap            \* history: a notification fell between refresh and subscription

manager == <<joined, messages, unread>>
screen  == <<visits, foreground, readCount, label, badges>>
history == <<own, seen, before, arriving, shifted, missed, ghosts, promised, gap>>
vars    == <<manager, subscribers, screen, uiQueue, pc, local, used, history>>

Threads == {"ui", "worker", "sender"}

Visit  == Len(visits)
Shown  == visits[Visit]
InHome == foreground /\ Shown = Home
InChat == foreground /\ Shown # Home

\* The local variables of a thread: the chat and message it handles, the
\* counter it read, the subscribers it has still to call, the visit it renders
\* and the messages it copied for that.
Unused == [key |-> Home, id |-> 0, count |-> 0, todo |-> {}, visit |-> 0, text |-> <<>>]

Init ==
  /\ joined = Chats
  /\ messages = [k \in Chats |-> <<>>]
  /\ unread = [k \in Chats |-> 0]
  /\ subscribers = {}
  /\ visits = <<>> /\ foreground = FALSE
  /\ readCount = 0 /\ label = <<>>
  /\ badges = [k \in Chats |-> 0]
  /\ uiQueue = <<>>
  /\ pc = [t \in Threads |-> "idle"]
  /\ local = [t \in Threads |-> Unused]
  /\ used = 0
  /\ own = {} /\ seen = {} /\ before = {} /\ arriving = {} /\ missed = {} /\ promised = {}
  /\ shifted = FALSE /\ gap = FALSE
  /\ ghosts = [k \in Chats |-> {}]

Goto(t, p) == pc' = [pc EXCEPT ![t] = p]

\* An event begins: thread t sets out at p to handle chat k.
Begin(t, p, k, id) ==
  /\ pc[t] = "idle"
  /\ used < EVENTS
  /\ used' = used + 1
  /\ Goto(t, p)
  /\ local' = [local EXCEPT ![t] = [Unused EXCEPT !.key = k, !.id = id]]

-----------------------------------------------------------------------------
\* _handle_group_text and _handle_dm: a new message of a chat we are in.
Hear(k) ==
  /\ k \in joined
  /\ Begin("worker", "add", k, used + 1)
  /\ UNCHANGED <<manager, subscribers, screen, uiQueue, history>>

\* The worker changed a mark: delivered, confirmed, resent, failed. The record
\* may be of a chat that was removed.
HearMark(k) ==
  /\ Begin("worker", "notify", k, 0)
  /\ UNCHANGED <<manager, subscribers, screen, uiQueue, history>>

\* The send button of the chat in the foreground. A message to a channel is
\* sent by the user interface itself, a direct one by a thread of its own.
Send ==
  /\ InChat
  /\ pc["ui"] = "idle"
  /\ Shown \in joined
  /\ Cardinality(own) < SENDS
  /\ Begin(IF Shown \in Contacts THEN "sender" ELSE "ui", "add", Shown, used + 1)
  /\ own' = own \cup {used + 1}
  /\ UNCHANGED <<manager, subscribers, screen, uiQueue, seen, before, arriving,
                 shifted, missed, ghosts, promised, gap>>

\* Mutant of Capped: no message is dropped.
Uncapped(msgs) == msgs

\* A history keeps its last messages.
Capped(msgs) == IF Len(msgs) > MAX_MESSAGES THEN Tail(msgs) ELSE msgs

\* _add_message and _add_dm. setdefault makes the history anew if the chat was
\* removed. Only an incoming message is counted.
Add(t) ==
  LET k == local[t].key
      m == local[t].id
      all == Append(messages[k], m)
  IN  /\ pc[t] = "add"
      /\ Goto(t, IF t = "worker" THEN "bump" ELSE "notify")
      /\ messages' = [messages EXCEPT ![k] = Capped(all)]
      /\ ghosts' = [ghosts EXCEPT ![k] = IF k \in joined THEN @ ELSE @ \cup {m}]
      /\ shifted' = (shifted \/ (InChat /\ Shown = k /\ Capped(all) # all))
      /\ arriving' = IF pc["ui"] = "freeze" THEN arriving \cup {m} ELSE arriving
      /\ UNCHANGED <<joined, unread, subscribers, screen, uiQueue, local, used,
                     own, seen, before, missed, promised, gap>>

\* Mutant of Bump: a message of the chat that is open is not counted.
BumpUnlessOpen(t) ==
  /\ pc[t] = "bump"
  /\ Goto(t, IF InChat /\ Shown = local[t].key THEN "notify" ELSE "store")
  /\ local' = [local EXCEPT ![t].count = unread[local[t].key]]
  /\ UNCHANGED <<manager, subscribers, screen, uiQueue, used, history>>

\* _bump_unread reads the counter ...
Bump(t) ==
  /\ pc[t] = "bump"
  /\ Goto(t, "store")
  /\ local' = [local EXCEPT ![t].count = unread[local[t].key]]
  /\ UNCHANGED <<manager, subscribers, screen, uiQueue, used, history>>

\* ... and writes it.
Store(t) ==
  LET k == local[t].key
  IN  /\ pc[t] = "store"
      /\ Goto(t, "notify")
      /\ unread' = [unread EXCEPT ![k] = local[t].count + 1]
      /\ local' = [local EXCEPT ![t].count = 0]
      /\ ghosts' = [ghosts EXCEPT ![k] = IF k \in joined THEN @ ELSE @ \cup {local[t].id}]
      /\ UNCHANGED <<joined, messages, subscribers, screen, uiQueue, used,
                     own, seen, before, arriving, shifted, missed, promised, gap>>

-----------------------------------------------------------------------------
\* Home has read the counters and has not subscribed yet.
HomeIsDeaf == pc["ui"] = "subscribe" /\ Shown = Home

\* A thread goes on to its next subscriber, or is done.
NextCall(t, todo) ==
  /\ Goto(t, IF todo = {} THEN "idle" ELSE "calls")
  /\ local' = [local EXCEPT ![t] = IF todo = {} THEN Unused
                                   ELSE [@ EXCEPT !.todo = todo, !.visit = 0, !.text = <<>>]]

\* _notify copies the list of subscribers,
Notify(t) ==
  /\ pc[t] = "notify"
  /\ NextCall(t, subscribers)
  /\ gap' = (gap \/ HomeIsDeaf)
  /\ promised' = IF Visit \in subscribers /\ Shown = local[t].key
                 THEN promised \cup {local[t].id}
                 ELSE promised
  /\ UNCHANGED <<manager, subscribers, screen, uiQueue, used, own, seen, before,
                 arriving, shifted, missed, ghosts>>

\* The badges an event of a chat refreshes: those of its tab.
TabOf(k) == IF k \in Contacts THEN Contacts ELSE Chats \ Contacts

\* What the home screen of visit v marshals: read the counters of these chats.
Refresh(v, chats) == [visit |-> v, chats |-> chats, text |-> <<>>]

\* What a chat screen marshals: show these messages.
Show(v, text) == [visit |-> v, chats |-> {}, text |-> text]

\* and calls each, though it may have unsubscribed by now. The home screen
\* marshals a refresh; a chat screen renders if the event is of its chat.
Call(t) ==
  /\ pc[t] = "calls"
  /\ \E v \in local[t].todo :
       IF visits[v] = local[t].key
       THEN /\ Goto(t, "clear")
            /\ local' = [local EXCEPT ![t].todo = @ \ {v}, ![t].visit = v]
            /\ UNCHANGED uiQueue
       ELSE /\ NextCall(t, local[t].todo \ {v})
            /\ uiQueue' = IF visits[v] = Home
                          THEN Append(uiQueue, Refresh(v, TabOf(local[t].key)))
                          ELSE uiQueue
  /\ UNCHANGED <<manager, subscribers, screen, used, history>>

\* _render: clear_unread takes the counter,
Clear(t) ==
  LET k == local[t].key
  IN  /\ pc[t] = "clear"
      /\ Goto(t, IF unread[k] > 0 THEN "tell" ELSE "copy")
      /\ unread' = [unread EXCEPT ![k] = 0]
      /\ UNCHANGED <<joined, messages, subscribers, screen, uiQueue, local, used, history>>

\* Mutant of Tell: clear_unread notifies nobody.
TellNobody(t) ==
  /\ pc[t] = "tell"
  /\ Goto(t, "copy")
  /\ UNCHANGED <<manager, subscribers, screen, uiQueue, local, used, history>>

\* notifies the home screen if there was something in it (a chat screen ignores
\* "unread"),
Tell(t) ==
  /\ pc[t] = "tell"
  /\ Goto(t, "copy")
  /\ uiQueue' = uiQueue \o SetToSeq({Refresh(v, Chats) : v \in {w \in subscribers : visits[w] = Home}})
  /\ gap' = (gap \/ HomeIsDeaf)
  /\ UNCHANGED <<manager, subscribers, screen, local, used, own, seen, before,
                 arriving, shifted, missed, ghosts, promised>>

\* then copies the history
Copy(t) ==
  /\ pc[t] = "copy"
  /\ Goto(t, "post")
  /\ local' = [local EXCEPT ![t].text = messages[local[t].key]]
  /\ UNCHANGED <<manager, subscribers, screen, uiQueue, used, history>>

\* Where a thread goes on after _render: onResume subscribes next, and _notify
\* calls the next subscriber.
AfterRender(t) ==
  IF t = "ui" /\ Visit \notin subscribers
  THEN /\ Goto(t, "subscribe")
       /\ local' = [local EXCEPT ![t] = Unused]
  ELSE NextCall(t, local[t].todo)

\* Mutant of Post: one update in the queue is enough.
PostOnce(t) ==
  /\ pc[t] = "post"
  /\ uiQueue' = IF \E i \in DOMAIN uiQueue : uiQueue[i].visit = local[t].visit
                THEN uiQueue
                ELSE Append(uiQueue, Show(local[t].visit, local[t].text))
  /\ AfterRender(t)
  /\ UNCHANGED <<manager, subscribers, screen, used, history>>

\* and marshals it to its label.
Post(t) ==
  /\ pc[t] = "post"
  /\ uiQueue' = Append(uiQueue, Show(local[t].visit, local[t].text))
  /\ AfterRender(t)
  /\ UNCHANGED <<manager, subscribers, screen, used, history>>

-----------------------------------------------------------------------------
\* The user opens a screen: from home, from a notification, from elsewhere.
Open(s) ==
  /\ pc["ui"] = "idle"
  /\ ~foreground
  /\ Visit < VISITS
  /\ visits' = Append(visits, s)
  /\ foreground' = TRUE
  /\ Goto("ui", IF s = Home THEN "refresh" ELSE "count")
  /\ before' = IF s = Home THEN {} ELSE seen
  /\ UNCHANGED <<manager, subscribers, readCount, label, badges, uiQueue, local, used,
                 own, seen, arriving, shifted, missed, ghosts, promised, gap>>

\* The messages of the chat that another thread has in its hands.
InHands ==
  {m \in ToSet(messages[Shown]) :
     \/ pc["worker"] \in {"bump", "store"} /\ local["worker"].id = m
     \/ \E t \in Threads : pc[t] \in {"tell", "copy", "post"} /\ local[t].key = Shown}

\* Mutant of Count: the counter is read when _render() has cleared it.
CountCleared ==
  /\ pc["ui"] = "count"
  /\ Goto("ui", "freeze")
  /\ UNCHANGED <<manager, subscribers, screen, uiQueue, local, used, history>>

\* The onResume of a chat: how many messages are unread,
Count ==
  /\ pc["ui"] = "count"
  /\ Goto("ui", "freeze")
  /\ local' = [local EXCEPT !["ui"].count = unread[Shown]]
  /\ arriving' = InHands
  /\ UNCHANGED <<manager, subscribers, screen, uiQueue, used, own, seen, before,
                 shifted, missed, ghosts, promised, gap>>

\* A message of the user's own was added after one that was not on a screen.
OwnAfterNew(msgs) ==
  \E i, j \in DOMAIN msgs :
    i < j /\ msgs[i] \notin own \cup seen \cup missed /\ msgs[j] \in own

\* how many there are: the others were read. Then it renders, and subscribes.
Freeze ==
  LET read == Len(messages[Shown]) - local["ui"].count
  IN  /\ pc["ui"] = "freeze"
      /\ Goto("ui", "clear")
      /\ readCount' = IF read > 0 THEN read ELSE 0
      /\ local' = [local EXCEPT !["ui"] = [Unused EXCEPT !.key = Shown, !.visit = Visit]]
      /\ shifted' = (shifted \/ OwnAfterNew(messages[Shown]))
      /\ UNCHANGED <<manager, subscribers, visits, foreground, label, badges, uiQueue,
                     used, own, seen, before, arriving, missed, ghosts, promised, gap>>

\* The onResume of the home screen reads the counters before it subscribes.
RefreshHome ==
  /\ pc["ui"] = "refresh"
  /\ Goto("ui", "subscribe")
  /\ badges' = unread
  /\ UNCHANGED <<manager, subscribers, visits, foreground, readCount, label, uiQueue,
                 local, used, history>>

Subscribe ==
  /\ pc["ui"] = "subscribe"
  /\ Goto("ui", "idle")
  /\ subscribers' = subscribers \cup {Visit}
  /\ UNCHANGED <<manager, screen, uiQueue, local, used, history>>

\* onPause. (What a screen shows that is gone no longer matters. The last of the
\* VISITS is not left.)
Leave ==
  /\ pc["ui"] = "idle"
  /\ foreground
  /\ Visit < VISITS
  /\ foreground' = FALSE
  /\ subscribers' = subscribers \ {Visit}
  /\ readCount' = 0 /\ label' = <<>>
  /\ badges' = [k \in Chats |-> 0]
  /\ before' = {} /\ arriving' = {} /\ shifted' = FALSE
  /\ promised' = {} /\ gap' = FALSE
  /\ UNCHANGED <<manager, visits, uiQueue, pc, local, used, own, seen, missed, ghosts>>

\* The user interface runs what was marshalled first.
RunUpdate ==
  LET e == Head(uiQueue)
      alive == foreground /\ e.visit = Visit
      ids == ToSet(e.text)
  IN  /\ pc["ui"] = "idle"
      /\ uiQueue # <<>>
      /\ uiQueue' = Tail(uiQueue)
      /\ label' = IF alive /\ Shown # Home THEN e.text ELSE label
      /\ badges' = [k \in Chats |-> IF alive /\ k \in e.chats THEN unread[k] ELSE badges[k]]
      /\ seen' = IF alive THEN seen \cup ids ELSE seen
      /\ missed' = IF alive THEN missed ELSE missed \cup ids
      /\ UNCHANGED <<manager, subscribers, visits, foreground, readCount, pc, local, used,
                     own, before, arriving, shifted, ghosts, promised, gap>>

-----------------------------------------------------------------------------
\* remove_channel, remove_contact, from the home screen: the entry goes first,
RemoveChat(k) ==
  /\ InHome
  /\ k \in joined
  /\ Begin("ui", "drop", k, 0)
  /\ joined' = joined \ {k}
  /\ UNCHANGED <<messages, unread, subscribers, screen, uiQueue, history>>

\* then the history,
Drop ==
  /\ pc["ui"] = "drop"
  /\ Goto("ui", "forget")
  /\ messages' = [messages EXCEPT ![local["ui"].key] = <<>>]
  /\ UNCHANGED <<joined, unread, subscribers, screen, uiQueue, local, used, history>>

\* Mutant of Forget: the counter stays.
ForgetKept ==
  /\ pc["ui"] = "forget"
  /\ Goto("ui", "notify")
  /\ UNCHANGED <<manager, subscribers, screen, uiQueue, local, used, history>>

\* then the counter; then _notify.
Forget ==
  /\ pc["ui"] = "forget"
  /\ Goto("ui", "notify")
  /\ unread' = [unread EXCEPT ![local["ui"].key] = 0]
  /\ UNCHANGED <<joined, messages, subscribers, screen, uiQueue, local, used, history>>

\* add_channel, add_contact. What is there of the chat stays (setdefault).
AddChat(k) ==
  /\ InHome
  /\ k \notin joined
  /\ Begin("ui", "notify", k, 0)
  /\ joined' = joined \cup {k}
  /\ UNCHANGED <<messages, unread, subscribers, screen, uiQueue, history>>

-----------------------------------------------------------------------------
Deliver(t) ==
  Add(t) \/ Bump(t) \/ Store(t) \/ Notify(t) \/ Call(t)
  \/ Clear(t) \/ Tell(t) \/ Copy(t) \/ Post(t)

UiStep == Count \/ Freeze \/ RefreshHome \/ Subscribe \/ Drop \/ Forget

User ==
  \/ \E s \in Chats \cup {Home} : Open(s)
  \/ Leave \/ Send
  \/ \E k \in Chats : RemoveChat(k) \/ AddChat(k)

Next ==
  \/ \E k \in Chats : Hear(k) \/ HearMark(k)
  \/ \E t \in Threads : Deliver(t)
  \/ UiStep \/ RunUpdate \/ User

Spec == Init /\ [][Next]_vars

-----------------------------------------------------------------------------
Messages == 1..EVENTS

Pcs == {"idle", "add", "bump", "store", "notify", "calls", "clear", "tell", "copy",
        "post", "count", "freeze", "refresh", "subscribe", "drop", "forget"}

TypeOK ==
  /\ joined \subseteq Chats
  /\ \A k \in Chats : /\ messages[k] \in Seq(Messages)
                      /\ Len(messages[k]) <= MAX_MESSAGES
                      /\ unread[k] \in 0..EVENTS
                      /\ badges[k] \in 0..EVENTS
  /\ subscribers \subseteq 1..Visit
  /\ visits \in Seq(Chats \cup {Home})
  /\ readCount \in 0..MAX_MESSAGES
  /\ ToSet(label) \subseteq Messages
  /\ pc \in [Threads -> Pcs]
  /\ \A t \in Threads : local[t].key \in Chats \cup {Home} /\ local[t].todo \subseteq 1..Visit

\* No incoming message goes unnoticed: as long as it is in the history and was
\* on no screen, it is counted, about to be counted, or on its way to a screen.
\* Excused are messages whose chat was closed in the moment they were rendered
\* (their counter is cleared, they are not shown) and those of removed chats.
\* The render clears first and copies then, the worker adds first and counts
\* then: any other order loses one.
NothingIsMissed ==
  \A k \in Chats : \A m \in ToSet(messages[k]) \ (own \cup seen \cup missed \cup ghosts[k]) :
    \/ unread[k] > 0
    \/ pc["worker"] \in {"bump", "store"} /\ local["worker"].id = m
    \/ \E t \in Threads : \/ pc[t] \in {"tell", "copy"} /\ local[t].key = k
                          \/ m \in ToSet(local[t].text)
    \/ \E i \in DOMAIN uiQueue : m \in ToSet(uiQueue[i].text)

\* The line "new" stands where it should: above it there are only messages that
\* were on a screen before this visit, or the user's own; each message that was
\* in other hands while the chat opened may put it one too low. Excused are
\* messages already excused above; histories that overflowed since; and a direct
\* message of the user's own that was added after a new one came (shifted).
DividerIsRight ==
  ~shifted /\ 0 < readCount /\ readCount < Len(label) =>
    LET above == {label[i] : i \in 1..readCount} \ (own \cup before \cup missed)
    IN  Cardinality(above) <= Cardinality(arriving \cup ghosts[Shown])

Quiet == (\A t \in Threads : pc[t] = "idle") /\ uiQueue = <<>>

\* The badges of the home screen are the counters, whoever changes them, when
\* everything has come to rest: unless a notification fell into the moment
\* between its refresh and its subscription.
BadgesFollow ==
  Quiet /\ InHome /\ ~gap => \A k \in joined : badges[k] = unread[k]

\* A chat that was removed leaves nothing behind: neither history nor counter,
\* but for what a thread was adding in that moment (which comes back with the
\* chat if it is added again).
RemovedIsGone ==
  \A k \in Chats \ joined :
    pc["ui"] \notin {"drop", "forget"} =>
      /\ ToSet(messages[k]) \subseteq ghosts[k]
      /\ unread[k] > 0 => ghosts[k] # {}

\* A chat that is open is live: when everything has come to rest, every message
\* it was notified of has been on the screen, in whatever order several threads
\* rendered it.
OpenChatIsLive ==
  Quiet /\ InChat => promised \cap ToSet(messages[Shown]) \subseteq seen
==============================================================================
