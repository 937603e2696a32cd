# Verification of MeshCore for MicroPythonOS

TLA+ models of the program in `src/org.fri3d.meshcore/`, the TLC runs that check
them on small instances, and TLAPS proofs about them. Line numbers below are
those of `meshcore_manager.py` unless another file is named. `PROJECT.json`
maps every definition to the lines it stands for.

## 1. The system

One process on a badge: a singleton `MeshCoreManager` that owns the radio, and
the screens (`meshcore.py`) that call it. Nothing but the radio's SPI sections
is under a lock, so every other field of the manager is shared between threads
without one. The threads are

- the **user interface** thread: all screens, `start`/`stop`/`restart`, adding
  and removing contacts, `send_group_text`;
- one short-lived **send thread** per direct message (`DMChatActivity._send`,
  meshcore.py:945-965), which runs `send_dm`;
- the **worker** (`_process_loop`, 827-872): polls the radio, handles one
  received packet, transmits one queued packet, and when there was nothing of
  that to do runs the watchdog, the resends and the flush of chat histories;
- the **init thread** (`_radio_init_thread`, 607-619), which brings the radio up;
- threads that generate keys and precompute shared secrets.

### Inventory

| component | state | operations | hard behaviour | what must be true |
|---|---|---|---|---|
| direct messages, sender | `_contacts[..]["path"]`, `_retries`, `_pending_acks`, `_pending_order`, `_seen`, `_tx_queue`, the message dicts | `send_dm`, `_tx_dm`, `_retry_tick`, `_give_up`, `_handle_ack`, `_handle_path`, `_mark_delivered`, `_cancel_retry`, `_learn_path`, `_reset_path` | send threads against the worker; late, duplicated and lost acknowledgements; tables at their cap; stale routes | marks in the chat are true; every message gets one; late acknowledgements still count; a stale route costs one attempt |
| direct messages, receiver | `_seen`, `_recent`, `_recent_order`, `_dm_messages` | `_handle_dm`, `_dup_message`, `_send_ack` | resends and copies in any order, forgotten hashes | shown once, acknowledged each time |
| channel messages | `_retries`, `_repeater_heard`, `_seen`, `_recent`, `_messages` | `send_group_text`, `_tx_group`, `_note_echo`, `_retry_tick`, `_handle_group_text` | an echo is the only sign of delivery; a resend has another timestamp | marks are true, a message is shown once |
| radio service | `_running`, `_radio_ready`, `_radio`, `_worker_running`, `_bringup_in_progress`, `_rx_bad`, `_radio_lock`, the chip | `start`, `stop`, `restart`, `_ensure_worker`, `_spawn_radio_init`, `_process_loop`, `_rx_watchdog`, `_attempt_reinit`, `_bring_up_radio` | unguarded flags between three kinds of threads; a chip that goes deaf or wedges | one worker, one init thread, exclusive SPI; self-healing; off is idle |
| contacts and history | `_contacts`, `_dm_messages`, `_dirty_history`, preferences | `add_contact`, `remove_contact`, `_save_contacts`, `_save_history`, `_flush_dirty_history`, `_delete_history`, `_load_contacts` | snapshots and flushes from several threads, failed commits, restarts, a worker that ends | what is shown is stored, marked, or being written; nothing stays marked without a worker |
| identity | preferences, `_keygen_running`, the Me tab's `_keygen_busy` | `ensure_identity`, `generate_identity`, `_name_from_identity`, `set_nickname`, the Me tab's button | two guards and two kinds of threads for one key pair; a restart between key and name | a key that was stored is kept; key, name and adverts agree |
| companions | `_nodes`, `_seq`, the names in `_contacts`, the rows of the Companions tab | `_handle_advert`, `_evict_oldest_node`, `advertise`, `_refresh_nodes`, `add_contact` | the table at its cap; an echo of one's own advert; rows that are older than the table | the one heard longest ago goes; nobody is his own companion; a contact has the name it advertised |
| channel list | `_channels`, `channels_seeded` | `add_channel`, `remove_channel`, `_seed_default_channels` | removal while a message of the channel is handled | what is removed leaves nothing |
| unread counters, subscribers, home and chat screens | `_messages`, `_unread`, `_subscribers`, `_read_count`, the labels | `_add_message`, `_bump_unread`, `clear_unread`, `_notify`, `onResume`, `onPause`, `_render` | the worker, a send thread and the screen all render and count at once | no message is missed; the divider stands right; badges and open chats follow |
| codecs and cryptography | none | parse, serialise, encode, decode | boundaries of lengths | round trips |

The components meet in few places: `_ingest` hands a received packet to the
handler of its type after the shared hash table `_seen` has let it through;
everything to be sent goes through `_tx_queue`; `_retries` holds the records of
both kinds of messages; the contact list gives routes and secrets; `_notify`
calls the screens' subscribers, which only read.

What is hard to test in each is listed with its line under `hazards` in
`PROJECT.json`.

## 2. The modules

| module | what it is |
|---|---|
| `MeshPackets` | routes, what a packet hash and an acknowledgement hash depend on, the bounded FIFOs |
| `DmSender` | the sending side of direct messages on one device |
| `DmReceiver` | the receiving side, on each of the companions it writes to |
| `DmLink` | both, joined by a mesh that loses, delays, reorders and repeats |
| `DmPromise` | abstract: what the mark of a message promises its user; `DmLink` implements it |
| `RadioService` | the life of the service, the worker loop, watchdog, bring-up and chip |
| `ChannelSender`, `ChannelReceiver`, `ChannelLink` | the same split for channel messages, with a repeater |
| `ContactStore` | contacts and chat histories in memory, their copies in the preferences, restarts |
| `PacketCodec` | the packet on the wire: header, path length byte, parsing, serialising, packet hash |
| `PayloadCodec` | the payloads of direct messages, PATH returns, acknowledgements and channel messages |
| `RouteJourney` | packets byte by byte across a mesh: a route recorded, returned, kept, stored, used |
| `ChatScreens` | histories, unread counters, subscribers, the home screen and the chat screens |
| `Identity` | the key pair and the name of the node, with the threads that generate them |
| `AdvertCodec` | the payload of an advert, byte by byte |
| `Companions` | extends both: companions, contacts made of them, own adverts, restarts |
| `MC*` | constants for TLC |
| `DmReceiverProofs`, `DmLinkProofs` (with those about `DmSender`), `ChannelLinkProofs`, `RadioServiceProofs`, `ContactStoreProofs`, `ChatScreensProofs`, `CompanionsProofs`, `RouteJourneyProofs` | the proofs |

### State and steps

**DmSender.** `send_dm` is seven steps of its thread, because the worker and other
send threads can run between any two of them: the checks (`SendDm`); `_tx_dm` up to the
dictionary of expected acknowledgements (`FirstTx`), the append to its order (`OrderAck`),
each turn of the loop that cuts the order (`CutOrder`, which pops although the order may
be shorter than when it looked), the transmit queue (`QueueTx`); `_add_dm` (`AddDm`);
`_retries.append` (`Arm`). Each handler of the worker is one step
(`HandleAck`, `HandlePath`), and so is the loop body of `_retry_tick` for one
record (`Resend`, `GiveUp`), with `_register_pending` in it: the two threads meet in the
two tables wherever the send thread stands. `later` and `hasty` are histories of what
the cap may have done to a hash. `contacts[p]` keeps of an entry of `_contacts` whether
it is there and which route it has; the pair `_seen`/`_seen_set` is one
sequence. A packet's hash is the tuple of the fields that are hashed, so that
two hashes are equal exactly when the code's are (collisions aside):
`AckHash` has the text, the second and the two attempt bits, and *not* the
recipient. That `RETRY_AFTER_MS` has passed is nondeterministic: any record may
be due.

**DmReceiver.** `Receive` is `_ingest` with `_handle_dm` for one packet, on the
device it is addressed to: the hash table, `_dup_message` with window 0, and the
acknowledgement `_send_ack` chooses. The set `acks` stands for the device's
transmit queue and the air at once. Only the device's entry for the sender
matters here; it changes by itself (`ChangeBack`). `HearOther` is a channel message of
somebody else, which takes a place in both memories, `_seen` and `_recent`.
`since` and `repeated` are histories of what a text was pushed out by. The
module is checked within `DmLink`.

**DmLink.** What the sender's radio has sent stays in the set `air` and may reach
its recipient at any time, any number of times, or never; the same holds for
acknowledgements. `Mark` is `_send_mark` of the chat screen (meshcore.py:99-114),
and with it `DmLink` implements `DmPromise`: status and received messages are
the refinement mapping.

**RadioService.** One action runs from one access of a shared flag, the lock or
the chip to the next. Program counters `ui`, `wpc[w]`, `ipc[i]` say where the user
interface, each worker and each init thread is. Two names of each kind of
thread are enough for the old and the new generation of a restart. The chip is
one of receiving, fallen out of receive, wedged and asleep (external, as are
its glitches). `_rx_bad` has no cap in the code (776) and no type but `Nat` here;
`MAX_BAD` in the guard of `CountBad` bounds how far the run counts. (At that bound the
look that would count on is left to `DogThrows`, which does the rest of what it does.) `stop` and the end of the worker also flush chat histories; that
has no effect on this state.

**ChannelSender, ChannelReceiver, ChannelLink.** `send_group_text` is three steps
of the user interface thread. An attempt's packet is its text and timestamp
(`ts + attempt`), and its own hash. `NoteEcho` is `_ingest` of a packet whose hash
we remember, `MistakeEcho` of one of ours we have forgotten. `echoed` is a
history variable. The neighbour's `Receive` knows which message a packet is an
attempt of only for counting; its `_recent` is bounded like that of `DmReceiver`, and other
people's messages (`HearOther`) push texts out of it.

**ContactStore.** One action runs from one access of `_contacts`, `_dm_messages`,
`_dirty_history`, the flags or the preferences to the next; `pc` and `local` hold
where each thread is and its local variables. `SaveContacts` and
`CommitContacts` are the two halves of `_save_contacts`: the snapshot and the write.
`FlushList`, `FlushClear`, `FlushNext` and `FlushCommit` are the steps of
`_flush_dirty_history`, which the worker runs when idle and when it ends, `stop`
at its end, and whoever marks a history while there is no worker. The message
dictionaries are shared, so that a mark (`marks`) set after a message was put
into a list is in what is written: the write reads the live list, unless
`remove_contact` has taken that out of `_dm_messages` in between (`held`).
`send_dm`, `_handle_dm`, `_mark_delivered` and `_give_up` appear as far as they
touch this state; acknowledgements come in any order. The worker may begin a
round after `_running` went down, as if it had tested it just before. `Reboot` is a
restart of the device at any point, with `_load_contacts`.

`SharedPreferences` is external: a commit changes one dictionary (or one entry)
atomically or fails, and the last one to be made stays. The snapshot is atomic,
too: a dictionary that changes while it is iterated would raise, which the code
prints as a failed save. Three history variables name what may be lost:
`stale`, a save of the list overlapped another or failed; `lost`, a mark was
cleared unseen or a write failed; `orphaned`, a companion was removed.

**PacketCodec, PayloadCodec.** A packet is a record, on the wire a sequence of bytes;
a ValueError of `parse` and the None of a decoder are the constant `Malformed`.
Each byte of a payload also says who can read it: it is the number
256 * key + byte. `MacThenDecrypt` needs that key to see the byte, and so knows what the MAC
tells; AES, HMAC and SHA-256 themselves are external. A contact is the only
candidate for its hash. `DmAckHash` is four bytes that tell the plaintexts of a
run apart.

**RouteJourney.** Two devices with this program and repeaters, which are external
(`Forwarded`: add yourself to a flood's path, take yourself off a direct one's).
`SendDm`, `ResendDm` and `SendGroupText` build whole packets, `HandleDm`, `HandleGroupText`,
`HandlePath` and `HandleAck` are `_ingest` with the handler, and `Restart` stores the
route (`Saved`) and loads it again. `overheard` is a history: the rests of routes the contact
returned of direct packets it heard before their last hop. What the other modules say of threads, caps
and the number of attempts is not said again here. `HearForeign` puts any of a
large set of packets, most of them damaged, into `_rx_queue`.

**ChatScreens.** Threads are the user interface, the worker and one send thread; an
action runs from one access of `_messages`, `_unread`, `_subscribers` or a screen to
the next. `Add`, `Bump`, `Store` and `Notify` are `_add_message` or `_add_dm`, the two halves
of `_bump_unread`, and the copy of the subscribers in `_notify`; `Call` calls one of
them. `Clear`, `Tell`, `Copy` and `Post` are `_render`, which runs on whichever thread
was notified: `clear_unread`, its own `_notify("unread")`, `get_messages`, and the
text marshalled to the user interface. `Open`, `Count`, `Freeze`, `RefreshHome`, `Subscribe` and
`Leave` are `onResume` and `onPause`. The two chat screens are the same code twice
and one definition here; they differ in who adds the user's own message. A
message is the number of its event. The framework is external: a queue of
updates that run in order, and are dropped when their screen has left the
foreground. The history variables name the exceptions: `seen` and `own`; `arriving`,
what was in another thread's hands while a chat opened; `shifted`; `missed`; `ghosts`;
`gap`.

**Identity.** The steps of `generate_identity`, on the thread of `ensure_identity` or on
that of the button: `MakePair` (or `MakeFails`), `Commit`, which may fail, `ReadName` and
`Rename` for `_name_from_identity`, `Tell`, `Lower`. `CreateHome` is `onCreate` with `onResume`, in
the order of the code: the Me tab is drawn, then `ensure_identity` is called; a new
home screen has a guard of its own. Key pairs are numbered.

**Companions, AdvertCodec.** `HandleAdvert` is `_handle_advert` on the bytes of a payload,
with `parse_advert`, `_evict_oldest_node` and the renaming of a contact. Foreign
adverts are well-formed, damaged, of repeaters, with all the optional fields;
`Advertise` builds our own, which stay in the air and come back once their hash is
forgotten. `rows` is what the Companions tab shows, and what a tap adds as a
contact. `advertised` and `called` are histories: who advertised what and who did after, and
the name each contact has by its own account.

## 3. What is checked

| run | checks | instance |
|---|---|---|
| `link` | `DeliveredWasShown`, `PendingTracked`, `PendingWasSent`, `EveryAttemptIsExpected`, `ShownAgainIfForgotten`, `PromiseKept`, `ReliableLinkDelivers` | 2 messages to 1 companion, 2 attempts, 2 expected acknowledgements of 4, 1 hash and 1 text remembered |
| `link_edit` | `TypeOK`, `RecentTracked`, `FailedAfterAllSends`, `EveryCopyIsAcked`, `ResendAfterDirectFloods`, `EveryMessageSettles` | 1 message, 3 attempts, 1 route, 2 expected acknowledgements, 1 text remembered and 1 other text heard, 8 hashes, both sides editing their contacts |
| `radio` | `TypeOK`, `OneWorkerInLoop`, `OneInitThread`, `LockExcludes`, `SelfHeals` | 2 worker and 2 init threads, 2 bad looks before a re-init, 3 counted |
| `channel` | `ConfirmedWasRelayed`, `FailedAfterAllSends`, `ShownAgainIfForgotten` | 2 messages, 2 attempts, other traffic, 2 hashes and 1 text remembered, 1 text of somebody else |
| `store` | `TypeOK`, `HistoryTracked`, `OffIsFlushed`, `ContactsStored` | 2 companions, 2 entries, histories of 1 message, 2 messages in all, 1 send thread, 1 worker, 4 events |
| `routes` | `TypeOK`, `ParseInvertsToBytes`, `OnCourse`, `UnderstoodAsSent`, `AnsweredOnce` | 3 repeaters, one of them overheard, 2 transmissions, texts of 7 and 11 bytes, 279 foreign packets, the code's own sizes |
| `chat` | `TypeOK`, `NothingIsMissed`, `DividerIsRight`, `BadgesFollow`, `RemovedIsGone`, `OpenChatIsLive` | a channel and a direct chat, histories of 2 messages, 3 events of which 1 is a message sent, 2 screens opened |
| `companions` | `TypeOK`, `ActsAsOneNode`, `TablesFollowAdverts`, `IdentityIsKept` | 2 key pairs, 2 companions kept, 1 contact, 1 own advert, 4 adverts handled |
| `link_again` | `ShownOnce` is violated | the same text twice |
| `radio_off` | `OffIsIdle` is violated | as `radio` |
| `radio_lost` | `RunningHasWorker` is violated | as `radio` |
| `channel_echoed` | `EchoedIsNotRetried` is violated | 1 message |

**Bounds.** Messages, contacts, routes and texts are few because the code treats
all alike: what can go wrong between messages goes wrong between two. Attempts
are 2 or 3 instead of 4, so that first, last and (with 3) middle attempts
exist. The caps 64, 64 and 32 of the tables are 1 or 2, so that tables overflow
within a run, but for the 8 packet hashes of `link_edit`, where forgotten ones are not the question.
In `link` the order of expected acknowledgements is full while both
messages are retried: two send threads and the worker append to it and cut it,
the worker shortens an order that a thread is about to cut, a loop that trusted its look
loses an attempt that is still retried, and a message has all its hashes overtaken. (What
does not occur there is an order found empty, for which the cap would have to be 1; the
theorems cover that.) In `link` and `channel` one text fills the memory, so that
the other message, or what somebody else says, pushes it out. `MAX_SHOWN` counts
copies up to two: one too many. The two messages of `channel` differ in nothing the code
sees but their text, so they are symmetric (`AnyMessage`). `Editable` says which companions may edit their
contact list in `DmLink`; with two messages and editing the state space is out
of reach, so `link` and `link_edit` share the work. `EVENTS` in `ContactStore`
bounds together the changes of contacts and of `_running`, failed commits and
restarts of the device: four of them in any order, among them on, an added
contact, one disturbance and one more. A history of one message overflows with
the second. `routes` keeps the code's sizes (64, 184 and 16), for there the
boundaries are the question: 11 bytes of text fill a block with the 5 in front
of them. Its mesh has a short and a long way there and one way back, and the contact is in range of the
first repeater of the long way too; we start with that way stored or with none, so that
within two transmissions the contact overhears a direct packet, returns the rest of its route, and
we send along it. The two transmissions are two messages, or a message and its resend, or one of a
channel. Foreign packets come before the first message and restarts only when
there is a route to store: neither tells anything new elsewhere. In `chat`, `EVENTS`
bounds messages, marks and removed or added chats together: three are enough to
overflow a history of two and to have each thread at work at once; of `SENDS` one is the
user's own. `VISITS` are two, so that a chat is left and opened again, or left for
home; the last one is not left. In `companions`, `MAX_NODES` is 2 so that the third companion evicts one (the third
may be the node's own earlier key pair); `HEARD` bounds `_seq`; adverts of others
are heard once the key pairs are made, because what the handler does with
them and what the generating threads do commute; the button has one thread at a
time. In `radio`, `RX_BAD_LIMIT` is 2: the first bad look counts, the second acts; `MAX_BAD` is 3, so
that the count passes the limit while a re-init is put off (800-801).
`CHECK_DEADLOCK` is off where every message may be done, or every event
used up, and nothing is left to do; it is on for `radio`.

**Fairness.** `LiveLinkSpec`: a started send thread runs to its end, and the worker
comes round and finds a record due; both hold as long as the service is on, for
`RETRY_AFTER_MS` passes by itself. `ReliableLinkSpec`: besides send threads and
transmissions, each packet that is in the air is received in the end; an
assumption about the world, needed only for `ReliableLinkDelivers`. `LiveSpec` of
`RadioService`: threads run; the radio and the transmit queue are quiet at
infinitely many looks, so that idle rounds happen; the watchdog's two timers
run out; and a bring-up tried for ever works some day. Strong fairness is used
for those, because the loop only passes by the places in question. It is stated
for the workers together: by then one of them is in the loop (`OneWorkerInLoop`), and the
chip does not ask which.

**Divergences.** Four runs are expected to fail; each shows the code doing what
one of its comments or documents says it does not.

- `link_again`: `_recent` keeps one timestamp for a text. Send "ok", then "ok"
  again; a late resend of the first is shown again (1091-1092).
- `radio_off`: `stop()` during the bring-up; the radio listens with the service
  off (README.md:13).
- `radio_lost`: `start()` or `restart()` in the moment the worker has left its
  loop but `_worker_running` is still set; the service runs without a worker,
  the radio is deaf until the next stop and start (202).
- `channel_echoed`: the echo of an earlier attempt is not recognised, so that a
  message that was relayed is resent, and fails in the end (1258-1260).

**Known limits** met while modelling, for which no run is spent: one dictionary
entry for the same text sent to two contacts in one second (the hash does not
name the recipient), so that one's acknowledgement marks the other's message;
`send_dm` appends the record after queueing the packet, so that an
acknowledgement in between does not stop the resends (1346, 1380, 1385; the model does this, and
`PromiseKept` allows it: the check mark stays); two threads in the loop of
`_register_pending` may cut the order below its cap, and the attempt that goes with it is not
found any more (1332-1333; `hasty`), or find it empty, and `send_dm` returns an error; a
direct message answered by a PATH return when the recipient has no route back
(1149), against `_send_ack`'s docstring: one that overhears an earlier hop of the
route returns hops that are still ahead, so that the sender learns a route that
may not start where it is. Its next direct packet may be heard by nobody (`OnCourse` excepts that
one transmission, and the run reaches it; it costs an attempt); a timeout that forgets a newer route
than the one the attempt used (1293-1296); a message given up while its last
attempts wait in the transmit queue, for `sent_ms` is set when they are queued
(1411); a re-init of the watchdog alongside the init thread (533-534, 761); a
start ignored while a failed init thread has not lowered its flag (535, 612-617);
a resend of a channel message that comes after a repeat five seconds later
(934); and an echo of our own channel message whose hash was forgotten (951), which is
shown as somebody's (`MistakeEcho`): no property forbids that. `_bring_up_radio` talks to the chip
without the lock, so a re-init may come into a worker's receive: `LockExcludes` is about the
locked sections only. Of the codecs: a nickname with ": " in it is cut there by `decode_group_text`
(meshcore_channel.py:338); `send_dm` and `send_group_text` do not bound the text,
and a payload of more than 184 bytes is refused by every `parse`
(meshcore_packet.py:194). Of storage: `remove_contact` between a flush's check and its commit leaves
the deleted history stored (1538-1544), against "also deletes the chat history"
(meshcore.py:456); of two overlapping `_save_contacts` the older snapshot may be
written last, so that a restart loses a contact or a route unless another save
follows (1504-1517); a mark set between `list` and `clear` of a flush is lost
(1535-1536); a message that was being sent when the device restarted shows
"sending" for ever, since its record is gone (1500); and a send thread that
outlives its contact makes a history in memory again (1414). Of the radio:
resends, watchdog and flush come in idle rounds only, so a channel that is
never quiet postpones them without bound (861); a packet whose
`_transmit` finds the radio gone is dropped; a bring-up thread that fails
turns the service off (612-616).

Of the screens: a chat that is left between `_render`'s clearing and its showing has
its counter cleared and its message not shown (meshcore.py:816 and 933); a message
that comes after a chat has rendered and before it has subscribed stays
counted, and is shown only with the next event (meshcore.py:846-848 and 976-978); two threads
that render the same chat copy in one order and may show in the other, so that
until the next event the older text stands, against "the chat view updates
live" (1598); the divider shifts when a full history drops its first message
(meshcore.py:118), and stands one too low if a message was added but not counted when the chat
opened, or a slow send thread adds the user's own message below a new one; the
badges of home miss an event that falls between refresh and subscription
(meshcore.py:709-713); a message that is being handled while its channel or contact is
removed brings history or counter back (1024-1025).

Of identity and companions: `onCreate` draws the Me tab before `ensure_identity` starts
its thread (meshcore.py:542 and 709), and `onResume` does not draw it again, so that the
button may be there while a key pair is made or stored; its guard is another
one than `ensure_identity`'s (323), and a new home screen has a new one. Pressed
then, it replaces the pair: the name badge_... of the first stays (308), contacts keep
the secrets cached for the old key (1048), and the node's old adverts make it its
own companion. A name the user picks between the two halves of
`_name_from_identity` is overwritten (303-310). A key pair that could not be stored gives its
name to the node all the same. `build_advert_appdata` cuts a name at 31 bytes, within a character
if need be. A tap on a row that is out of date gives the contact an old name.
`_evict_oldest_node` evicts contacts like any other, which its docstring calls safe (they keep
their record, and what is lost is the row), though the comment at its call speaks of the
least recently heard *non-contact* (975).

## 4. What is proved

TLAPS proves the following for all values of the constants, from the named
assumptions of the modules (`PathAssumption`, `SenderAssumption`,
`EditableAssumption`, `RecipientAssumption`, `ChannelAssumption`, `StampAssumption`,
`ServiceAssumption`, `StoreAssumption`, `ListAssumption`, `ScreensAssumption`, `IdentityAssumption`,
`AdvertAssumption`, `CompanionsAssumption`, `ForeignAssumption`, `CodecAssumption`,
`BlockAssumption`, `JourneyAssumption`, `RoutesAssumption`, `FitAssumption`, `NeighbourAssumption`) and, where it says
so, from a condition on the messages. `ForeignAssumption` says what the adverts of others
are: bytes, of which a chat node's begin with its key and end with its name or without one.

**DmLinkProofs, the sender.** `Spec => []TypeOK`, `[]PendingTracked`, `[]PendingWasSent`,
`[]FailedAfterAllSends`, and the action property `ResendAfterDirectFloods`: for
any messages, contacts, routes, number of attempts and caps. The inductive
invariant `IInv` is the conjunction of the types, the agreement of the two tables, and
where a message must be for each of its facts: expected hashes, a record or a
cross belong to one whose thread has come far enough. Without the last part
`PendingWasSent` is not inductive: `FirstTx` sets the attempt of a message back to 0,
which is right only if nothing of it is expected yet. The proof needs the
lemmas of the same module on the bounded FIFOs (what `Push`, `Remember` and
the removal of a first occurrence leave in a sequence). A step that only takes
acknowledgements and records away is treated once (`ForgettingStep`).

`[]EveryAttemptIsExpected` has no condition: it holds for any cap, any messages and any turns of send
threads and worker, and says which hashes it leaves out. A hash is `Overtaken` if as many others
as the cap entered the order after it, or if a loop cut it from an order that was short enough;
it is `Shared` if another message has the same text and second. The
invariant says where in the order a hash stands: no more entries follow it than `later`
counts, so that the head of an order beyond its cap has been overtaken.

**RadioServiceProofs.** `Spec => []TypeOK`, `[]OneWorkerInLoop`,
`[]OneInitThread`, `[]LockExcludes`, for any number of threads of each kind.
Here the safety properties are inductive together with the types: that is why
`OneWorkerInLoop` and `OneInitThread` also say what their flag tells.

**ContactStoreProofs.** `Spec => []TypeOK`, `[]OffIsFlushed`, `[]ContactsStored`, for
any companions, threads, caps and bounds. `OffIsFlushed` says something only of
moments when every call has returned; what makes it inductive is
`FlushPromised`: while there is no worker, a marked history has a thread that is
about to ask for the worker, to list what is dirty or to clear it. The worker's
order matters here, first the flag and then the flush (871-872), and so does
that of `_save_history`, first the mark and then the question (1527-1528).
Likewise `ContactsStored` needs `SavePromised`: unless a save was disturbed, a list
that differs from the stored one has a thread that is about to take the
snapshot, or holds one that is up to date. `LocalsSet` says which local variables
are in use where. Each helper that moves a thread (`Goto`, `Return`, `Continue`,
`List`) has a lemma on types and one on moves, which the steps of the actions cite.

`[]HistoryTracked` is the long one. Marks are part of what is stored, so a mark set on one
companion's message must not make another's stored list stale: a message belongs to one companion,
in memory, in the preferences and in the hands of a thread (`OneOwner`), and a stored list says one
thing of a message (`StoredSound`). A thread's local variables are empty where it does not use them
(`Clean`), and who is no contact and was never removed has no messages (`StrangersAreEmpty`), so
that a companion that is added starts with what is stored of it. With these the
worker's list, write and clear, the save of a switched-off service and the removal of a contact each
leave the history stored, marked or carried, or set one of the named exceptions.

**DmReceiverProofs.** `Spec => []TypeOK`, `[]RecentTracked` and `EveryCopyIsAcked` of the
receiving side on its own, which faces any packet of the sender at any time. The constants are
constrained by `ReceiverAssumption`, which `DmLink` assumes. `RecentTracked` counts; the
invariant says instead that no text is twice in the order (`OrderIsUnique`), from which the count
follows (`UniqueCounts`). That a copy is acknowledged rests on the kinds of hashes
being told apart (`KindsDiffer`) and on what a step can bring into the table (`HeardSubset`).
`ShownAgainIfForgotten`, for any messages, also those that say the same, and any length of the
memory: what was shown is remembered under its second until another message with its text takes the place
(`repeated`) or its text leaves the order. That happens to the head of a full order
only, after which `MAX_RECENT` other texts came, because the entries after a text are no more than
`since` counts.

**DmLinkProofs, the exchange.** First, that both sides within the link behave as they do alone:
`LinkSpec => Spec` of `DmSender` and of `DmReceiver`, because what the mesh brings them
is always a packet they are proved against (`AcksTyped`, `AirSent`). So every theorem above
holds of the exchange, among them `[]RecentTracked` and `EveryCopyIsAcked`. Then, if no two messages
have the same text and second (`DistinctMessages`; without it one's acknowledgement
marks the other, see the known limits), `[]DeliveredWasShown` and `PromiseKept`: the exchange
implements `DmPromise`. The invariant follows an acknowledgement through
the system: what is queued or in the air is of messages that were sent, what a recipient remembers under
a message's second was shown (`RecentShown`), what was acknowledged was shown (`AcksShown`), and an
expected hash belongs to the message it is of (`PendingWasSent`). Each step of the link is
then a step of the promise or changes neither marks nor what was shown: a first
transmission sends, an arrival that is shown receives, a record that ages out gives up unless
the check mark is there already, an acknowledgement delivers unless it did before.
`ShownAgainIfForgotten` and `[]EveryAttemptIsExpected` come from the two sides, and like them have no
condition.

**ChannelLinkProofs.** `LinkSpec => []TypeOK`, `[]ConfirmedWasRelayed` and
`[]FailedAfterAllSends` of the channel exchange. Neither is inductive alone: that the hash a
record waits for is the last attempt of its message (`HashIsLast`), and that only what was sent
is retried or marked, and nothing marked is retried (`Settled`), must go with them.
`ShownAgainIfForgotten`, for any messages, equal texts among them, any traffic and any memory: a message
that was shown, and whose text was neither pushed out nor shown again as another's, is remembered with
the second of one of its attempts, and two of those are never far enough apart to be taken for two
messages (`AttemptsAreClose`).

**ChatScreensProofs.** `Spec => []TypeOK`, `[]NothingIsMissed`, `[]RemovedIsGone`,
`[]OpenChatIsLive`, `[]BadgesFollow` and `[]DividerIsRight`, for any chats, any caps and any number of messages and
screens. `BInv` says which local variables a thread uses where (`Sound`), and that at most one
screen, the one in the foreground, is subscribed (`ScreenSound`): a thread has never more than one
to call, and none while it renders. On it rest three invariants.

`MessagesInv` has the first two properties. A message that is being added is nowhere yet (`Fresh`),
one the worker counts is in no chat but the one it is counted for (`Placed`), and a chat that is
being removed is no longer joined (`Gone`). Then each step that takes a message's notice away puts
another in its place: `Clear`, which empties the counter, is followed by `Copy`, which copies the
history with the message in it, for the worker adds before it counts.

`ScreensInv` has `OpenChatIsLive` and `BadgesFollow`, as what is still to come: a message the open chat was notified of
and has not shown is with a thread that has this chat to call or renders it, or in the queue
(`Live`); a counter that differs from its badge was announced by a thread, or its refresh is in
the queue (`Badges`). That the threads that announce find the screen subscribed is `UiKnows`, and
needs `gap` for the home screen, which reads before it subscribes. When all is quiet there are no
such threads and the queue is empty, and what is left of `Live` and `Badges` are the properties.

`DividerInv` has `DividerIsRight`, by counting. A counter counts no fewer messages than only it
tells of (`Counted`), so when `onResume` reads it, what is on time among the new messages is no more
than it read (`Frozen`). Messages are in one history, once (`Apart`), and what was on a screen or in
a text on its way there was so with all before it (`Ordered`): the new messages are the last of the
history, unless the user's own came between, which is `shifted`. So of the messages above the line,
which are all but the last so many as were counted, no more are new than are late
(`Counting`, `Placing`). That stays: until the history overflows, which is `shifted` too, it grows
only at its end, and every text of this visit is the history or what that began with (`Copies`). A
text for a screen that was left counts as missed when the queue reaches it; those before the first
of this visit are `Ahead`, and when the label shows messages there are none.

**CompanionsProofs.** `Spec => IdentityIsKept`, with restarts and a user who starts, leaves and
opens the app at any time. The invariant says that `_keygen_running` is up whenever a thread
of `ensure_identity` is at work (`FlagTells`), that there is at most one (`KeygenSingle`), that the
history `pressed` covers every thread of the button (`ButtonTells`), and that, while no
button was pressed, a thread that has yet to store its pair finds none stored (`NoneStored`).

`[]TypeOK`, `[]TablesFollowAdverts` and `[]ActsAsOneNode`, for any adverts of others and any cap.
That the companions are the `MAX_NODES` heard last is a matter of order: the invariant
`TablesInv` says that a companion has exactly those after it whose `seq` is greater
(`NodesAdvertised`), and that who is no companion any more was passed by all there are, as many as
the cap (`OthersPassed`); the one that `_evict_oldest_node` takes has all the others after it. That the name is the one meant, and an
echo never ourselves, is read off the bytes: `_handle_advert`'s `parse_advert` gives back
what `assemble_advert_payload` put together, whatever optional fields come before
the name, and what a well-formed foreign advert means.

**RouteJourneyProofs.** The codecs first, for any bytes and any sizes. `ParseOfToBytes`: `parse` gives
back every packet whose fields agree. `[]ParseInvertsToBytes` is the converse, too: of any
foreign bytes, what is parsed is what some packet is written as, and no other packet is written so.
`DecodeOfEncodeDm` and `DecodeOfEncodeGroupText` say that a text arrives without its padding,
with the second and attempt it was sent with, and that `dm_ack_hash` of what was decoded is that
of what was encoded; `DecodeOfBuildPathAck` that hops and acknowledgement come back.
A text without zeros is all that the first needs; a channel message needs a name without
": " in it (`IsPlainName`), since the first one that stands in the plaintext ends the name.

Then the mesh, for any nodes, links, routes, texts, foreign packets and up to 256 transmissions:
`Spec => []TypeOK`, `[]AnsweredOnce`, `[]UnderstoodAsSent` and `[]OnCourse`. The invariant `IInv` traces
every transmission back to what it was made of. `AirInv`: it is written from a packet whose payload
some `encode_` or `build_` function made of a message that was sent, or of hops and an answer;
so the codec theorems say what its receiver makes of it. `SentInv` and `WaitInv`:
no two attempts have the same second and number, and a record waits for a first attempt that had no
second, so that the hashes of two attempts differ. `AnswerInv`: what was answered was heard, and what
was heard is not heard again. `AnsweredOnce` needs all of them: an acknowledgement given twice would be
for two messages, which the hash tells apart, or for one, whose packet was heard before.

`OnCourse` needs to look back and ahead: `WayInv` says that a direct packet has a way before it,
hop by hop, and a flood has behind it the way it came; a PATH return brings such a way, and what
is learned of it leads to the contact (`IsWay`). A repeater moves one hop from one side to the
other (`ExtendWay`, `TailWay`). No link is assumed to work both ways: the hops that are returned
are used in the direction in which they were recorded. No mesh is
excluded. If the contact overhears a direct packet and returns the rest of its route, that rest is a way from
its first hop on (`GoesOn`), though perhaps not from us: so the one transmission that may miss
is our own along it, and whatever a repeater forwards of it is on course again.

What is assumed of the constants: hops take one byte each and there are no more than 63 of them (the floods
of this program ask for one byte, and a repeater that cannot add itself does not forward); the routes that the two
companions have from earlier on lead there; no text has a zero in it; and every text fits a packet together with the name. The
program does not see to the last, so the theorems say nothing of longer texts (see the known limits).

Every invariant that a run checks is proved. Only model-checked: liveness (`EveryMessageSettles`, `ReliableLinkDelivers`,
`SelfHeals`), because fairness and ENABLED are out of the prover's reach. Induction over data and
RECURSIVE operators are out of reach, too; the modules use neither. What AES, the MAC and SHA-256 do is
not proved but the model's assumption.

## 5. Not modelled

Cryptography: what cannot be decrypted is ignored, as in the code, and hashes are
what they depend on; the cached secrets (`_node_secret`) and the thread that precomputes
them change nothing of that but the time it takes. Coordinates in adverts,
signatures, and the contact card. The stored channel list and the default channel
of a first start: one thread, one write each. Texts that are no UTF-8. Screens but for what is said above,
notifications of the operating system, the packet log, simulation mode, build tools. Failures of
encoding and of the operating system's calls. `_ingest`'s packets of other
kinds than the component at hand, but for their use of the hash tables in
`ChannelSender` and `DmReceiver`. Time: only its passing.

## 6. Plan

What would come next, in this order:

1. `ChannelReceiver` with several channels and senders.
2. The stored channel list with its default, and restarts between its two writes.
