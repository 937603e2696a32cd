---------------------------- MODULE RadioService -----------------------------
(***************************************************************************)
(* The life of the radio service: start, stop and restart on the user      *)
(* interface thread, the worker's loop, and the threads that bring the     *)
(* radio up. They share a handful of unguarded flags and one chip; a lock  *)
(* guards some of the sections that talk to the chip.                      *)
(*                                                                         *)
(* One action runs from one access of a shared flag, the lock or the chip  *)
(* to the next. How long a thread sleeps, and whether a timer of the       *)
(* watchdog has run out, are matters of time: any answer is possible.      *)
(***************************************************************************)
EXTENDS Integers, FiniteSets

CONSTANTS
  Workers,       \* names for the threads that run _process_loop
  Inits,         \* names for the threads that run _radio_init_thread
  UI,            \* the user interface thread
  Nobody,        \* no thread: the lock is free
  RX_BAD_LIMIT,  \* bad watchdog checks before a re-init, 3 in the code
  MAX_BAD        \* a bound of the model: how far bad checks are counted

ASSUME ServiceAssumption ==
  /\ UI \notin Workers
  /\ Nobody \notin Workers \cup {UI}
  /\ RX_BAD_LIMIT \in Nat \ {0}
  /\ MAX_BAD \in Nat

VARIABLES
  running,        \* _running
  ready,          \* _radio_ready
  radioSet,       \* _radio is not None
  workerRunning,  \* _worker_running
  bringup,        \* _bringup_in_progress
  rxBad,          \* _rx_bad
  lock,           \* who holds _radio_lock
  chip,           \* what the SX1262 is doing
  ui,             \* where the user interface thread is
  wpc,            \* where each worker thread is, "dead" if there is none
  ipc             \* where each init thread is, "dead" if there is none

flags == <<running, ready, radioSet, workerRunning, bringup, rxBad>>
vars == <<flags, lock, chip, ui, wpc, ipc>>

\* Listening; fallen out of receive; not answering on SPI; put to sleep.
ChipModes == {"rx", "standby", "wedged", "sleep"}

UiPcs == {"idle", "raise", "worker", "init", "sleep", "asleep"}

\* Inside _process_loop's while, and what comes after it.
LoopPcs == {"loop", "poll", "poll_lock", "poll_spi", "tx", "tx_check", "tx_lock",
            "tx_spi", "idle", "dog_spi", "reinit", "bring"}
WorkerPcs == LoopPcs \cup {"dead", "exit", "flush"}

InitPcs == {"dead", "wait", "reset", "bring", "fail", "done"}

\* Who sees the radio declared ready finds a driver to talk to.
ReadyHasDriver == ready => radioSet

\* Types; and what _bring_up_radio sets first, on whichever thread, is there.
TypeOK ==
  /\ running \in BOOLEAN /\ ready \in BOOLEAN /\ radioSet \in BOOLEAN
  /\ ReadyHasDriver
  /\ workerRunning \in BOOLEAN /\ bringup \in BOOLEAN
  /\ rxBad \in Nat
  /\ lock \in Workers \cup {UI, Nobody}
  /\ chip \in ChipModes
  /\ ui \in UiPcs
  /\ wpc \in [Workers -> WorkerPcs]
  /\ ipc \in [Inits -> InitPcs]

Init ==
  /\ running = FALSE /\ ready = FALSE /\ radioSet = FALSE
  /\ workerRunning = FALSE /\ bringup = FALSE
  /\ rxBad = 0
  /\ lock = Nobody
  /\ chip = "standby"
  /\ ui = "idle"
  /\ wpc = [w \in Workers |-> "dead"]
  /\ ipc = [i \in Inits |-> "dead"]

-----------------------------------------------------------------------------
(* The user interface thread.                                              *)

\* start: nothing if it is running, otherwise raise the flag and go on to
\* _ensure_worker and _spawn_radio_init.
Start ==
  /\ ui = "idle"
  /\ ~running
  /\ running' = TRUE
  /\ ui' = "worker"
  /\ UNCHANGED <<ready, radioSet, workerRunning, bringup, rxBad, lock, chip, wpc, ipc>>

\* restart: the flag goes down and up again, whether or not it was running.
Restart ==
  /\ ui = "idle"
  /\ running' = FALSE
  /\ ready' = FALSE
  /\ ui' = "raise"
  /\ UNCHANGED <<radioSet, workerRunning, bringup, rxBad, lock, chip, wpc, ipc>>

RestartRaise ==
  /\ ui = "raise"
  /\ running' = TRUE
  /\ ui' = "worker"
  /\ UNCHANGED <<ready, radioSet, workerRunning, bringup, rxBad, lock, chip, wpc, ipc>>

\* Mutant of HasWorker: nobody looks at the flag.
HasNoWorker == FALSE

HasWorker == workerRunning

\* _ensure_worker: a new worker thread, unless the flag says there is one.
EnsureWorker ==
  /\ ui = "worker"
  /\ ui' = "init"
  /\ IF HasWorker
     THEN UNCHANGED <<workerRunning, wpc>>
     ELSE \E w \in Workers :
            /\ wpc[w] = "dead"
            /\ wpc' = [wpc EXCEPT ![w] = "loop"]
            /\ workerRunning' = TRUE
  /\ UNCHANGED <<running, ready, radioSet, bringup, rxBad, lock, chip, ipc>>

\* _spawn_radio_init: a new init thread, unless the flag says there is one.
SpawnRadioInit ==
  /\ ui = "init"
  /\ ui' = "idle"
  /\ IF bringup
     THEN UNCHANGED <<bringup, ipc>>
     ELSE \E i \in Inits :
            /\ ipc[i] = "dead"
            /\ ipc' = [ipc EXCEPT ![i] = "wait"]
            /\ bringup' = TRUE
  /\ UNCHANGED <<running, ready, radioSet, workerRunning, rxBad, lock, chip, wpc>>

\* stop: lower both flags; then, if there is a radio, put it to sleep under
\* the lock (and flush the chat history, see the README).
Stop ==
  /\ ui = "idle"
  /\ running
  /\ running' = FALSE
  /\ ready' = FALSE
  /\ ui' = IF radioSet THEN "sleep" ELSE "idle"
  /\ UNCHANGED <<radioSet, workerRunning, bringup, rxBad, lock, chip, wpc, ipc>>

StopAcquire ==
  /\ ui = "sleep"
  /\ lock = Nobody
  /\ lock' = UI
  /\ ui' = "asleep"
  /\ UNCHANGED <<flags, chip, wpc, ipc>>

StopRelease ==
  /\ ui = "asleep"
  /\ \E answers \in BOOLEAN : chip' = IF answers THEN "sleep" ELSE chip
  /\ lock' = Nobody
  /\ ui' = "idle"
  /\ UNCHANGED <<flags, wpc, ipc>>

-----------------------------------------------------------------------------
(* A worker thread in _process_loop.                                       *)

Goto(w, from, to) == wpc[w] = from /\ wpc' = [wpc EXCEPT ![w] = to]

\* Mutant of Acquire: the lock is taken without waiting for it.
Seize(w) == lock' = w

Acquire(w) == lock = Nobody /\ lock' = w

Release == lock' = Nobody

\* while self._running
Loop(w) ==
  /\ Goto(w, "loop", IF running THEN "poll" ELSE "exit")
  /\ UNCHANGED <<flags, lock, chip, ui, ipc>>

\* _poll_radio_rx: the guard, and DIO1, which may well be low.
PollNothing(w) ==
  /\ Goto(w, "poll", "tx")
  /\ UNCHANGED <<flags, lock, chip, ui, ipc>>

PollPending(w) ==
  /\ ready /\ radioSet
  /\ Goto(w, "poll", "poll_lock")
  /\ UNCHANGED <<flags, lock, chip, ui, ipc>>

PollAcquire(w) ==
  /\ Goto(w, "poll_lock", "poll_spi")
  /\ Acquire(w)
  /\ UNCHANGED <<flags, chip, ui, ipc>>

\* What startReceive (in recv, or called on its own) makes of the chip.
Rearmed == {chip} \cup (IF chip = "wedged" THEN {} ELSE {"rx"})

\* A packet was read (the loop processes it and starts over), or nothing.
PollRelease(w) ==
  /\ \E got \in BOOLEAN : Goto(w, "poll_spi", IF got THEN "loop" ELSE "tx")
  /\ chip' \in Rearmed
  /\ Release
  /\ UNCHANGED <<flags, ui, ipc>>

\* Step 3 of the loop, without and with a packet to send.
TxNothing(w) ==
  /\ Goto(w, "tx", "idle")
  /\ UNCHANGED <<flags, lock, chip, ui, ipc>>

TxPop(w) ==
  /\ ready
  /\ Goto(w, "tx", "tx_check")
  /\ UNCHANGED <<flags, lock, chip, ui, ipc>>

\* _transmit looks at the flag again before it asks for the lock.
TxCheck(w) ==
  /\ Goto(w, "tx_check", IF ready /\ radioSet THEN "tx_lock" ELSE "loop")
  /\ UNCHANGED <<flags, lock, chip, ui, ipc>>

TxAcquire(w) ==
  /\ Goto(w, "tx_lock", "tx_spi")
  /\ Acquire(w)
  /\ UNCHANGED <<flags, chip, ui, ipc>>

\* The airtime is over: back to receive.
TxRelease(w) ==
  /\ Goto(w, "tx_spi", "loop")
  /\ chip' \in Rearmed
  /\ Release
  /\ UNCHANGED <<flags, ui, ipc>>

\* Step 4, the watchdog: not due yet, no radio, or the lock is taken.
IdleNothing(w) ==
  /\ Goto(w, "idle", "loop")
  /\ UNCHANGED <<flags, lock, chip, ui, ipc>>

\* The watchdog of a radio that is not ready goes straight to _attempt_reinit.
DogNotReady(w) ==
  /\ radioSet /\ ~ready
  /\ Goto(w, "idle", "reinit")
  /\ UNCHANGED <<flags, lock, chip, ui, ipc>>

DogAcquire(w) ==
  /\ radioSet /\ ready
  /\ Goto(w, "idle", "dog_spi")
  /\ Acquire(w)
  /\ UNCHANGED <<flags, chip, ui, ipc>>

\* A chip that does not answer, or was found out of receive again and again.
NeedsReinit == chip = "wedged" \/ rxBad + 1 >= RX_BAD_LIMIT

\* The watchdog reads the chip's mode: all is well, or it re-arms receive, or
\* the chip needs a re-init.
DogHealthy(w) ==
  /\ chip = "rx"
  /\ Goto(w, "dog_spi", "loop")
  /\ rxBad' = 0
  /\ Release
  /\ UNCHANGED <<running, ready, radioSet, workerRunning, bringup, chip, ui, ipc>>

\* Nothing but a healthy check or a re-init resets the count, and a re-init may
\* be put off (ReinitTooSoon): it goes on past the limit.
CountBad == rxBad < MAX_BAD /\ rxBad' = rxBad + 1

DogRearm(w) ==
  /\ chip # "rx"
  /\ ~NeedsReinit
  /\ Goto(w, "dog_spi", "loop")
  /\ CountBad
  /\ chip' \in Rearmed
  /\ Release
  /\ UNCHANGED <<running, ready, radioSet, workerRunning, bringup, ui, ipc>>

DogGivesUp(w) ==
  /\ chip # "rx"
  /\ NeedsReinit
  /\ Goto(w, "dog_spi", "reinit")
  /\ CountBad
  /\ Release
  /\ UNCHANGED <<running, ready, radioSet, workerRunning, bringup, chip, ui, ipc>>

\* The driver threw: a re-init, too.
DogThrows(w) ==
  /\ Goto(w, "dog_spi", "reinit")
  /\ Release
  /\ UNCHANGED <<flags, chip, ui, ipc>>

\* _attempt_reinit, less than five seconds after the last time.
ReinitTooSoon(w) ==
  /\ Goto(w, "reinit", "loop")
  /\ UNCHANGED <<flags, lock, chip, ui, ipc>>

\* _attempt_reinit into _bring_up_radio, on the worker itself and without the
\* lock: the radio is not ready until it has succeeded.
Reinit(w) ==
  /\ Goto(w, "reinit", "bring")
  /\ rxBad' = 0
  /\ ready' = FALSE
  /\ UNCHANGED <<running, radioSet, workerRunning, bringup, lock, chip, ui, ipc>>

\* Mutant of BroughtUp: the radio is not declared ready again.
BroughtUpUnready == UNCHANGED ready /\ chip' \in {"rx", "standby", "wedged"}

\* What a bring-up leaves behind. Receive is configured whatever begin said.
BroughtUp == ready' = TRUE /\ chip' \in {"rx", "standby", "wedged"}

ReinitOk(w) ==
  /\ Goto(w, "bring", "loop")
  /\ BroughtUp
  /\ UNCHANGED <<running, radioSet, workerRunning, bringup, rxBad, lock, ui, ipc>>

\* It failed: the worker goes on, and the watchdog will try again.
ReinitFailed(w) ==
  /\ Goto(w, "bring", "loop")
  /\ chip' \in {"standby", "wedged"}
  /\ UNCHANGED <<flags, lock, ui, ipc>>

\* After the loop: the flag, then the last flush of the chat history.
Exit(w) ==
  /\ Goto(w, "exit", "flush")
  /\ workerRunning' = FALSE
  /\ UNCHANGED <<running, ready, radioSet, bringup, rxBad, lock, chip, ui, ipc>>

Die(w) ==
  /\ Goto(w, "flush", "dead")
  /\ UNCHANGED <<flags, lock, chip, ui, ipc>>

-----------------------------------------------------------------------------
(* An init thread.                                                         *)

\* After a second's sleep, _bring_up_radio begins with a hardware reset.
InitBegin(i) ==
  /\ ipc[i] = "wait"
  /\ ipc' = [ipc EXCEPT ![i] = "reset"]
  /\ ready' = FALSE
  /\ chip' = "standby"
  /\ UNCHANGED <<running, radioSet, workerRunning, bringup, rxBad, lock, ui, wpc>>

\* Mutant of InitChip: the driver is kept to the thread that configures it.
InitChipLocally(i) ==
  /\ ipc[i] = "reset"
  /\ ipc' = [ipc EXCEPT ![i] = "bring"]
  /\ UNCHANGED <<running, ready, radioSet, workerRunning, bringup, rxBad, lock, chip, ui, wpc>>

\* From here on everyone has the radio that is being configured.
InitChip(i) ==
  /\ ipc[i] = "reset"
  /\ ipc' = [ipc EXCEPT ![i] = "bring"]
  /\ radioSet' = TRUE
  /\ UNCHANGED <<running, ready, workerRunning, bringup, rxBad, lock, chip, ui, wpc>>

InitOk(i) ==
  /\ ipc[i] = "bring"
  /\ ipc' = [ipc EXCEPT ![i] = "done"]
  /\ BroughtUp
  /\ UNCHANGED <<running, radioSet, workerRunning, bringup, rxBad, lock, ui, wpc>>

\* It failed, before or after _radio was set.
InitFailed(i) ==
  /\ ipc[i] \in {"reset", "bring"}
  /\ ipc' = [ipc EXCEPT ![i] = "fail"]
  /\ chip' \in {"standby", "wedged"}
  /\ UNCHANGED <<running, ready, radioSet, workerRunning, bringup, rxBad, lock, ui, wpc>>

\* Mutant of InitLowers: the thread ends there, its flag stays up.
InitLowersAndEnds(i) ==
  /\ ipc[i] = "fail"
  /\ ipc' = [ipc EXCEPT ![i] = "dead"]
  /\ running' = FALSE
  /\ UNCHANGED <<ready, radioSet, workerRunning, bringup, rxBad, lock, chip, ui, wpc>>

\* The failed thread turns the service off.
InitLowers(i) ==
  /\ ipc[i] = "fail"
  /\ ipc' = [ipc EXCEPT ![i] = "done"]
  /\ running' = FALSE
  /\ UNCHANGED <<ready, radioSet, workerRunning, bringup, rxBad, lock, chip, ui, wpc>>

InitDone(i) ==
  /\ ipc[i] = "done"
  /\ ipc' = [ipc EXCEPT ![i] = "dead"]
  /\ bringup' = FALSE
  /\ UNCHANGED <<running, ready, radioSet, workerRunning, rxBad, lock, chip, ui, wpc>>

-----------------------------------------------------------------------------
\* A transmission that overran or a glitch on the shared bus.
Glitch ==
  /\ chip = "rx"
  /\ chip' \in {"standby", "wedged"}
  /\ UNCHANGED <<flags, lock, ui, wpc, ipc>>

UiAct == RestartRaise \/ EnsureWorker \/ SpawnRadioInit \/ StopAcquire \/ StopRelease

User == Start \/ Restart \/ Stop

Poll(w) == PollNothing(w) \/ PollPending(w) \/ PollAcquire(w) \/ PollRelease(w)

Tx(w) == TxNothing(w) \/ TxPop(w) \/ TxCheck(w) \/ TxAcquire(w) \/ TxRelease(w)

Watchdog(w) ==
  \/ IdleNothing(w) \/ DogNotReady(w) \/ DogAcquire(w)
  \/ DogHealthy(w) \/ DogRearm(w) \/ DogGivesUp(w) \/ DogThrows(w)
  \/ ReinitTooSoon(w) \/ Reinit(w) \/ ReinitOk(w) \/ ReinitFailed(w)

Worker(w) == Loop(w) \/ Poll(w) \/ Tx(w) \/ Watchdog(w) \/ Exit(w) \/ Die(w)

InitThread(i) ==
  InitBegin(i) \/ InitChip(i) \/ InitOk(i) \/ InitFailed(i) \/ InitLowers(i) \/ InitDone(i)

Next ==
  \/ User \/ UiAct
  \/ \E w \in Workers : Worker(w)
  \/ \E i \in Inits : InitThread(i)
  \/ Glitch

Spec == Init /\ [][Next]_vars

\* The threads run, the radio and the transmit queue fall silent now and then,
\* the timers of the watchdog run out, and a bring-up that is tried again and
\* again works one day. (Of the workers at most one is in the loop.)
LiveSpec ==
  /\ Spec
  /\ WF_vars(UiAct)
  /\ \A i \in Inits : WF_vars(InitThread(i))
  /\ \A w \in Workers : WF_vars(Worker(w))
  /\ SF_vars(\E w \in Workers : PollNothing(w))
  /\ SF_vars(\E w \in Workers : TxNothing(w))
  /\ SF_vars(\E w \in Workers : DogNotReady(w))
  /\ SF_vars(\E w \in Workers : DogAcquire(w))
  /\ SF_vars(\E w \in Workers : Reinit(w))
  /\ SF_vars(\E w \in Workers : ReinitOk(w) /\ chip' = "rx")

-----------------------------------------------------------------------------
WorkersIn(pcs) == {w \in Workers : wpc[w] \in pcs}

InitsIn(pcs) == {i \in Inits : ipc[i] \in pcs}

\* There are never two workers in the loop, whatever sequence of stop, start
\* and restart the user goes through while an old worker winds down; and a
\* worker in the loop is one the flag knows of. (Two would transmit and poll
\* over each other.)
OneWorkerInLoop ==
  /\ \A v, w \in WorkersIn(LoopPcs \cup {"exit"}) : v = w
  /\ WorkersIn(LoopPcs \cup {"exit"}) # {} => workerRunning

\* _spawn_radio_init's guard works: there is at most one init thread, and the
\* flag is up exactly while there is one, so that it is never stuck.
OneInitThread ==
  /\ \A i, j \in InitsIn(InitPcs \ {"dead"}) : i = j
  /\ bringup = (InitsIn(InitPcs \ {"dead"}) # {})

\* The lock works: the chip is not put to sleep in the middle of a receive, a
\* transmission or a status read, and the lock is not lost.
LockExcludes ==
  /\ \A w \in Workers : wpc[w] \in {"poll_spi", "tx_spi", "dog_spi"} <=> lock = w
  /\ ui = "asleep" <=> lock = UI

\* "self-heals the radio" (README.md:13): as long as the service runs and has
\* its worker, a radio that is deaf, wedged or half configured listens again.
SelfHeals ==
  running /\ radioSet /\ WorkersIn(LoopPcs) # {} ~> (ready /\ chip = "rx") \/ ~running

\* Turning the service on leaves it with a worker: when start or restart has
\* returned and no worker is about to leave, there is one in the loop
\* ("start/stop the radio live (no reboot needed)", set_service_enabled).
RunningHasWorker ==
  running /\ ui = "idle" /\ WorkersIn({"exit"}) = {} => WorkersIn(LoopPcs) # {}

\* A service that is off and has come to rest does not listen ("off = radio
\* idle", README.md:13).
OffIsIdle ==
  ~running /\ ui = "idle" /\ WorkersIn(WorkerPcs \ {"dead"}) = {}
           /\ InitsIn(InitPcs \ {"dead"}) = {}
    => ~ready /\ chip # "rx"
==============================================================================
