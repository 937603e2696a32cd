-------------------------- MODULE RadioServiceProofs --------------------------
(***************************************************************************)
(* Theorems about the life of the radio service, for any number of names   *)
(* for its threads: the guards that keep workers and init threads single   *)
(* and the lock around the chip do what they are for, through any sequence *)
(* of start, stop and restart.                                             *)
(***************************************************************************)
EXTENDS RadioService, TLAPS

\* Where a driver has been seen or set there is one from then on.
DriverIsKnown ==
  /\ \A w \in Workers : wpc[w] \in {"dog_spi", "reinit", "bring"} => radioSet
  /\ \A i \in Inits : ipc[i] = "bring" => radioSet

IInv == TypeOK /\ DriverIsKnown /\ OneWorkerInLoop /\ OneInitThread /\ LockExcludes

-----------------------------------------------------------------------------
\* Before the service is first started there is no thread and no lock holder.
THEOREM InitIInv == Init => IInv
<1> SUFFICES ASSUME Init PROVE IInv
  OBVIOUS
<1> USE DEF Init
<1>1. TypeOK
  <2>1. rxBad \in Nat
    OBVIOUS
  <2>2. wpc \in [Workers -> WorkerPcs] /\ ipc \in [Inits -> InitPcs]
    BY DEF WorkerPcs, InitPcs
  <2>3. chip \in ChipModes /\ ui \in UiPcs
    BY DEF ChipModes, UiPcs
  <2> QED
    BY <2>1, <2>2, <2>3 DEF TypeOK, ReadyHasDriver
<1>2. OneWorkerInLoop
  BY DEF OneWorkerInLoop, LoopPcs, WorkersIn
<1>3. OneInitThread
  BY DEF OneInitThread, InitsIn
<1>4. LockExcludes
  BY ServiceAssumption DEF LockExcludes
<1>5. DriverIsKnown
  BY DEF DriverIsKnown
<1> QED
  BY <1>1, <1>2, <1>3, <1>4, <1>5 DEF IInv

\* The flag is raised by a bring-up that has set the driver.
LEMMA NextReady == ReadyHasDriver /\ DriverIsKnown /\ [Next]_vars => ReadyHasDriver'
<1> SUFFICES ASSUME ReadyHasDriver, DriverIsKnown, [Next]_vars PROVE ReadyHasDriver'
  OBVIOUS
<1> USE DEF ReadyHasDriver, DriverIsKnown, flags
<1>1. CASE User
  BY <1>1 DEF User, Start, Restart, Stop
<1>2. CASE UiAct
  BY <1>2
  DEF UiAct, RestartRaise, EnsureWorker, SpawnRadioInit, StopAcquire, StopRelease
<1>3. ASSUME NEW w \in Workers, Worker(w) PROVE ReadyHasDriver'
  BY <1>3
  DEF Worker, Loop, Poll, PollNothing, PollPending, PollAcquire, PollRelease,
      Tx, TxNothing, TxPop, TxCheck, TxAcquire, TxRelease, Goto, BroughtUp,
      Watchdog, IdleNothing, DogNotReady, DogAcquire, DogHealthy, DogRearm, DogGivesUp,
      DogThrows, ReinitTooSoon, Reinit, ReinitOk, ReinitFailed, Exit, Die
<1>4. ASSUME NEW i \in Inits, InitThread(i) PROVE ReadyHasDriver'
  BY <1>4 DEF InitThread, InitBegin, InitChip, InitOk, InitFailed, InitLowers, InitDone, BroughtUp
<1>5. CASE Glitch
  BY <1>5 DEF Glitch
<1>6. CASE UNCHANGED vars
  BY <1>6 DEF vars
<1> QED
  BY <1>1, <1>2, <1>3, <1>4, <1>5, <1>6 DEF Next

\* Every step keeps the types.
LEMMA NextTypeOK == TypeOK /\ DriverIsKnown /\ [Next]_vars => TypeOK'
<1> SUFFICES ASSUME TypeOK, DriverIsKnown, [Next]_vars PROVE TypeOK'
  OBVIOUS
<1>0. ReadyHasDriver'
  BY NextReady DEF TypeOK
<1> USE <1>0 DEF TypeOK, flags
<1>1. CASE User
  BY <1>1 DEF User, Start, Restart, Stop, UiPcs
<1>2. CASE UiAct
  BY <1>2, ServiceAssumption, ZenonT(30)
  DEF UiAct, RestartRaise, EnsureWorker, SpawnRadioInit, StopAcquire, StopRelease, UiPcs,
      WorkerPcs, LoopPcs, InitPcs, ChipModes
<1> USE DEF Goto, Acquire, Release, Rearmed, WorkerPcs, LoopPcs, ChipModes
<1>3. ASSUME NEW w \in Workers, Poll(w) PROVE TypeOK'
  BY <1>3 DEF Poll, PollNothing, PollPending, PollAcquire, PollRelease
<1>4. ASSUME NEW w \in Workers, Tx(w) PROVE TypeOK'
  BY <1>4 DEF Tx, TxNothing, TxPop, TxCheck, TxAcquire, TxRelease
<1>5. ASSUME NEW w \in Workers, Watchdog(w) PROVE TypeOK'
  <2>1. CASE IdleNothing(w) \/ DogNotReady(w) \/ DogAcquire(w) \/ DogThrows(w)
               \/ ReinitTooSoon(w)
    BY <2>1 DEF IdleNothing, DogNotReady, DogAcquire, DogThrows, ReinitTooSoon
  <2>2. CASE DogHealthy(w) \/ Reinit(w)
    <3>1. rxBad' \in Nat
      BY <2>2 DEF DogHealthy, Reinit
    <3> QED
      BY <2>2, <3>1 DEF DogHealthy, Reinit
  <2>3. CASE DogRearm(w) \/ DogGivesUp(w)
    <3>1. rxBad' \in Nat
      BY <2>3 DEF DogRearm, DogGivesUp, CountBad
    <3> QED
      BY <2>3, <3>1 DEF DogRearm, DogGivesUp
  <2>4. CASE ReinitOk(w) \/ ReinitFailed(w)
    BY <2>4 DEF ReinitOk, ReinitFailed, BroughtUp
  <2> QED
    BY <1>5, <2>1, <2>2, <2>3, <2>4 DEF Watchdog
<1>6. ASSUME NEW w \in Workers, Loop(w) \/ Exit(w) \/ Die(w) PROVE TypeOK'
  BY <1>6 DEF Loop, Exit, Die
<1>7. ASSUME NEW i \in Inits, InitThread(i) PROVE TypeOK'
  BY <1>7 DEF InitThread, InitBegin, InitChip, InitOk, InitFailed, InitLowers, InitDone,
              InitPcs, BroughtUp
<1>8. CASE Glitch
  BY <1>8 DEF Glitch
<1>9. CASE UNCHANGED vars
  BY <1>9 DEF vars
<1> QED
  BY <1>1, <1>2, <1>3, <1>4, <1>5, <1>6, <1>7, <1>8, <1>9 DEF Next, Worker

-----------------------------------------------------------------------------
\* A driver that is there stays, and the watchdog and the bring-ups begin with one.
LEMMA NextDriver == TypeOK /\ DriverIsKnown /\ [Next]_vars => DriverIsKnown'
<1> SUFFICES ASSUME TypeOK, DriverIsKnown, [Next]_vars PROVE DriverIsKnown'
  OBVIOUS
<1> USE DEF TypeOK, DriverIsKnown, flags
<1>1. CASE User
  BY <1>1 DEF User, Start, Restart, Stop
<1>2. CASE UiAct
  BY <1>2
  DEF UiAct, RestartRaise, EnsureWorker, SpawnRadioInit, StopAcquire, StopRelease
<1> USE DEF Goto
<1>3. ASSUME NEW w \in Workers, Poll(w) PROVE DriverIsKnown'
  BY <1>3 DEF Poll, PollNothing, PollPending, PollAcquire, PollRelease
<1>4. ASSUME NEW w \in Workers, Tx(w) PROVE DriverIsKnown'
  BY <1>4 DEF Tx, TxNothing, TxPop, TxCheck, TxAcquire, TxRelease
<1>5. ASSUME NEW w \in Workers, Watchdog(w) PROVE DriverIsKnown'
  BY <1>5
  DEF Watchdog, IdleNothing, DogNotReady, DogAcquire, DogHealthy, DogRearm, DogGivesUp,
      DogThrows, ReinitTooSoon, Reinit, ReinitOk, ReinitFailed
<1>6. ASSUME NEW w \in Workers, Loop(w) \/ Exit(w) \/ Die(w) PROVE DriverIsKnown'
  BY <1>6 DEF Loop, Exit, Die
<1>7. ASSUME NEW i \in Inits, InitThread(i) PROVE DriverIsKnown'
  BY <1>7 DEF InitThread, InitBegin, InitChip, InitOk, InitFailed, InitLowers, InitDone
<1>8. CASE Glitch
  BY <1>8 DEF Glitch
<1>9. CASE UNCHANGED vars
  BY <1>9 DEF vars
<1> QED
  BY <1>1, <1>2, <1>3, <1>4, <1>5, <1>6, <1>7, <1>8, <1>9 DEF Next, Worker

-----------------------------------------------------------------------------
\* A worker's step that stays in the loop, or leaves it with the flag up, and
\* touches neither the flag nor the other workers, keeps the workers single.
LEMMA WorkerMoves ==
  ASSUME TypeOK, OneWorkerInLoop, NEW w \in Workers,
         wpc[w] \in LoopPcs,
         NEW to \in LoopPcs \cup {"exit"},
         wpc' = [wpc EXCEPT ![w] = to],
         UNCHANGED workerRunning
  PROVE  OneWorkerInLoop'
BY DEF OneWorkerInLoop, WorkersIn, TypeOK

\* _ensure_worker's flag keeps the workers single: it falls only after the loop.
LEMMA NextOneWorker == TypeOK /\ OneWorkerInLoop /\ [Next]_vars => OneWorkerInLoop'
<1> SUFFICES ASSUME TypeOK, OneWorkerInLoop, [Next]_vars PROVE OneWorkerInLoop'
  OBVIOUS
<1> USE DEF flags
<1>1. ASSUME UNCHANGED <<workerRunning, wpc>> PROVE OneWorkerInLoop'
  BY <1>1 DEF OneWorkerInLoop, WorkersIn
<1>2. CASE User
  BY <1>1, <1>2 DEF User, Start, Restart, Stop
<1>3. CASE UiAct
  <2>1. CASE EnsureWorker
    BY <2>1 DEF EnsureWorker, HasWorker, OneWorkerInLoop, WorkersIn, TypeOK, LoopPcs
  <2> QED
    BY <1>1, <1>3, <2>1
    DEF UiAct, RestartRaise, SpawnRadioInit, StopAcquire, StopRelease
<1>4. ASSUME NEW w \in Workers, Poll(w) PROVE OneWorkerInLoop'
  <2> USE DEF Goto, LoopPcs
  <2>1. /\ wpc[w] \in LoopPcs
        /\ \E to \in LoopPcs : wpc' = [wpc EXCEPT ![w] = to]
        /\ UNCHANGED workerRunning
    BY <1>4 DEF Poll, PollNothing, PollPending, PollAcquire, PollRelease
  <2> QED
    BY <2>1, WorkerMoves
<1>5. ASSUME NEW w \in Workers, Tx(w) PROVE OneWorkerInLoop'
  <2> USE DEF Goto, LoopPcs
  <2>1. /\ wpc[w] \in LoopPcs
        /\ \E to \in LoopPcs : wpc' = [wpc EXCEPT ![w] = to]
        /\ UNCHANGED workerRunning
    BY <1>5 DEF Tx, TxNothing, TxPop, TxCheck, TxAcquire, TxRelease
  <2> QED
    BY <2>1, WorkerMoves
<1>6. ASSUME NEW w \in Workers, Watchdog(w) PROVE OneWorkerInLoop'
  <2> USE DEF Goto, LoopPcs
  <2>1. /\ wpc[w] \in LoopPcs
        /\ \E to \in LoopPcs : wpc' = [wpc EXCEPT ![w] = to]
        /\ UNCHANGED workerRunning
    BY <1>6
    DEF Watchdog, IdleNothing, DogNotReady, DogAcquire, DogHealthy, DogRearm, DogGivesUp,
        DogThrows, ReinitTooSoon, Reinit, ReinitOk, ReinitFailed
  <2> QED
    BY <2>1, WorkerMoves
<1>7. ASSUME NEW w \in Workers, Loop(w) PROVE OneWorkerInLoop'
  <2>1. /\ wpc[w] \in LoopPcs
        /\ \E to \in LoopPcs \cup {"exit"} : wpc' = [wpc EXCEPT ![w] = to]
        /\ UNCHANGED workerRunning
    BY <1>7 DEF Loop, Goto, LoopPcs
  <2> QED
    BY <2>1, WorkerMoves
<1>8. ASSUME NEW w \in Workers, Exit(w) \/ Die(w) PROVE OneWorkerInLoop'
  BY <1>8 DEF Exit, Die, Goto, OneWorkerInLoop, WorkersIn, TypeOK, LoopPcs
<1>9. ASSUME NEW i \in Inits, InitThread(i) PROVE OneWorkerInLoop'
  BY <1>1, <1>9
  DEF InitThread, InitBegin, InitChip, InitOk, InitFailed, InitLowers, InitDone
<1>10. CASE Glitch
  BY <1>1, <1>10 DEF Glitch
<1>11. CASE UNCHANGED vars
  BY <1>1, <1>11 DEF vars
<1> QED
  BY <1>2, <1>3, <1>4, <1>5, <1>6, <1>7, <1>8, <1>9, <1>10, <1>11 DEF Next, Worker

-----------------------------------------------------------------------------
\* _spawn_radio_init's flag keeps the init threads single: it falls only as the
\* thread ends, however the bring-up went.
LEMMA NextOneInit == TypeOK /\ OneInitThread /\ [Next]_vars => OneInitThread'
<1> SUFFICES ASSUME TypeOK, OneInitThread, [Next]_vars PROVE OneInitThread'
  OBVIOUS
<1> USE DEF flags
<1>1. ASSUME UNCHANGED <<bringup, ipc>> PROVE OneInitThread'
  BY <1>1 DEF OneInitThread, InitsIn
<1>2. CASE User
  BY <1>1, <1>2 DEF User, Start, Restart, Stop
<1>3. CASE UiAct
  <2>1. CASE SpawnRadioInit
    <3>1. CASE bringup
      BY <1>1, <2>1, <3>1 DEF SpawnRadioInit
    <3>2. CASE ~bringup
      <4>1. PICK i \in Inits : ipc' = [ipc EXCEPT ![i] = "wait"] /\ bringup' = TRUE
        BY <2>1, <3>2 DEF SpawnRadioInit
      <4>2. \A j \in Inits : ipc[j] = "dead"
        BY <3>2 DEF OneInitThread, InitsIn, TypeOK, InitPcs
      <4>3. InitsIn(InitPcs \ {"dead"})' = {i}
        BY <4>1, <4>2 DEF InitsIn, TypeOK, InitPcs
      <4> QED
        BY <4>1, <4>3 DEF OneInitThread
    <3> QED
      BY <3>1, <3>2
  <2> QED
    BY <1>1, <1>3, <2>1
    DEF UiAct, RestartRaise, EnsureWorker, StopAcquire, StopRelease
<1>4. ASSUME NEW w \in Workers, Worker(w) PROVE OneInitThread'
  BY <1>1, <1>4
  DEF Worker, Loop, Poll, PollNothing, PollPending, PollAcquire, PollRelease,
      Tx, TxNothing, TxPop, TxCheck, TxAcquire, TxRelease,
      Watchdog, IdleNothing, DogNotReady, DogAcquire, DogHealthy, DogRearm, DogGivesUp,
      DogThrows, ReinitTooSoon, Reinit, ReinitOk, ReinitFailed, Exit, Die
<1>5. ASSUME NEW i \in Inits, InitThread(i) PROVE OneInitThread'
  <2>1. CASE InitDone(i)
    BY <2>1 DEF InitDone, OneInitThread, InitsIn, TypeOK, InitPcs
  <2>2. CASE InitBegin(i) \/ InitChip(i) \/ InitOk(i) \/ InitFailed(i) \/ InitLowers(i)
    <3>1. /\ ipc[i] \in InitPcs \ {"dead"}
          /\ \E to \in InitPcs \ {"dead"} : ipc' = [ipc EXCEPT ![i] = to]
          /\ UNCHANGED bringup
      BY <2>2 DEF InitBegin, InitChip, InitOk, InitFailed, InitLowers, InitPcs
    <3> QED
      BY <3>1 DEF OneInitThread, InitsIn, TypeOK
  <2> QED
    BY <1>5, <2>1, <2>2 DEF InitThread
<1>6. CASE Glitch
  BY <1>1, <1>6 DEF Glitch
<1>7. CASE UNCHANGED vars
  BY <1>1, <1>7 DEF vars
<1> QED
  BY <1>2, <1>3, <1>4, <1>5, <1>6, <1>7 DEF Next

-----------------------------------------------------------------------------
\* The lock is taken only when free and given back by its holder.
LEMMA NextLock == TypeOK /\ LockExcludes /\ [Next]_vars => LockExcludes'
<1> SUFFICES ASSUME TypeOK, LockExcludes, [Next]_vars PROVE LockExcludes'
  OBVIOUS
<1> USE DEF flags
<1>1. ASSUME UNCHANGED <<lock, ui, wpc>> PROVE LockExcludes'
  BY <1>1 DEF LockExcludes
<1> USE ServiceAssumption DEF TypeOK
<1>2. CASE User
  BY <1>2 DEF User, Start, Restart, Stop, LockExcludes
<1>3. CASE UiAct
  BY <1>3
  DEF UiAct, RestartRaise, EnsureWorker, SpawnRadioInit, StopAcquire, StopRelease,
      LockExcludes
<1> USE DEF Goto, Acquire, Release, LockExcludes
<1>4. ASSUME NEW w \in Workers, Poll(w) PROVE LockExcludes'
  BY <1>4 DEF Poll, PollNothing, PollPending, PollAcquire, PollRelease
<1>5. ASSUME NEW w \in Workers, Tx(w) PROVE LockExcludes'
  BY <1>5 DEF Tx, TxNothing, TxPop, TxCheck, TxAcquire, TxRelease
<1>6. ASSUME NEW w \in Workers, Watchdog(w) PROVE LockExcludes'
  BY <1>6
  DEF Watchdog, IdleNothing, DogNotReady, DogAcquire, DogHealthy, DogRearm, DogGivesUp,
      DogThrows, ReinitTooSoon, Reinit, ReinitOk, ReinitFailed
<1>7. ASSUME NEW w \in Workers, Loop(w) \/ Exit(w) \/ Die(w) PROVE LockExcludes'
  BY <1>7 DEF Loop, Exit, Die
<1>8. ASSUME NEW i \in Inits, InitThread(i) PROVE LockExcludes'
  BY <1>1, <1>8
  DEF InitThread, InitBegin, InitChip, InitOk, InitFailed, InitLowers, InitDone
<1>9. CASE Glitch
  BY <1>1, <1>9 DEF Glitch
<1>10. CASE UNCHANGED vars
  BY <1>1, <1>10 DEF vars
<1> QED
  BY <1>2, <1>3, <1>4, <1>5, <1>6, <1>7, <1>8, <1>9, <1>10 DEF Next, Worker

-----------------------------------------------------------------------------
\* IInv holds in every reachable state.
THEOREM IInvIsInvariant == Spec => []IInv
<1>1. IInv /\ [Next]_vars => IInv'
  BY NextTypeOK, NextDriver, NextOneWorker, NextOneInit, NextLock DEF IInv
<1> QED
  BY <1>1, InitIInv, PTL DEF Spec

\* Every variable keeps its type, and a radio declared ready has a driver, for any
\* number of threads and however long a re-init is put off.
THEOREM TypeCorrect == Spec => []TypeOK
<1>1. IInv => TypeOK
  BY DEF IInv
<1> QED
  BY <1>1, IInvIsInvariant, PTL

\* There are never two workers in the loop.
THEOREM WorkerIsSingle == Spec => []OneWorkerInLoop
<1>1. IInv => OneWorkerInLoop
  BY DEF IInv
<1> QED
  BY <1>1, IInvIsInvariant, PTL

\* There are never two init threads, and their flag tells whether there is one.
THEOREM InitThreadIsSingle == Spec => []OneInitThread
<1>1. IInv => OneInitThread
  BY DEF IInv
<1> QED
  BY <1>1, IInvIsInvariant, PTL

\* Who talks to the chip inside a locked section has the lock, and nobody else
\* has it.
THEOREM LockIsExclusive == Spec => []LockExcludes
<1>1. IInv => LockExcludes
  BY DEF IInv
<1> QED
  BY <1>1, IInvIsInvariant, PTL
==============================================================================
