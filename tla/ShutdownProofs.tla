--------------------------- MODULE ShutdownProofs ---------------------------
(***************************************************************************)
(* Proofs about the start and the shutdown of the server, for any number   *)
(* of handler threads, of signals and of queued payloads.                  *)
(*                                                                         *)
(* That nobody is left behind rests on `LiveAreListed': the trimming in    *)
(* the accept loop keeps whoever is alive, so the list the signal handler  *)
(* cancels is complete.  That one signal is safe rests on `Interrupts':    *)
(* with one signal there is one handler at a time, and what the main       *)
(* thread does after the loop begins when that one has returned.           *)
(***************************************************************************)
EXTENDS Shutdown, TLAPS

\* Nobody runs the signal handler.
Quiet == \A t \in AllThreads : spc[t] = "none"

\* threads_mutex excludes the signal handlers from each other and from the
\* main thread where it spawns or joins; a crash ends them all.
Exclusion ==
    /\ \A t \in AllThreads :
          spc[t] = "cancelling" => holder = t /\ mpc \notin {"spawning", "joining"}
    /\ mpc = "crashed" => Quiet

\* The updater is there once the main thread has started it, and there are no
\* handlers before the accept loop.
Started ==
    /\ upc = "none" => mpc \in {"starting", "crashed"}
    /\ mpc \in {"starting", "opening"} => \A h \in Handlers : hpc[h] = "none"

LiveAreListed == \A h \in Handlers : Live(h) => h \in threads

\* What the number of signals taken says of where the main thread is.
Interrupts ==
    /\ taken = 0 => Quiet /\ mpc \notin {"breaking", "joining", "clearing"}
    /\ taken = 0 /\ mpc = "ending" => threads = {}
    /\ taken = 1 =>
          /\ \A t, u \in AllThreads : spc[t] # "none" /\ spc[u] # "none" => t = u
          /\ mpc \in {"breaking", "joining", "clearing"} => Quiet
          /\ mpc = "ending" => Quiet \/ threads = {}

IInv ==
    TypeOK /\ Exclusion /\ Started /\ LiveAreListed /\ NobodyIsLeftBehind /\ Interrupts
-----------------------------------------------------------------------------
\* The inductive invariant holds initially.
LEMMA InitIInv == Init => IInv
BY ShutdownAssumption
   DEF Init, IInv, TypeOK, Exclusion, Started, LiveAreListed, NobodyIsLeftBehind,
       Interrupts, Quiet, Live, AllThreads, MainPCs, UpdaterPCs, HandlerPCs, NotifierPCs

\* Every step of the main thread preserves it.
LEMMA MainIInv == IInv /\ MainThread => IInv'
<1> SUFFICES ASSUME IInv, MainThread PROVE IInv'
  OBVIOUS
<1> USE ShutdownAssumption
    DEF IInv, TypeOK, Exclusion, Started, LiveAreListed, NobodyIsLeftBehind, Interrupts,
        Quiet, Live, AllThreads, MainPCs, UpdaterPCs, HandlerPCs, Goto, Runs, Over
<1>1. CASE StartUpdater
  BY <1>1 DEF StartUpdater
<1>2. CASE Listen \/ ListenFails
  BY <1>2 DEF Listen, ListenFails
<1>3. CASE AcceptConnection \/ HandshakeFails \/ HandshakeSucceeds
  BY <1>3 DEF AcceptConnection, HandshakeFails, HandshakeSucceeds
<1>4. CASE LockThreads
  BY <1>4 DEF LockThreads
<1>5. ASSUME NEW h \in Handlers, SpawnHandler(h) PROVE IInv'
  BY <1>5 DEF SpawnHandler, Trimmed, Unused
<1>6. CASE BeginJoin
  BY <1>6 DEF BeginJoin
<1>7. CASE JoinHandlers
  BY <1>7 DEF JoinHandlers
<1>8. CASE ClearTimers
  BY <1>8 DEF ClearTimers, NotifierPCs
<1>9. CASE JoinUpdater
  BY <1>9 DEF JoinUpdater
<1>10. QED
  BY <1>1, <1>2, <1>3, <1>4, <1>5, <1>6, <1>7, <1>8, <1>9 DEF MainThread

\* Every step of the updater preserves it.
LEMMA UpdaterIInv == IInv /\ UpdaterThread => IInv'
<1> SUFFICES ASSUME IInv, UpdaterThread PROVE IInv'
  OBVIOUS
<1> USE ShutdownAssumption
    DEF IInv, TypeOK, Exclusion, Started, LiveAreListed, NobodyIsLeftBehind, Interrupts,
        Quiet, Live, UpdaterPCs, UpdaterStep
<1>1. CASE BeginTaking \/ TakePayload
  BY <1>1 DEF BeginTaking, TakePayload
<1>2. CASE BeginBroadcast \/ FinishBroadcast
  BY <1>2 DEF BeginBroadcast, FinishBroadcast
<1>3. CASE UpdaterUnwinds
  BY <1>3 DEF UpdaterUnwinds
<1>4. QED
  BY <1>1, <1>2, <1>3 DEF UpdaterThread

\* A handler moves on only if it was created, and none comes back to life.
LEMMA HandlerMovesOn ==
    ASSUME NEW h \in Handlers, IInv, HandlerThread(h)
    PROVE  /\ UNCHANGED <<mpc, upc, threads, holder, spc, cancelled, taken>>
           /\ hpc[h] # "none" /\ npc' \in [Notifiers -> NotifierPCs]
           /\ queued' \in 0 .. MaxQueued /\ queued' >= queued
           /\ hpc' = [hpc EXCEPT ![h] = hpc'[h]]
           /\ hpc'[h] \in HandlerPCs \ {"none"} /\ (Live(h)' => Live(h))
<1> USE ShutdownAssumption DEF IInv, TypeOK, Live, HandlerPCs, NotifierPCs, HandlerStep
<1>1. CASE BeginFullList(h) \/ SendFullList(h) \/ ReadPayload(h)
  BY <1>1 DEF BeginFullList, SendFullList, ReadPayload
<1>2. CASE PushPayload(h)
  <2>1. hpc[h] = "handling" /\ hpc' = [hpc EXCEPT ![h] = "reading"]
    BY <1>2 DEF PushPayload
  <2>2. queued' \in 0 .. MaxQueued /\ queued' >= queued
    BY <1>2 DEF PushPayload
  <2>3. QED
    BY <1>2, <2>1, <2>2 DEF PushPayload
<1>3. CASE EndSession(h) \/ HandlerUnwinds(h)
  BY <1>3 DEF EndSession, HandlerUnwinds
<1>4. CASE SetTimer(h)
  BY <1>4 DEF SetTimer
<1>5. CASE EraseConnection(h) \/ Exit(h)
  BY <1>5 DEF EraseConnection, Exit
<1>6. QED
  BY <1>1, <1>2, <1>3, <1>4, <1>5 DEF HandlerThread

\* Every step of a handler preserves the invariant.
LEMMA HandlerIInv ==
    ASSUME NEW h \in Handlers, IInv, HandlerThread(h)
    PROVE  IInv'
BY HandlerMovesOn
   DEF IInv, TypeOK, Exclusion, Started, LiveAreListed, NobodyIsLeftBehind, Interrupts,
       Quiet, Live, HandlerPCs

\* A notification thread changes nothing but the queue and where it is.
LEMMA NotifierMovesOn ==
    ASSUME NEW n \in Notifiers, IInv, NotifierThread(n)
    PROVE  /\ UNCHANGED <<mpc, upc, hpc, threads, holder, spc, cancelled, taken>>
           /\ queued' \in 0 .. MaxQueued /\ queued' >= queued
           /\ npc' = [npc EXCEPT ![n] = npc'[n]] /\ npc'[n] \in NotifierPCs
<1> USE ShutdownAssumption DEF IInv, TypeOK, NotifierPCs, NotifierStep
<1>1. CASE Expire(n) \/ BeginErasure(n) \/ EraseTimer(n)
  BY <1>1 DEF Expire, BeginErasure, EraseTimer
<1>2. CASE PushAdopt(n)
  BY <1>2 DEF PushAdopt
<1>3. QED
  BY <1>1, <1>2 DEF NotifierThread

\* Every step of a notification thread preserves the invariant.
LEMMA NotifierIInv ==
    ASSUME NEW n \in Notifiers, IInv, NotifierThread(n)
    PROVE  IInv'
BY NotifierMovesOn
   DEF IInv, TypeOK, Exclusion, Started, LiveAreListed, NobodyIsLeftBehind, Interrupts,
       Quiet, Live

\* Every step of the signal handler, on top of whichever thread, preserves it.
LEMMA SignalIInv ==
    ASSUME NEW t \in AllThreads, IInv, Signal(t)
    PROVE  IInv'
<1> USE ShutdownAssumption
    DEF IInv, TypeOK, Exclusion, Started, LiveAreListed, NobodyIsLeftBehind, Interrupts,
        Quiet, Live, Over, AllThreads, MainPCs
<1>1. CASE TakeSignal(t)
  BY <1>1 DEF TakeSignal, Runs
<1>2. CASE SignalLocks(t)
  BY <1>2 DEF SignalLocks
<1>3. CASE SignalCancels(t)
  BY <1>3 DEF SignalCancels
<1>4. CASE SignalCrashes(t)
  BY <1>4 DEF SignalCrashes, StaleHandle
<1>5. QED
  BY <1>1, <1>2, <1>3, <1>4 DEF Signal

\* Every step keeps the invariant.
LEMMA Inductive == IInv /\ [Next]_vars => IInv'
<1> SUFFICES ASSUME IInv, [Next]_vars PROVE IInv'
  OBVIOUS
<1>1. CASE MainThread
  BY <1>1, MainIInv
<1>2. CASE UpdaterThread
  BY <1>2, UpdaterIInv
<1>3. ASSUME NEW h \in Handlers, HandlerThread(h) PROVE IInv'
  BY <1>3, HandlerIInv
<1>4. ASSUME NEW t \in AllThreads, Signal(t) PROVE IInv'
  BY <1>4, SignalIInv
<1>5. ASSUME NEW n \in Notifiers, NotifierThread(n) PROVE IInv'
  BY <1>5, NotifierIInv
<1>6. CASE UNCHANGED vars
  BY <1>6
     DEF vars, IInv, TypeOK, Exclusion, Started, LiveAreListed, NobodyIsLeftBehind,
         Interrupts, Quiet, Live
<1>7. QED
  BY <1>1, <1>2, <1>3, <1>4, <1>5, <1>6 DEF Next

\* The invariant holds throughout.
LEMMA InvariantHolds == Spec => []IInv
<1>1. QED
  BY InitIInv, Inductive, PTL DEF Spec

-----------------------------------------------------------------------------
\* The variables keep their types; with them, threads_mutex is held by one
\* thread at a time and only handlers that were created are listed.
THEOREM TypeCorrect == Spec => []TypeOK
<1>1. IInv => TypeOK
  BY DEF IInv
<1>2. QED
  BY InvariantHolds, <1>1, PTL

\* When the accept loop is over, every live handler is on the list that is
\* joined, and it and the updater are cancelled, for any number of handlers and
\* wherever the signals landed.
THEOREM NobodyLeftBehind == Spec => []NobodyIsLeftBehind
<1>1. IInv => NobodyIsLeftBehind
  BY DEF IInv
<1>2. QED
  BY InvariantHolds, <1>1, PTL

\* One SIGINT after the updater's start deadlocks nobody and cancels no stale
\* handle, except where it is taken by the main thread while it spawns.
THEOREM OneSignalSafe == Spec => []OneSignalIsSafe
<1>1. IInv => OneSignalIsSafe
  <2> SUFFICES ASSUME IInv, taken = 1 
               PROVE  /\ Caught => mpc = "spawning"
                      /\ mpc # "starting" =>
                            ~\E t \in AllThreads : spc[t] = "cancelling" /\ StaleHandle
    BY DEF OneSignalIsSafe
  <2> USE ShutdownAssumption
      DEF IInv, TypeOK, Exclusion, Started, Interrupts, Quiet, AllThreads
  <2>1. Caught => mpc = "spawning"
    BY DEF Caught, CannotEnd, Interrupted, UpdateIsCaught, ConnectionsAreCaught,
           TimersAreCaught
  <2>2. mpc # "starting" =>
           ~\E t \in AllThreads : spc[t] = "cancelling" /\ StaleHandle
    BY DEF StaleHandle
  <2>3. QED
    BY <2>1, <2>2
<1>2. QED
  BY InvariantHolds, <1>1, PTL

-----------------------------------------------------------------------------
\* While the main thread keeps threads_mutex, no signal handler comes past it.
LEMMA MutexIsKept ==
    ASSUME IInv, Caught
    PROVE  /\ holder = Main /\ mpc \in {"spawning", "joining"}
           /\ \A t \in AllThreads : spc[t] # "cancelling"
<1> USE ShutdownAssumption DEF IInv, TypeOK, Exclusion, Interrupted, AllThreads
<1>1. CASE holder = Main /\ Interrupted(Main)
  BY <1>1
<1>2. CASE mpc = "joining"
  BY <1>2
<1>3. QED
  BY <1>1, <1>2 DEF Caught

\* A signal that is sent to a server that is caught changes where nobody is, and
\* releases nobody from the signal handler.
LEMMA SignalKeepsCaught ==
    ASSUME NEW t \in AllThreads, IInv, Caught, Signal(t)
    PROVE  Caught'
<1>1. TakeSignal(t)
  BY MutexIsKept, ShutdownAssumption
     DEF Signal, SignalLocks, SignalCancels, SignalCrashes, AllThreads
<1>2. UNCHANGED <<mpc, upc, hpc, npc, threads, holder>>
  BY <1>1 DEF TakeSignal
<1>3. \A u \in AllThreads : Interrupted(u) => Interrupted(u)'
  BY <1>1 DEF TakeSignal, Interrupted, IInv, TypeOK
<1>4. UpdateIsCaught => UpdateIsCaught'
  BY <1>2, <1>3 DEF UpdateIsCaught, AllThreads
<1>5. ConnectionsAreCaught => ConnectionsAreCaught'
  BY <1>2, <1>3 DEF ConnectionsAreCaught, AllThreads
<1>6. TimersAreCaught => TimersAreCaught'
  BY <1>2, <1>3 DEF TimersAreCaught, AllThreads
<1>7. threads \subseteq AllThreads
  BY DEF IInv, TypeOK, AllThreads
<1>8. \A h \in threads : CannotEnd(h) => CannotEnd(h)'
  BY <1>2, <1>3, <1>4, <1>5, <1>6, <1>7 DEF CannotEnd, Live
<1>9. Interrupted(Main) => Interrupted(Main)'
  BY <1>3 DEF AllThreads
<1>10. QED
  BY <1>2, <1>8, <1>9 DEF Caught

\* The main thread does nothing more: it is in the signal handler, or a handler
\* that it joins has not ended.
LEMMA MainIsCaught == IInv /\ Caught => ~MainThread
<1> SUFFICES ASSUME IInv, Caught, MainThread PROVE FALSE
  OBVIOUS
<1>1. Runs(Main) /\ mpc \in {"spawning", "joining"}
  BY MutexIsKept
     DEF MainThread, StartUpdater, Listen, ListenFails, AcceptConnection,
         HandshakeFails, HandshakeSucceeds, LockThreads, SpawnHandler, BeginJoin,
         JoinHandlers, ClearTimers, JoinUpdater, Goto
<1>2. mpc = "joining" /\ \E h \in threads : hpc[h] # "dead"
  BY <1>1 DEF Caught, Interrupted, Runs
<1>3. JoinHandlers
  BY <1>2
     DEF MainThread, StartUpdater, Listen, ListenFails, AcceptConnection,
         HandshakeFails, HandshakeSucceeds, LockThreads, SpawnHandler, BeginJoin,
         ClearTimers, JoinUpdater, Goto
<1>4. QED
  BY <1>2, <1>3 DEF JoinHandlers

\* The others step on only where they do not hold, and do not need, what is held.
LEMMA UpdaterKeepsCaught == IInv /\ Caught /\ UpdaterThread => Caught'
<1> SUFFICES ASSUME IInv, Caught, UpdaterThread PROVE Caught'
  OBVIOUS
<1>1. /\ UNCHANGED <<mpc, hpc, npc, threads, holder, spc>>
      /\ ~Interrupted(Updater)
  BY DEF UpdaterThread, BeginTaking, TakePayload, BeginBroadcast, FinishBroadcast,
         UpdaterUnwinds, UpdaterStep, Runs, Interrupted
<1>2. QED
  BY <1>1
     DEF Caught, CannotEnd, UpdateIsCaught, ConnectionsAreCaught, TimersAreCaught,
         Interrupted, Live

LEMMA HandlerKeepsCaught ==
    ASSUME NEW g \in Handlers, IInv, Caught, HandlerThread(g)
    PROVE  Caught'
<1>1. UNCHANGED <<mpc, upc, threads, holder, spc>> /\ spc[g] = "none"
  BY DEF HandlerThread, BeginFullList, SendFullList, ReadPayload, PushPayload, EndSession,
         SetTimer, HandlerUnwinds, EraseConnection, Exit, HandlerStep, Runs
<1>2. CASE holder = Main /\ Interrupted(Main)
  BY <1>1, <1>2 DEF Caught, Interrupted
<1>3. CASE mpc = "joining" /\ \E h \in threads : hpc[h] # "dead" /\ CannotEnd(h)
  <2>1. PICK h \in threads : hpc[h] # "dead" /\ CannotEnd(h)
    BY <1>3
  <2>2. hpc'[h] # "dead" /\ CannotEnd(h)'
    <3> USE DEF IInv, TypeOK, HandlerStep
    <3>1. UpdateIsCaught => UpdateIsCaught' /\ ~UpdateFree
      <4>1. SetTimer(g) \/ UNCHANGED npc
        BY DEF HandlerThread, BeginFullList, SendFullList, ReadPayload, PushPayload,
               EndSession, HandlerUnwinds, EraseConnection, Exit
      <4>2. \A n \in Notifiers : npc[n] = "pushing" => npc'[n] = "pushing"
        BY <4>1 DEF SetTimer
      <4>3. QED
        BY <1>1, <4>2 DEF UpdateIsCaught, UpdateFree, Interrupted
    <3>2. ConnectionsAreCaught => ConnectionsAreCaught' /\ ~ConnectionsFree
      BY <1>1 DEF ConnectionsAreCaught, ConnectionsFree, Interrupted
    <3>3. TimersAreCaught => TimersAreCaught' /\ ~TimersFree
      <4>1. SetTimer(g) \/ UNCHANGED npc
        BY DEF HandlerThread, BeginFullList, SendFullList, ReadPayload, PushPayload,
               EndSession, HandlerUnwinds, EraseConnection, Exit
      <4>2. \A n \in Notifiers : npc[n] = "erasing" => npc'[n] = "erasing"
        BY <4>1 DEF SetTimer
      <4>3. QED
        BY <1>1, <4>2 DEF TimersAreCaught, TimersFree, Interrupted
    <3>4. CASE h # g
      <4>1. hpc'[h] = hpc[h]
        BY <3>4, HandlerMovesOn
      <4>2. QED
        BY <1>1, <2>1, <3>1, <3>2, <3>3, <4>1 DEF CannotEnd, Interrupted, Live
    <3>5. CASE h = g
      <4>1. ~Interrupted(h)
        BY <1>1, <3>5 DEF Interrupted
      <4>2. CASE hpc[h] \in {"starting", "handling"} /\ UpdateIsCaught
        BY <3>1, <3>5, <4>2
           DEF HandlerThread, BeginFullList, SendFullList, ReadPayload, PushPayload,
               EndSession, SetTimer, HandlerUnwinds, EraseConnection, Exit
      <4>3. CASE hpc[h] = "timing" /\ TimersAreCaught
        BY <3>3, <3>5, <4>3
           DEF HandlerThread, BeginFullList, SendFullList, ReadPayload, PushPayload,
               EndSession, SetTimer, HandlerUnwinds, EraseConnection, Exit
      <4>4. CASE Live(h) /\ ConnectionsAreCaught
        <5>1. hpc'[h] \notin {"none", "dying", "dead"}
          BY <3>2, <3>5, <4>4
             DEF HandlerThread, BeginFullList, SendFullList, ReadPayload, PushPayload,
                 EndSession, SetTimer, HandlerUnwinds, EraseConnection, Exit, Live
        <5>2. QED
          BY <3>2, <4>4, <5>1 DEF CannotEnd, Live
      <4>5. QED
        BY <2>1, <4>1, <4>2, <4>3, <4>4 DEF CannotEnd
    <3>6. QED
      BY <3>4, <3>5
  <2>3. QED
    BY <1>1, <1>3, <2>1, <2>2 DEF Caught
<1>4. QED
  BY <1>2, <1>3 DEF Caught

LEMMA NotifierKeepsCaught ==
    ASSUME NEW n \in Notifiers, IInv, Caught, NotifierThread(n)
    PROVE  Caught'
<1>1. /\ UNCHANGED <<mpc, upc, hpc, threads, holder, spc>>
      /\ \A m \in Notifiers : Interrupted(m) => npc'[m] = npc[m]
  BY NotifierMovesOn
     DEF NotifierThread, Expire, PushAdopt, BeginErasure, EraseTimer, NotifierStep, Runs,
         Interrupted, IInv, TypeOK
<1>2. QED
  BY <1>1
     DEF Caught, CannotEnd, UpdateIsCaught, ConnectionsAreCaught, TimersAreCaught,
         Interrupted, Live

\* A deadlock that `Caught' lists is one: no step of any thread and no signal ends it,
\* for any number of handlers and of notification threads.
THEOREM CaughtStays == Spec => CaughtForEver
<1>1. IInv /\ [Next]_vars => [Caught => Caught']_vars
  <2> SUFFICES ASSUME IInv, [Next]_vars, Caught PROVE Caught'
    OBVIOUS
  <2>1. CASE UpdaterThread
    BY <2>1, UpdaterKeepsCaught
  <2>2. ASSUME NEW h \in Handlers, HandlerThread(h) PROVE Caught'
    BY <2>2, HandlerKeepsCaught
  <2>3. ASSUME NEW n \in Notifiers, NotifierThread(n) PROVE Caught'
    BY <2>3, NotifierKeepsCaught
  <2>4. ASSUME NEW t \in AllThreads, Signal(t) PROVE Caught'
    BY <2>4, SignalKeepsCaught
  <2>5. CASE UNCHANGED vars
    BY <2>5
       DEF vars, Caught, CannotEnd, UpdateIsCaught, ConnectionsAreCaught,
           TimersAreCaught, Interrupted, Live
  <2>6. QED
    BY MainIsCaught, <2>1, <2>2, <2>3, <2>4, <2>5 DEF Next
<1>2. QED
  BY InvariantHolds, <1>1, PTL DEF Spec, CaughtForEver
=============================================================================
