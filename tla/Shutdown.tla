------------------------------ MODULE Shutdown ------------------------------
(***************************************************************************)
(* How the NetSketch server starts and stops: Runner::run and ~Runner      *)
(* (src/src/server/runner.cpp), the accept loop (server.cpp), the updater  *)
(* and the handler threads, and the SIGINT handler that cancels them.  The *)
(* handler runs on top of whichever thread takes the signal, and that      *)
(* thread does nothing else until it returns - so whatever mutex it holds  *)
(* is held until then.                                                     *)
(*                                                                         *)
(* Cancellation is deferred: a cancelled thread goes on until it is in, or *)
(* comes to, a call that is a cancellation point (poll, recv, write, the   *)
(* wait on the condition); then it unwinds, which releases what its guards *)
(* hold and runs its cleanup.  A write may block for ever: the peer need   *)
(* not read.  What is sent and drawn is left to Replication, the names and *)
(* the timers to Sessions.                                                 *)
(***************************************************************************)
EXTENDS Integers, FiniteSets

CONSTANTS
    Handlers,       \* identities of handler threads; that of one that ended is used again
    Notifiers,      \* notification threads, each of one timer at a time (timing.cpp)
    Main, Updater,  \* the other threads
    Nobody,
    MaxSignals,     \* how often SIGINT is sent
    MaxQueued       \* how many payloads may be queued

ASSUME ShutdownAssumption ==
    /\ Main # Updater /\ {Main, Updater, Nobody} \cap (Handlers \cup Notifiers) = {}
    /\ Handlers \cap Notifiers = {}
    /\ Nobody \notin {Main, Updater}
    /\ MaxSignals \in Nat /\ MaxQueued \in Nat

VARIABLES
    mpc,        \* where the main thread is
    upc,        \* where the updater is
    hpc,        \* where each handler is
    npc,        \* where each notification thread is, once its timer is set
    threads,    \* share::threads
    queued,     \* how many payloads payload_queue holds
    holder,     \* the thread that holds threads_mutex
    spc,        \* where each thread is in sigint_handler, if it runs it
    cancelled,  \* the threads pthread_cancel was called for
    taken       \* how many signals were taken

vars == <<mpc, upc, hpc, npc, threads, queued, holder, spc, cancelled, taken>>

AllThreads == Handlers \cup Notifiers \cup {Main, Updater}

\* The main thread is `polling' in poll or on its way there, once it has accepted a
\* client in the `handshake', then `registering' and `spawning'.  Out of the
\* loop it is `breaking' until it has threads_mutex, `joining' the handlers,
\* `clearing' the timers, then `ending' in ~Runner until the updater is joined.
MainPCs == {"starting", "opening", "polling", "handshake", "registering", "spawning",
            "breaking", "joining", "clearing", "ending", "ended", "crashed"}

\* The updater is `taking' a payload, or `unwinding' from its wait, while it holds
\* update_mutex; it is `broadcasting' while it holds connections_mutex.
UpdaterPCs == {"none", "waiting", "taking", "applied", "broadcasting", "unwinding", "dead"}

\* A handler is `sending' while it holds update_mutex for the full list, then
\* `reading', `handling' what it read, `timing' when it sets a timer, and in its
\* cleanup `erasing'.  A `dying' one is no longer alive, yet its thread still runs.
HandlerPCs == {"none", "starting", "sending", "reading", "handling", "timing",
               "erasing", "dying", "dead"}

\* When its timer has expired a notification thread is `pushing' the Adopt while it
\* holds update_mutex, and `erasing' the timer while it holds timers_mutex.
NotifierPCs == {"none", "set", "pushing", "pushed", "erasing"}

Live(h) == hpc[h] \notin {"none", "dying", "dead"}

Unused(h) == hpc[h] \in {"none", "dead"}

\* threads_mutex is held by the main thread where it says so, else by a signal
\* handler that is cancelling; and a thread that is listed has been created.
TypeOK ==
    /\ mpc \in MainPCs
    /\ upc \in UpdaterPCs
    /\ hpc \in [Handlers -> HandlerPCs]
    /\ npc \in [Notifiers -> NotifierPCs]
    /\ threads \subseteq {h \in Handlers : hpc[h] # "none"}
    /\ queued \in 0 .. MaxQueued /\ (upc = "taking" => queued > 0)
    /\ spc \in [AllThreads -> {"none", "locking", "cancelling"}]
    /\ IF mpc \in {"spawning", "joining"} THEN holder = Main
       ELSE IF holder = Nobody THEN \A t \in AllThreads : spc[t] # "cancelling"
       ELSE holder \in AllThreads /\ spc[holder] = "cancelling"
    /\ cancelled \subseteq Handlers \cup {Updater}
    /\ taken \in 0 .. MaxSignals

Init ==
    /\ mpc = "starting" /\ upc = "none"
    /\ hpc = [h \in Handlers |-> "none"]
    /\ npc = [n \in Notifiers |-> "none"]
    /\ threads = {} /\ queued = 0 /\ holder = Nobody
    /\ spc = [t \in AllThreads |-> "none"]
    /\ cancelled = {} /\ taken = 0

-----------------------------------------------------------------------------
Over == mpc \in {"ended", "crashed"}

\* Thread t does its own work: the process runs, and t is in no signal handler.
Runs(t) == ~Over /\ spc[t] = "none"

\* Nobody holds update_mutex, connections_mutex, timers_mutex for longer than a step.
UpdateFree ==
    /\ upc \notin {"taking", "unwinding"}
    /\ \A h \in Handlers : hpc[h] # "sending"
    /\ \A n \in Notifiers : npc[n] # "pushing"

ConnectionsFree == upc # "broadcasting"

TimersFree == \A n \in Notifiers : npc[n] # "erasing"

\* A connection is in the map from registration to its handler's cleanup.
HasConnections == mpc = "spawning" \/ \E h \in Handlers : Live(h)

-----------------------------------------------------------------------------
(* The main thread *)

Goto(from, to) == Runs(Main) /\ mpc = from /\ mpc' = to

\* Mutant: the accept loop starts before the updater.
StartUpdater_Later ==
    /\ Goto("starting", "opening")
    /\ UNCHANGED <<upc, hpc, npc, threads, queued, holder, spc, cancelled, taken>>

\* share::updater_thread = threading::thread { Updater {} }
StartUpdater ==
    /\ Goto("starting", "opening")
    /\ upc' = "waiting"
    /\ UNCHANGED <<hpc, npc, threads, queued, holder, spc, cancelled, taken>>

Listen ==
    /\ Goto("opening", "polling")
    /\ UNCHANGED <<upc, hpc, npc, threads, queued, holder, spc, cancelled, taken>>

\* The port cannot be bound: there will be no accept loop, nor a signal.
ListenFails ==
    /\ Goto("opening", "ending")
    /\ cancelled' = cancelled \cup {Updater}
    /\ UNCHANGED <<upc, hpc, npc, threads, queued, holder, spc, taken>>

\* Bounded by the identities there are for a handler.
AcceptConnection ==
    /\ Goto("polling", "handshake")
    /\ \E h \in Handlers : Unused(h)
    /\ UNCHANGED <<upc, hpc, npc, threads, queued, holder, spc, cancelled, taken>>

\* `continue': no name, a name in use, or the read was interrupted.
HandshakeFails ==
    /\ Goto("handshake", "polling")
    /\ UNCHANGED <<upc, hpc, npc, threads, queued, holder, spc, cancelled, taken>>

\* The name is inserted and a timer of its user looked for.
HandshakeSucceeds ==
    /\ Goto("handshake", "registering")
    /\ TimersFree
    /\ UNCHANGED <<upc, hpc, npc, threads, queued, holder, spc, cancelled, taken>>

\* `connections' gets the connection, and threads_mutex is locked.
LockThreads ==
    /\ Goto("registering", "spawning")
    /\ ConnectionsFree /\ holder = Nobody
    /\ holder' = Main
    /\ UNCHANGED <<upc, hpc, npc, threads, queued, spc, cancelled, taken>>

\* Mutant: the threads that are alive are trimmed.
Trimmed_Inverted(list) == {h \in list : ~Live(h)}

\* remove_if the thread is not alive.
Trimmed(list) == {h \in list : Live(h)}

\* Mutant: a guard that does not unlock.
SpawnHandler_KeepsLock(h) ==
    /\ Goto("spawning", "polling")
    /\ Unused(h)
    /\ hpc' = [hpc EXCEPT ![h] = "starting"]
    /\ threads' = Trimmed(threads) \cup {h}
    /\ cancelled' = cancelled \ {h}
    /\ UNCHANGED <<upc, npc, queued, holder, spc, taken>>

\* The list is trimmed of those that ended before, one with this identity too.
\* test_cancel does nothing, for nobody ever cancels the main thread.
SpawnHandler(h) ==
    /\ Goto("spawning", "polling")
    /\ Unused(h)
    /\ hpc' = [hpc EXCEPT ![h] = "starting"]
    /\ threads' = Trimmed(threads) \cup {h}
    /\ cancelled' = cancelled \ {h}
    /\ holder' = Nobody
    /\ UNCHANGED <<upc, npc, queued, spc, taken>>

\* The cleanup of request_loop locks threads_mutex and joins one by one.
BeginJoin ==
    /\ Goto("breaking", "joining")
    /\ holder = Nobody /\ holder' = Main
    /\ UNCHANGED <<upc, hpc, npc, threads, queued, spc, cancelled, taken>>

\* Mutant: a handler that is no longer alive is not waited for.
JoinHandlers_AliveOnly ==
    /\ Goto("joining", "clearing")
    /\ \A h \in threads : ~Live(h)
    /\ holder' = Nobody
    /\ UNCHANGED <<upc, hpc, npc, threads, queued, spc, cancelled, taken>>

JoinHandlers ==
    /\ Goto("joining", "clearing")
    /\ \A h \in threads : hpc[h] = "dead"
    /\ holder' = Nobody
    /\ UNCHANGED <<upc, hpc, npc, threads, queued, spc, cancelled, taken>>

\* Timers that have not expired will not.
ClearTimers ==
    /\ Goto("clearing", "ending")
    /\ TimersFree
    /\ npc' = [n \in Notifiers |-> IF npc[n] = "set" THEN "none" ELSE npc[n]]
    /\ UNCHANGED <<upc, hpc, threads, queued, holder, spc, cancelled, taken>>

\* ~Runner, and main returns.
JoinUpdater ==
    /\ Goto("ending", "ended")
    /\ upc = "dead"
    /\ UNCHANGED <<upc, hpc, npc, threads, queued, holder, spc, cancelled, taken>>

-----------------------------------------------------------------------------
(* The updater, the handlers and the notification threads of the timers *)

UpdaterStep(from, to) == Runs(Updater) /\ upc = from /\ upc' = to

\* The wait returns with update_mutex, which is released when the payload is made.
BeginTaking ==
    /\ UpdaterStep("waiting", "taking")
    /\ queued > 0 /\ UpdateFree
    /\ UNCHANGED <<mpc, hpc, npc, threads, queued, holder, spc, cancelled, taken>>

TakePayload ==
    /\ UpdaterStep("taking", "applied")
    /\ queued' = queued - 1
    /\ UNCHANGED <<mpc, hpc, npc, threads, holder, spc, cancelled, taken>>

BeginBroadcast ==
    /\ UpdaterStep("applied", "broadcasting")
    /\ UNCHANGED <<mpc, hpc, npc, threads, queued, holder, spc, cancelled, taken>>

\* Every write has returned; none does in a cancelled thread.
FinishBroadcast ==
    /\ UpdaterStep("broadcasting", "waiting")
    /\ Updater \notin cancelled \/ ~HasConnections
    /\ UNCHANGED <<mpc, hpc, npc, threads, queued, holder, spc, cancelled, taken>>

\* In the wait, which takes update_mutex again before it unwinds, or in a write.
UpdaterUnwinds ==
    /\ \/ Updater \in cancelled /\ UpdaterStep("waiting", "unwinding") /\ UpdateFree
       \/ UpdaterStep("unwinding", "dead")
       \/ Updater \in cancelled /\ UpdaterStep("broadcasting", "dead") /\ HasConnections
    /\ UNCHANGED <<mpc, hpc, npc, threads, queued, holder, spc, cancelled, taken>>

HandlerStep(h, from, to) == Runs(h) /\ hpc[h] = from /\ hpc' = [hpc EXCEPT ![h] = to]

BeginFullList(h) ==
    /\ HandlerStep(h, "starting", "sending") /\ UpdateFree
    /\ UNCHANGED <<mpc, upc, npc, threads, queued, holder, spc, cancelled, taken>>

SendFullList(h) ==
    /\ HandlerStep(h, "sending", "reading") /\ h \notin cancelled
    /\ UNCHANGED <<mpc, upc, npc, threads, queued, holder, spc, cancelled, taken>>

ReadPayload(h) ==
    /\ HandlerStep(h, "reading", "handling") /\ h \notin cancelled
    /\ UNCHANGED <<mpc, upc, npc, threads, queued, holder, spc, cancelled, taken>>

\* A queue that is full stays full: the bound stops nobody.
PushPayload(h) ==
    /\ HandlerStep(h, "handling", "reading") /\ UpdateFree
    /\ queued' = IF queued < MaxQueued THEN queued + 1 ELSE queued
    /\ UNCHANGED <<mpc, upc, npc, threads, holder, spc, cancelled, taken>>

\* The full list cannot be written, or the read fails or times out.
EndSession(h) ==
    /\ \/ HandlerStep(h, "sending", "erasing")
       \/ HandlerStep(h, "reading", "timing")
    /\ h \notin cancelled
    /\ UNCHANGED <<mpc, upc, npc, threads, queued, holder, spc, cancelled, taken>>

\* Only so many timers are followed: this one need not be.
SetTimer(h) ==
    /\ HandlerStep(h, "timing", "erasing") /\ TimersFree
    /\ \/ \E n \in Notifiers : npc[n] = "none" /\ npc' = [npc EXCEPT ![n] = "set"]
       \/ (\A n \in Notifiers : npc[n] # "none") /\ UNCHANGED npc
    /\ UNCHANGED <<mpc, upc, threads, queued, holder, spc, cancelled, taken>>

\* Mutant: a write of the full list that blocks is not cancelled.
HandlerUnwinds_NotInWrite(h) ==
    /\ HandlerStep(h, "reading", "erasing")
    /\ h \in cancelled
    /\ UNCHANGED <<mpc, upc, npc, threads, queued, holder, spc, cancelled, taken>>

HandlerUnwinds(h) ==
    /\ \E pc \in {"sending", "reading"} : HandlerStep(h, pc, "erasing")
    /\ h \in cancelled
    /\ UNCHANGED <<mpc, upc, npc, threads, queued, holder, spc, cancelled, taken>>

\* The cleanup takes connections_mutex; then is_alive becomes false.
EraseConnection(h) ==
    /\ HandlerStep(h, "erasing", "dying") /\ ConnectionsFree
    /\ UNCHANGED <<mpc, upc, npc, threads, queued, holder, spc, cancelled, taken>>

Exit(h) ==
    /\ HandlerStep(h, "dying", "dead")
    /\ UNCHANGED <<mpc, upc, npc, threads, queued, holder, spc, cancelled, taken>>

NotifierStep(n, from, to) == Runs(n) /\ npc[n] = from /\ npc' = [npc EXCEPT ![n] = to]

\* Its notification thread looks at the TimerData, then locks update_mutex.
Expire(n) ==
    /\ NotifierStep(n, "set", "pushing") /\ UpdateFree
    /\ UNCHANGED <<mpc, upc, hpc, threads, queued, holder, spc, cancelled, taken>>

PushAdopt(n) ==
    /\ NotifierStep(n, "pushing", "pushed")
    /\ queued' = IF queued < MaxQueued THEN queued + 1 ELSE queued
    /\ UNCHANGED <<mpc, upc, hpc, threads, holder, spc, cancelled, taken>>

BeginErasure(n) ==
    /\ NotifierStep(n, "pushed", "erasing") /\ TimersFree
    /\ UNCHANGED <<mpc, upc, hpc, threads, queued, holder, spc, cancelled, taken>>

EraseTimer(n) ==
    /\ NotifierStep(n, "erasing", "none")
    /\ UNCHANGED <<mpc, upc, hpc, threads, queued, holder, spc, cancelled, taken>>

-----------------------------------------------------------------------------
(* SIGINT *)

Exists(t) ==
    CASE t = Main -> ~Over
      [] t = Updater -> upc \notin {"none", "dead"}
      [] t \in Handlers -> hpc[t] \notin {"none", "dead"}
      [] t \in Notifiers -> npc[t] \notin {"none", "set"}

\* Any thread may take the signal, except one that is handling one already.
TakeSignal(t) ==
    /\ taken < MaxSignals /\ Runs(t) /\ Exists(t)
    /\ taken' = taken + 1
    /\ spc' = [spc EXCEPT ![t] = "locking"]
    /\ UNCHANGED <<mpc, upc, hpc, npc, threads, queued, holder, cancelled>>

\* The mutex is not recursive: if t holds it itself, t waits for ever.
SignalLocks(t) ==
    /\ ~Over /\ spc[t] = "locking" /\ holder = Nobody
    /\ holder' = t
    /\ spc' = [spc EXCEPT ![t] = "cancelling"]
    /\ UNCHANGED <<mpc, upc, hpc, npc, threads, queued, cancelled, taken>>

\* pthread_cancel is called with a handle that is not, or no longer, valid:
\* updater_thread is not set, or the listed handlers were joined.
StaleHandle == upc = "none" \/ (mpc \in {"clearing", "ending"} /\ threads # {})

\* When it returns in the middle of poll, poll fails with EINTR, which ends the
\* accept loop; anywhere else, on the way to poll too, the main thread goes on.
SignalCancels(t) ==
    /\ ~Over /\ spc[t] = "cancelling" /\ upc # "none"
    /\ cancelled' = cancelled \cup threads \cup {Updater}
    /\ holder' = Nobody
    /\ spc' = [spc EXCEPT ![t] = "none"]
    /\ mpc' \in IF t = Main /\ mpc = "polling" THEN {"polling", "breaking"} ELSE {mpc}
    /\ UNCHANGED <<upc, hpc, npc, threads, queued, taken>>

\* What pthread_cancel does with a stale handle is undefined: it may do nothing,
\* which is SignalCancels, or end the process, as it does with an unset one.
SignalCrashes(t) ==
    /\ ~Over /\ spc[t] = "cancelling" /\ StaleHandle
    /\ mpc' = "crashed"
    /\ holder' = Nobody
    /\ spc' = [u \in AllThreads |-> "none"]
    /\ UNCHANGED <<upc, hpc, npc, threads, queued, cancelled, taken>>

-----------------------------------------------------------------------------
MainThread ==
    \/ StartUpdater \/ Listen \/ ListenFails \/ AcceptConnection
    \/ HandshakeFails \/ HandshakeSucceeds \/ LockThreads
    \/ \E h \in Handlers : SpawnHandler(h)
    \/ BeginJoin \/ JoinHandlers \/ ClearTimers \/ JoinUpdater

UpdaterThread ==
    \/ BeginTaking \/ TakePayload
    \/ BeginBroadcast \/ FinishBroadcast \/ UpdaterUnwinds

HandlerThread(h) ==
    \/ BeginFullList(h) \/ SendFullList(h) \/ ReadPayload(h) \/ PushPayload(h)
    \/ EndSession(h) \/ SetTimer(h) \/ HandlerUnwinds(h) \/ EraseConnection(h) \/ Exit(h)

NotifierThread(n) ==
    \/ Expire(n) \/ PushAdopt(n) \/ BeginErasure(n) \/ EraseTimer(n)

Signal(t) == TakeSignal(t) \/ SignalLocks(t) \/ SignalCancels(t) \/ SignalCrashes(t)

Next ==
    \/ MainThread \/ UpdaterThread
    \/ \E h \in Handlers : HandlerThread(h)
    \/ \E n \in Notifiers : NotifierThread(n)
    \/ \E t \in AllThreads : Signal(t)

\* Threads run.  But nobody has to connect, no timer to expire, and a write to a
\* client need never return: in `sending' and `broadcasting' only a cancellation is
\* certain to end it.  A signal handler gets a mutex that is free again and again.
MainWorks ==
    mpc \in {"starting", "spawning", "breaking", "joining", "clearing", "ending"} /\ MainThread

UpdaterWorks ==
    \/ BeginTaking \/ TakePayload \/ BeginBroadcast
    \/ (FinishBroadcast /\ ~HasConnections) \/ UpdaterUnwinds

HandlerWorks(h) ==
    \/ BeginFullList(h) \/ PushPayload(h) \/ SetTimer(h)
    \/ HandlerUnwinds(h) \/ EraseConnection(h) \/ Exit(h)

NotifierWorks(n) == PushAdopt(n) \/ BeginErasure(n) \/ EraseTimer(n)

Fairness ==
    /\ WF_vars(MainWorks) /\ WF_vars(UpdaterWorks)
    /\ \A h \in Handlers : WF_vars(HandlerWorks(h))
    /\ \A n \in Notifiers : WF_vars(NotifierWorks(n))
    /\ SF_vars(\E t \in AllThreads : SignalLocks(t))
    /\ WF_vars(\E t \in AllThreads : SignalCancels(t) \/ SignalCrashes(t))

Spec == Init /\ [][Next]_vars /\ Fairness

-----------------------------------------------------------------------------
(* Properties *)

\* When the main thread comes to wait for the others, whatever the interrupt
\* interrupted, each of them is known to it and has been told to end: no live
\* handler is off the list or uncancelled, nor is the updater.
NobodyIsLeftBehind ==
    mpc \in {"breaking", "joining", "clearing", "ending"} =>
        /\ Updater \in cancelled
        /\ \A h \in Handlers : Live(h) => h \in threads \cap cancelled

\* Thread t was in a critical section when it took SIGINT, and waits in the handler.
Interrupted(t) == spc[t] = "locking"

UpdateIsCaught ==
    \/ upc \in {"taking", "unwinding"} /\ Interrupted(Updater)
    \/ \E n \in Notifiers : npc[n] = "pushing" /\ Interrupted(n)

ConnectionsAreCaught == upc = "broadcasting" /\ Interrupted(Updater)

TimersAreCaught == \E n \in Notifiers : npc[n] = "erasing" /\ Interrupted(n)

\* Handler h will never end while the main thread keeps threads_mutex: it waits for
\* that itself, or it needs a mutex whose owner does.  All cleanups need
\* connections_mutex; locking a mutex is no cancellation point.
CannotEnd(h) ==
    \/ Interrupted(h)
    \/ hpc[h] \in {"starting", "handling"} /\ UpdateIsCaught
    \/ hpc[h] = "timing" /\ TimersAreCaught
    \/ Live(h) /\ ConnectionsAreCaught

\* SIGINT was taken by the main thread while it holds threads_mutex; or the main
\* thread holds it to join handlers, one of which cannot end.
Caught ==
    \/ holder = Main /\ Interrupted(Main)
    \/ mpc = "joining" /\ \E h \in threads : hpc[h] # "dead" /\ CannotEnd(h)

\* One SIGINT after the updater's start is safe wherever it lands, except in the main
\* thread while it spawns a handler: nobody waits for a mutex for ever, and no
\* handle it cancels is stale.  A second one is not.
OneSignalIsSafe ==
    taken = 1 => /\ Caught => mpc = "spawning"
                 /\ mpc # "starting" =>
                       ~\E t \in AllThreads : spc[t] = "cancelling" /\ StaleHandle

\* The main thread is in its accept loop and no thread in sigint_handler.
GoesOn ==
    /\ mpc \notin {"breaking", "joining", "clearing", "ending"}
    /\ \A t \in AllThreads : spc[t] = "none"

\* sigint_handler returns, whoever runs it and whatever the others hold; and a server
\* whose poll it interrupted, or that cannot listen, ends, although clients that do
\* not read block its threads in a write with a mutex in hand - unless it is caught.
\* (One that is interrupted elsewhere goes on.)
EndsOrGoesOn == []<>(GoesOn \/ Over \/ Caught)

\* Whoever is caught is so for ever: these are deadlocks, which no other thread, no
\* client and no further signal resolves.
CaughtForEver == [][Caught => Caught']_vars
=============================================================================
