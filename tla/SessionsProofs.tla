--------------------------- MODULE SessionsProofs ---------------------------
(***************************************************************************)
(* Proofs about the sessions of the server, for any sets of names,         *)
(* descriptors and threads, any number of them, and any number of timers.  *)
(*                                                                         *)
(* None of the properties is inductive.  What they rest on is what the     *)
(* main thread knows while it is between two critical sections: that the   *)
(* name it found free is still free (only the main thread inserts names),  *)
(* and that the descriptor it accepted is not in `connections' yet.        *)
(***************************************************************************)
EXTENDS Adoption, TLAPS

\* What the main thread's variables hold, by where it is.
MainLocals ==
    mpc \in {"decline", "accept", "insert", "reconnect", "register", "spawn"}
        => mname \in Names

\* What a handler's variables hold while its thread runs.
HandlerLocals ==
    \A h \in Handlers : hpc[h] # "dead" => hname[h] \in Names /\ hfd[h] \in Fds

\* What a notification thread's variables hold while it runs.
NotifierLocals ==
    \A n \in Notifiers : npc[n] # "idle" => nptr[n] \in TimerPtrs

LocalsInv == TypeOK /\ MainLocals /\ HandlerLocals /\ NotifierLocals

\* A name that was looked up and found free stays free until it is inserted.
FreeNameStaysFree == mpc \in {"accept", "insert"} => mname \notin users

NamesInv == FreeNameStaysFree /\ OneSessionPerName /\ UsersAreTheSessions

\* The descriptor that was accepted is nobody's until it is registered, and then
\* it is no handler's until the handler is spawned.
AcceptedIsNobodys ==
    /\ mpc \notin {"poll", "spawn"} => mfd \notin connections
    /\ mpc = "spawn" => mfd \in connections
    /\ \A h \in Handlers : HoldsConnection(h) => hfd[h] # mfd

ConnectionsInv ==
    AcceptedIsNobodys /\ HandlersOwnTheirConnection /\ ConnectionsAreTheHandlers

\* TimerData is allocated exactly while it is listed.
ListedIsAllocated ==
    /\ \A t \in TimerPtrs : t \in timers <=> tname[t] # NoName
    /\ armed \subseteq timers

TimersInv == ListedIsAllocated /\ OneTimerPerName

IInv == /\ LocalsInv /\ NamesInv /\ ConnectionsInv /\ TimersInv
        /\ RunningHandlersAreListed

-----------------------------------------------------------------------------
\* The invariant holds at the start.
LEMMA InitIInv == Init => IInv
BY NullsAreFresh
   DEF Init, IInv, LocalsInv, TypeOK, MainLocals, HandlerLocals, NotifierLocals,
       MainPCs, HandlerPCs, NotifierPCs, NamesInv, FreeNameStaysFree,
       OneSessionPerName, UsersAreTheSessions, HoldsName, MainHoldsName,
       ConnectionsInv, AcceptedIsNobodys, HandlersOwnTheirConnection,
       ConnectionsAreTheHandlers, HoldsConnection, TimersInv, ListedIsAllocated,
       OneTimerPerName, RunningHandlersAreListed

-----------------------------------------------------------------------------
(* The types, and what each thread's own variables hold *)

\* The accept loop keeps the types and what the threads have in hand.
LEMMA MainLocalsStep == LocalsInv /\ Main => LocalsInv'
<1> SUFFICES ASSUME LocalsInv, Main PROVE LocalsInv'
  OBVIOUS
<1> USE NullsAreFresh
    DEF LocalsInv, TypeOK, MainLocals, HandlerLocals, NotifierLocals,
        mvars, hvars, tvars, nvars, MainPCs, HandlerPCs, NotifierPCs
<1>1. ASSUME NEW fd \in Fds, AcceptConnection(fd) PROVE LocalsInv'
  BY <1>1 DEF AcceptConnection
<1>2. ASSUME NEW u \in Names, CheckName(u) PROVE LocalsInv'
  BY <1>2 DEF CheckName
<1>3. CASE HandshakeFails \/ SendDecline \/ SendAcceptFails
  BY <1>3 DEF HandshakeFails, SendDecline, SendAcceptFails, DropConnection
<1>4. CASE SendAccept
  BY <1>4 DEF SendAccept
<1>5. CASE InsertName
  BY <1>5 DEF InsertName
<1>6. CASE EraseReconnectedTimer
  BY <1>6 DEF EraseReconnectedTimer, FreeTimer
<1>7. CASE RegisterConnection
  BY <1>7 DEF RegisterConnection
<1>8. ASSUME NEW h \in Handlers, SpawnHandler(h) PROVE LocalsInv'
  BY <1>8 DEF SpawnHandler, AliveThreads
<1>9. QED
  BY <1>1, <1>2, <1>3, <1>4, <1>5, <1>6, <1>7, <1>8 DEF Main

\* So does a connection handler.
LEMMA HandlerLocalsStep ==
    ASSUME NEW h \in Handlers, LocalsInv, Handler(h)
    PROVE  LocalsInv'
<1> USE NullsAreFresh
    DEF LocalsInv, TypeOK, MainLocals, HandlerLocals, NotifierLocals,
        mvars, hvars, tvars, nvars, MainPCs, HandlerPCs, NotifierPCs
<1>1. CASE SendFullList(h) \/ SendFullListFails(h) \/ ReadFails(h)
  BY <1>1 DEF SendFullList, SendFullListFails, ReadFails
<1>2. ASSUME NEW t \in TimerPtrs, CreateClientTimer(h, t) PROVE LocalsInv'
  BY <1>2 DEF CreateClientTimer
<1>3. CASE CloseConnection(h)
  BY <1>3 DEF CloseConnection
<1>4. CASE FreeName(h)
  BY <1>4 DEF FreeName
<1>5. CASE Die(h)
  BY <1>5 DEF Die
<1>6. QED
  BY <1>1, <1>2, <1>3, <1>4, <1>5 DEF Handler

\* So does a notification thread.
LEMMA NotifierLocalsStep ==
    ASSUME NEW n \in Notifiers, LocalsInv, Notifier(n)
    PROVE  LocalsInv'
<1> USE NullsAreFresh
    DEF LocalsInv, TypeOK, MainLocals, HandlerLocals, NotifierLocals,
        mvars, hvars, tvars, nvars, MainPCs, HandlerPCs, NotifierPCs
<1>1. ASSUME NEW t \in TimerPtrs, Expire(n, t) PROVE LocalsInv'
  BY <1>1 DEF Expire
<1>2. CASE ReadTimerName(n)
  BY <1>2 DEF ReadTimerName
<1>3. CASE PushAdopt(n)
  BY <1>3 DEF PushAdopt
<1>4. CASE EraseExpiredTimer(n)
  BY <1>4 DEF EraseExpiredTimer, FreeTimer
<1>5. QED
  BY <1>1, <1>2, <1>3, <1>4 DEF Notifier

-----------------------------------------------------------------------------
(* Names: one session each, and in `users' while it lasts *)

\* The accept loop gives a name only to one session.
LEMMA MainNamesStep == LocalsInv /\ NamesInv /\ Main => NamesInv'
<1> SUFFICES ASSUME LocalsInv /\ NamesInv, Main PROVE NamesInv'
  OBVIOUS
<1> USE NullsAreFresh
    DEF LocalsInv, TypeOK, MainLocals, HandlerLocals, mvars, hvars, tvars, nvars,
        MainPCs, HandlerPCs, NamesInv, FreeNameStaysFree, OneSessionPerName,
        UsersAreTheSessions, HoldsName, MainHoldsName
<1>1. ASSUME NEW fd \in Fds, AcceptConnection(fd) PROVE NamesInv'
  BY <1>1 DEF AcceptConnection, OpenFds
<1>2. ASSUME NEW u \in Names, CheckName(u) PROVE NamesInv'
  BY <1>2 DEF CheckName, NameTaken
<1>3. CASE HandshakeFails \/ SendDecline \/ SendAcceptFails
  BY <1>3 DEF HandshakeFails, SendDecline, SendAcceptFails, DropConnection
<1>4. CASE SendAccept
  BY <1>4 DEF SendAccept
<1>5. CASE InsertName
  BY <1>5 DEF InsertName
<1>6. CASE EraseReconnectedTimer
  BY <1>6 DEF EraseReconnectedTimer, FreeTimer
<1>7. CASE RegisterConnection
  BY <1>7 DEF RegisterConnection
<1>8. ASSUME NEW h \in Handlers, SpawnHandler(h) PROVE NamesInv'
  BY <1>8 DEF SpawnHandler, AliveThreads
<1>9. QED
  BY <1>1, <1>2, <1>3, <1>4, <1>5, <1>6, <1>7, <1>8 DEF Main

\* A handler frees its name only when it is done with it.
LEMMA HandlerNamesStep ==
    ASSUME NEW h \in Handlers, LocalsInv /\ NamesInv, Handler(h)
    PROVE  NamesInv'
<1> USE NullsAreFresh
    DEF LocalsInv, TypeOK, MainLocals, HandlerLocals, mvars, hvars, tvars, nvars,
        MainPCs, HandlerPCs, NamesInv, FreeNameStaysFree, OneSessionPerName,
        UsersAreTheSessions, HoldsName, MainHoldsName
<1>1. CASE SendFullList(h) \/ SendFullListFails(h) \/ ReadFails(h)
  BY <1>1 DEF SendFullList, SendFullListFails, ReadFails
<1>2. ASSUME NEW t \in TimerPtrs, CreateClientTimer(h, t) PROVE NamesInv'
  BY <1>2 DEF CreateClientTimer
<1>3. CASE CloseConnection(h)
  BY <1>3 DEF CloseConnection
<1>4. CASE FreeName(h)
  BY <1>4 DEF FreeName
<1>5. CASE Die(h)
  BY <1>5 DEF Die
<1>6. QED
  BY <1>1, <1>2, <1>3, <1>4, <1>5 DEF Handler

-----------------------------------------------------------------------------
(* Connections: each handler's own, and no other *)

\* The accept loop lists each connection once.
LEMMA MainConnectionsStep == LocalsInv /\ ConnectionsInv /\ Main => ConnectionsInv'
<1> SUFFICES ASSUME LocalsInv /\ ConnectionsInv, Main PROVE ConnectionsInv'
  OBVIOUS
<1> USE NullsAreFresh
    DEF LocalsInv, TypeOK, MainLocals, HandlerLocals, mvars, hvars, tvars, nvars,
        MainPCs, HandlerPCs, ConnectionsInv, AcceptedIsNobodys,
        HandlersOwnTheirConnection, ConnectionsAreTheHandlers, HoldsConnection
<1>1. ASSUME NEW fd \in Fds, AcceptConnection(fd) PROVE ConnectionsInv'
  BY <1>1 DEF AcceptConnection, OpenFds
<1>2. ASSUME NEW u \in Names, CheckName(u) PROVE ConnectionsInv'
  BY <1>2 DEF CheckName, NameTaken
<1>3. CASE HandshakeFails \/ SendDecline \/ SendAcceptFails
  BY <1>3 DEF HandshakeFails, SendDecline, SendAcceptFails, DropConnection
<1>4. CASE SendAccept
  BY <1>4 DEF SendAccept
<1>5. CASE InsertName
  BY <1>5 DEF InsertName
<1>6. CASE EraseReconnectedTimer
  BY <1>6 DEF EraseReconnectedTimer, FreeTimer
<1>7. CASE RegisterConnection
  BY <1>7 DEF RegisterConnection
<1>8. ASSUME NEW h \in Handlers, SpawnHandler(h) PROVE ConnectionsInv'
  BY <1>8 DEF SpawnHandler, AliveThreads
<1>9. QED
  BY <1>1, <1>2, <1>3, <1>4, <1>5, <1>6, <1>7, <1>8 DEF Main

\* A handler closes no connection but its own.
LEMMA HandlerConnectionsStep ==
    ASSUME NEW h \in Handlers, LocalsInv /\ ConnectionsInv, Handler(h)
    PROVE  ConnectionsInv'
<1> USE NullsAreFresh
    DEF LocalsInv, TypeOK, MainLocals, HandlerLocals, mvars, hvars, tvars, nvars,
        MainPCs, HandlerPCs, ConnectionsInv, AcceptedIsNobodys,
        HandlersOwnTheirConnection, ConnectionsAreTheHandlers, HoldsConnection
<1>1. CASE SendFullList(h) \/ SendFullListFails(h) \/ ReadFails(h)
  BY <1>1 DEF SendFullList, SendFullListFails, ReadFails
<1>2. ASSUME NEW t \in TimerPtrs, CreateClientTimer(h, t) PROVE ConnectionsInv'
  BY <1>2 DEF CreateClientTimer
<1>3. CASE CloseConnection(h)
  BY <1>3 DEF CloseConnection
<1>4. CASE FreeName(h)
  BY <1>4 DEF FreeName
<1>5. CASE Die(h)
  BY <1>5 DEF Die
<1>6. QED
  BY <1>1, <1>2, <1>3, <1>4, <1>5 DEF Handler

-----------------------------------------------------------------------------
(* Timers: one for each name, none from the reconnection on *)

\* The accept loop cancels only the timer of the name that is back.
LEMMA MainTimersStep == LocalsInv /\ NamesInv /\ TimersInv /\ Main => TimersInv'
<1> SUFFICES ASSUME LocalsInv /\ NamesInv /\ TimersInv, Main PROVE TimersInv'
  OBVIOUS
<1> USE NullsAreFresh
    DEF LocalsInv, TypeOK, MainLocals, HandlerLocals, mvars, hvars, tvars, nvars,
        MainPCs, HandlerPCs, TimersInv, ListedIsAllocated, OneTimerPerName,
        NamesInv, OneSessionPerName, HoldsName, MainHoldsName
<1>1. ASSUME NEW fd \in Fds, AcceptConnection(fd) PROVE TimersInv'
  BY <1>1 DEF AcceptConnection, OpenFds
<1>2. ASSUME NEW u \in Names, CheckName(u) PROVE TimersInv'
  BY <1>2 DEF CheckName, NameTaken
<1>3. CASE HandshakeFails \/ SendDecline \/ SendAcceptFails
  BY <1>3 DEF HandshakeFails, SendDecline, SendAcceptFails, DropConnection
<1>4. CASE SendAccept
  BY <1>4 DEF SendAccept
<1>5. CASE InsertName
  BY <1>5 DEF InsertName
<1>6. CASE EraseReconnectedTimer
  BY <1>6 DEF EraseReconnectedTimer, FreeTimer
<1>7. CASE RegisterConnection
  BY <1>7 DEF RegisterConnection
<1>8. ASSUME NEW h \in Handlers, SpawnHandler(h) PROVE TimersInv'
  BY <1>8 DEF SpawnHandler, AliveThreads
<1>9. QED
  BY <1>1, <1>2, <1>3, <1>4, <1>5, <1>6, <1>7, <1>8 DEF Main

\* A handler starts a timer only for its own name.
LEMMA HandlerTimersStep ==
    ASSUME NEW h \in Handlers, LocalsInv /\ NamesInv /\ TimersInv, Handler(h)
    PROVE  TimersInv'
<1> USE NullsAreFresh
    DEF LocalsInv, TypeOK, MainLocals, HandlerLocals, mvars, hvars, tvars, nvars,
        MainPCs, HandlerPCs, TimersInv, ListedIsAllocated, OneTimerPerName,
        NamesInv, OneSessionPerName, HoldsName, MainHoldsName
<1>1. CASE SendFullList(h) \/ SendFullListFails(h) \/ ReadFails(h)
  BY <1>1 DEF SendFullList, SendFullListFails, ReadFails
<1>2. ASSUME NEW t \in TimerPtrs, CreateClientTimer(h, t) PROVE TimersInv'
  BY <1>2 DEF CreateClientTimer
<1>3. CASE CloseConnection(h)
  BY <1>3 DEF CloseConnection
<1>4. CASE FreeName(h)
  BY <1>4 DEF FreeName
<1>5. CASE Die(h)
  BY <1>5 DEF Die
<1>6. QED
  BY <1>1, <1>2, <1>3, <1>4, <1>5 DEF Handler

\* A notification thread erases only the timer that expired.
LEMMA NotifierTimersStep ==
    ASSUME NEW n \in Notifiers, LocalsInv /\ TimersInv, Notifier(n)
    PROVE  TimersInv'
<1> USE NullsAreFresh
    DEF LocalsInv, TypeOK, NotifierLocals, HandlerLocals, mvars, hvars, tvars,
        nvars, TimersInv, ListedIsAllocated, OneTimerPerName
<1>1. ASSUME NEW t \in TimerPtrs, Expire(n, t) PROVE TimersInv'
  BY <1>1 DEF Expire
<1>2. CASE ReadTimerName(n)
  BY <1>2 DEF ReadTimerName
<1>3. CASE PushAdopt(n)
  BY <1>3 DEF PushAdopt
<1>4. CASE EraseExpiredTimer(n)
  BY <1>4 DEF EraseExpiredTimer, FreeTimer
<1>5. QED
  BY <1>1, <1>2, <1>3, <1>4 DEF Notifier

-----------------------------------------------------------------------------
(* Threads: a step of a notification thread concerns no session, and only   *)
(* the spawning of a handler changes the list of threads                    *)

\* A notification thread touches no session.
LEMMA NotifierLeavesSessions ==
    ASSUME NEW n \in Notifiers, Notifier(n)
    PROVE  UNCHANGED <<mvars, users, connections, threads, hvars>>
BY DEF Notifier, Expire, ReadTimerName, PushAdopt, EraseExpiredTimer

\* A handler that runs stays on the list of threads.
LEMMA ThreadsStep == LocalsInv /\ RunningHandlersAreListed /\ Next
                        => RunningHandlersAreListed'
<1> SUFFICES ASSUME LocalsInv, RunningHandlersAreListed, Next
             PROVE  RunningHandlersAreListed'
  OBVIOUS
<1> USE DEF LocalsInv, TypeOK, RunningHandlersAreListed, mvars, hvars
<1>1. ASSUME NEW h \in Handlers, SpawnHandler(h) PROVE RunningHandlersAreListed'
  BY <1>1 DEF SpawnHandler, AliveThreads
<1>2. CASE Main /\ ~ \E h \in Handlers : SpawnHandler(h)
  BY <1>2
     DEF Main, AcceptConnection, CheckName, HandshakeFails, SendDecline,
         SendAccept, SendAcceptFails, DropConnection, InsertName,
         EraseReconnectedTimer, RegisterConnection
<1>3. ASSUME NEW h \in Handlers, Handler(h) PROVE RunningHandlersAreListed'
  BY <1>3
     DEF Handler, SendFullList, SendFullListFails, ReadFails,
         CreateClientTimer, CloseConnection, FreeName, Die
<1>4. ASSUME NEW n \in Notifiers, Notifier(n) PROVE RunningHandlersAreListed'
  BY <1>4, NotifierLeavesSessions
<1>5. QED
  BY <1>1, <1>2, <1>3, <1>4 DEF Next

-----------------------------------------------------------------------------
(* The invariant, and the theorems that follow from it *)

\* Every step keeps the invariant.
LEMMA Inductive == IInv /\ [Next]_vars => IInv'
<1> SUFFICES ASSUME IInv, [Next]_vars PROVE IInv'
  OBVIOUS
<1>1. CASE Main
  <2>1. RunningHandlersAreListed'
    BY <1>1, ThreadsStep DEF IInv, Next
  <2>2. QED
    BY <1>1, <2>1, MainLocalsStep, MainNamesStep, MainConnectionsStep,
       MainTimersStep DEF IInv
<1>2. ASSUME NEW h \in Handlers, Handler(h) PROVE IInv'
  <2>1. RunningHandlersAreListed'
    BY <1>2, ThreadsStep DEF IInv, Next
  <2>2. QED
    BY <1>2, <2>1, HandlerLocalsStep, HandlerNamesStep, HandlerConnectionsStep,
       HandlerTimersStep DEF IInv
<1>3. ASSUME NEW n \in Notifiers, Notifier(n) PROVE IInv'
  <2>1. RunningHandlersAreListed'
    BY <1>3, ThreadsStep DEF IInv, Next
  <2>2. NamesInv' /\ ConnectionsInv'
    BY <1>3, NotifierLeavesSessions
       DEF IInv, mvars, hvars, NamesInv, FreeNameStaysFree, OneSessionPerName,
           UsersAreTheSessions, HoldsName, MainHoldsName, ConnectionsInv,
           AcceptedIsNobodys, HandlersOwnTheirConnection,
           ConnectionsAreTheHandlers, HoldsConnection
  <2>3. QED
    BY <1>3, <2>1, <2>2, NotifierLocalsStep, NotifierTimersStep DEF IInv
<1>4. CASE UNCHANGED vars
  BY <1>4
     DEF IInv, vars, mvars, hvars, tvars, nvars, LocalsInv, TypeOK, MainLocals,
         HandlerLocals, NotifierLocals, NamesInv, FreeNameStaysFree,
         OneSessionPerName, UsersAreTheSessions, HoldsName, MainHoldsName,
         ConnectionsInv, AcceptedIsNobodys, HandlersOwnTheirConnection,
         ConnectionsAreTheHandlers, HoldsConnection, TimersInv,
         ListedIsAllocated, OneTimerPerName, RunningHandlersAreListed
<1>5. QED
  BY <1>1, <1>2, <1>3, <1>4 DEF Next

\* The invariant holds throughout.
LEMMA InvariantHolds == Spec => []IInv
<1>1. QED
  BY InitIInv, Inductive, PTL DEF Spec

\* The shared sets, and what each thread holds, keep their types.
THEOREM TypeCorrect == Spec => []TypeOK
<1>1. IInv => TypeOK
  BY DEF IInv, LocalsInv
<1>2. QED
  BY InvariantHolds, <1>1, PTL

\* The server supports one session for each name (main.tex:917), although it
\* looks a name up and inserts it in two critical sections.
THEOREM OneSession == Spec => []OneSessionPerName
<1>1. IInv => OneSessionPerName
  BY DEF IInv, NamesInv
<1>2. QED
  BY InvariantHolds, <1>1, PTL

\* A name is refused exactly while a session holds it.
THEOREM UsersExact == Spec => []UsersAreTheSessions
<1>1. IInv => UsersAreTheSessions
  BY DEF IInv, NamesInv
<1>2. QED
  BY InvariantHolds, <1>1, PTL

\* A handler's descriptor is open, registered and its own until it erases it.
THEOREM OwnConnection == Spec => []HandlersOwnTheirConnection
<1>1. IInv => HandlersOwnTheirConnection
  BY DEF IInv, ConnectionsInv
<1>2. QED
  BY InvariantHolds, <1>1, PTL

\* The updater writes to no connection whose handler is done with it.
THEOREM ConnectionsExact == Spec => []ConnectionsAreTheHandlers
<1>1. IInv => ConnectionsAreTheHandlers
  BY DEF IInv, ConnectionsInv
<1>2. QED
  BY InvariantHolds, <1>1, PTL

\* A name has one timer at most, and none while its session is being served.
THEOREM OneTimer == Spec => []OneTimerPerName
<1>1. IInv => OneTimerPerName
  BY DEF IInv, TimersInv
<1>2. QED
  BY InvariantHolds, <1>1, PTL

\* Every running handler is in the list that shutdown cancels and joins.
THEOREM RunningListed == Spec => []RunningHandlersAreListed
<1>1. IInv => RunningHandlersAreListed
  BY DEF IInv
<1>2. QED
  BY InvariantHolds, <1>1, PTL

-----------------------------------------------------------------------------
(* Departed users, as long as lists are sent and stale addresses rest: whose *)
(* timer a notification thread is about, and who waits for which timer       *)

\* An address is one notification thread's from the expiry on, and nobody else
\* has a timer there until that thread is done.
OneNotifierPerTimer ==
    /\ \A m, n \in Notifiers :
          npc[m] # "idle" /\ npc[n] # "idle" /\ nptr[m] = nptr[n] => m = n
    /\ \A n \in Notifiers : npc[n] # "idle" => nptr[n] \notin armed

\* The name that a notification thread read is that of the TimerData, while it
\* is in place.
NamedIsRead ==
    \A n \in Notifiers :
        npc[n] = "named" /\ nptr[n] \in timers => nname[n] = tname[nptr[n]]

\* A timer or a notification thread is going to push an Adopt for u.
Awaited(u) ==
    \/ \E t \in timers : tname[t] = u /\ t \in armed
    \/ \E n \in Notifiers :
          \/ npc[n] = "fired" /\ tname[nptr[n]] = u
          \/ npc[n] = "named" /\ nname[n] = u

\* The user is awaited before his name is free.
LeavingIsAwaited ==
    \A h \in Handlers :
        hpc[h] \in {"closing", "leaving"} /\ hname[h] = User /\ OwnsDraws => Awaited(User)

ServedInv ==
    /\ IInv /\ OneNotifierPerTimer /\ NamedIsRead
    /\ QueueTypeOK /\ LeavingIsAwaited /\ DepartedAwaitAdoption

ServedStep == AdoptionNext /\ ListsAreSent /\ StaleAddressesRest /\ AdoptIsPrompt

\* No notification thread has the address where a TimerData is newly put.
LEMMA NewTimerIsUnknown ==
    ASSUME IInv, StaleAddressesRest, NEW h \in Handlers, NEW t \in TimerPtrs,
           CreateClientTimer(h, t)
    PROVE  \A n \in Notifiers : nptr[n] # t
<1>1. tname[t] = NoName /\ tname'[t] = hname[h] /\ hname[h] \in Names
  BY DEF IInv, LocalsInv, TypeOK, HandlerLocals, CreateClientTimer
<1>2. QED
  BY <1>1, NullsAreFresh DEF StaleAddressesRest

\* Each address stays with one notification thread.
LEMMA OneNotifierStep ==
    ASSUME ServedInv, Next, StaleAddressesRest
    PROVE  OneNotifierPerTimer'
<1> USE DEF ServedInv, OneNotifierPerTimer, IInv, LocalsInv, TypeOK, mvars, hvars, tvars, nvars
<1>1. CASE Main
  BY <1>1
     DEF Main, AcceptConnection, CheckName, HandshakeFails, SendDecline,
         SendAccept, SendAcceptFails, DropConnection, InsertName, FreeTimer,
         EraseReconnectedTimer, RegisterConnection, SpawnHandler
<1>2. ASSUME NEW h \in Handlers, NEW t \in TimerPtrs, CreateClientTimer(h, t)
      PROVE  OneNotifierPerTimer'
  BY <1>2, NewTimerIsUnknown DEF CreateClientTimer
<1>3. ASSUME NEW h \in Handlers, Handler(h), ~ \E t \in TimerPtrs : CreateClientTimer(h, t)
      PROVE  OneNotifierPerTimer'
  BY <1>3 DEF Handler, SendFullList, SendFullListFails, ReadFails,
              CloseConnection, FreeName, Die
<1>4. ASSUME NEW n \in Notifiers, NEW t \in TimerPtrs, Expire(n, t)
      PROVE  OneNotifierPerTimer'
  BY <1>4 DEF Expire
<1>5. ASSUME NEW n \in Notifiers, ReadTimerName(n) \/ PushAdopt(n)
      PROVE  OneNotifierPerTimer'
  BY <1>5 DEF ReadTimerName, PushAdopt
<1>6. ASSUME NEW n \in Notifiers, EraseExpiredTimer(n)
      PROVE  OneNotifierPerTimer'
  BY <1>6 DEF EraseExpiredTimer, FreeTimer
<1>7. QED
  BY <1>1, <1>2, <1>3, <1>4, <1>5, <1>6 DEF Next, Notifier, Handler

\* What was read stays true of the TimerData while it is in place.
LEMMA NamedStep ==
    ASSUME ServedInv, Next, StaleAddressesRest
    PROVE  NamedIsRead'
<1> USE DEF ServedInv, NamedIsRead, IInv, LocalsInv, TypeOK, NotifierLocals,
            mvars, hvars, tvars, nvars
<1>1. CASE Main
  BY <1>1
     DEF Main, AcceptConnection, CheckName, HandshakeFails, SendDecline,
         SendAccept, SendAcceptFails, DropConnection, InsertName, FreeTimer,
         EraseReconnectedTimer, RegisterConnection, SpawnHandler
<1>2. ASSUME NEW h \in Handlers, NEW t \in TimerPtrs, CreateClientTimer(h, t)
      PROVE  NamedIsRead'
  BY <1>2, NewTimerIsUnknown DEF CreateClientTimer
<1>3. ASSUME NEW h \in Handlers, Handler(h), ~ \E t \in TimerPtrs : CreateClientTimer(h, t)
      PROVE  NamedIsRead'
  BY <1>3 DEF Handler, SendFullList, SendFullListFails, ReadFails,
              CloseConnection, FreeName, Die
<1>4. ASSUME NEW n \in Notifiers, NEW t \in TimerPtrs, Expire(n, t)
      PROVE  NamedIsRead'
  BY <1>4 DEF Expire
<1>5. ASSUME NEW n \in Notifiers, ReadTimerName(n)
      PROVE  NamedIsRead'
  BY <1>5 DEF ReadTimerName, TimersInv, ListedIsAllocated
<1>6. ASSUME NEW n \in Notifiers, PushAdopt(n)
      PROVE  NamedIsRead'
  BY <1>6 DEF PushAdopt
<1>7. ASSUME NEW n \in Notifiers, EraseExpiredTimer(n)
      PROVE  NamedIsRead'
  BY <1>7 DEF EraseExpiredTimer, FreeTimer
<1>8. QED
  BY <1>1, <1>2, <1>3, <1>4, <1>5, <1>6, <1>7 DEF Next, Notifier, Handler

\* Who is awaited stays awaited until his draws are adopted or he is back.
LEMMA AwaitedStep ==
    ASSUME ServedInv, Next, StaleAddressesRest, NEW u \in Names, Awaited(u)
    PROVE  \/ Awaited(u)'
           \/ mpc = "reconnect" /\ mname = u
           \/ \E n \in Notifiers : PushAdopt(n) /\ nname[n] = u
<1> USE NullsAreFresh
    DEF ServedInv, Awaited, IInv, LocalsInv, TypeOK, NotifierLocals,
        mvars, hvars, tvars, nvars
<1>1. CASE Main
  <2>1. CASE EraseReconnectedTimer
    BY <2>1 DEF EraseReconnectedTimer, FreeTimer
  <2>2. CASE ~EraseReconnectedTimer
    BY <1>1, <2>2
       DEF Main, AcceptConnection, CheckName, HandshakeFails, SendDecline,
           SendAccept, SendAcceptFails, DropConnection, InsertName,
           RegisterConnection, SpawnHandler
  <2>3. QED
    BY <2>1, <2>2
<1>2. ASSUME NEW h \in Handlers, NEW t \in TimerPtrs, CreateClientTimer(h, t)
      PROVE  Awaited(u)'
  BY <1>2, NewTimerIsUnknown DEF CreateClientTimer
<1>3. ASSUME NEW h \in Handlers, Handler(h), ~ \E t \in TimerPtrs : CreateClientTimer(h, t)
      PROVE  Awaited(u)'
  BY <1>3 DEF Handler, SendFullList, SendFullListFails, ReadFails,
              CloseConnection, FreeName, Die
<1>4. ASSUME NEW n \in Notifiers, NEW t \in TimerPtrs, Expire(n, t)
      PROVE  Awaited(u)'
  BY <1>4 DEF Expire
<1>5. ASSUME NEW n \in Notifiers, ReadTimerName(n)
      PROVE  Awaited(u)'
  BY <1>5 DEF ReadTimerName
<1>6. ASSUME NEW n \in Notifiers, PushAdopt(n)
      PROVE  Awaited(u)' \/ nname[n] = u
  BY <1>6 DEF PushAdopt
<1>7. ASSUME NEW n \in Notifiers, EraseExpiredTimer(n)
      PROVE  Awaited(u)'
  <2>1. \A m \in Notifiers : m # n /\ npc[m] # "idle" => nptr[m] # nptr[n]
    BY <1>7 DEF EraseExpiredTimer, OneNotifierPerTimer
  <2>2. nptr[n] \notin armed
    BY <1>7 DEF EraseExpiredTimer, OneNotifierPerTimer
  <2>3. QED
    BY <1>7, <2>1, <2>2 DEF EraseExpiredTimer, FreeTimer
<1>8. QED
  BY <1>1, <1>2, <1>3, <1>4, <1>5, <1>6, <1>7 DEF Next, Notifier, Handler

\* A step of the server is one of its sessions, or touches the queue and the drawing only.
LEMMA StepOfSessions == AdoptionNext => Next \/ UNCHANGED vars
BY DEF AdoptionNext, SessionStep, PushAction, PushAdoptOfName, TakePayload, Next, Notifier

\* The user owns draws after a step only if he did before, or is being served; and
\* the step pushes no Adopt for him.
LEMMA OwnedBefore ==
    ASSUME QueueTypeOK, LocalsInv, ServedStep, OwnsDraws'
    PROVE  /\ \/ OwnsDraws
              \/ /\ UNCHANGED vars
                 /\ \E h \in Handlers : hpc[h] = "reading" /\ hname[h] = User
           /\ ~ \E n \in Notifiers : PushAdopt(n) /\ nname[n] = User
<1> USE DEF QueueTypeOK, OwnsDraws, ServedStep, AdoptIsPrompt
<1>1. CASE SessionStep
  <2>1. OwnsDraws
    BY <1>1 DEF SessionStep, qvars
  <2>2. ASSUME NEW n \in Notifiers, npc[n] = "named" PROVE npc'[n] = "named"
    BY <1>1, <2>2
       DEF SessionStep, LocalsInv, TypeOK, Main, AcceptConnection, CheckName, HandshakeFails,
           SendDecline, SendAccept, SendAcceptFails, DropConnection, InsertName,
           EraseReconnectedTimer, RegisterConnection, SpawnHandler, Handler, SendFullList,
           SendFullListFails, ReadFails, CreateClientTimer, CloseConnection, FreeName, Die,
           Expire, ReadTimerName, EraseExpiredTimer, nvars
  <2>3. ~ \E n \in Notifiers : PushAdopt(n)
    BY <2>2 DEF PushAdopt, LocalsInv, TypeOK
  <2>4. QED
    BY <2>1, <2>3
<1>2. CASE \E h \in Handlers : PushAction(h)
  BY <1>2 DEF PushAction, TakePayload, vars, nvars, PushAdopt, LocalsInv, TypeOK
<1>3. ASSUME NEW n \in Notifiers, PushAdoptOfName(n)
      PROVE  OwnsDraws /\ ~ \E m \in Notifiers : PushAdopt(m) /\ nname[m] = User
  <2>1. npc[n] = "named" /\ npc'[n] = "pushed"
    BY <1>3 DEF PushAdoptOfName, PushAdopt, LocalsInv, TypeOK
  <2>2. ~TakePayload
    BY <2>1 DEF TakePayload, vars, nvars
  <2>3. nname[n] # User
    BY <1>3 DEF PushAdoptOfName
  <2>4. \A m \in Notifiers : PushAdopt(m) => m = n
    BY <1>3, <2>1 DEF PushAdoptOfName, PushAdopt, LocalsInv, TypeOK
  <2>5. OwnsDraws
    BY <1>3, <2>2, <2>3 DEF PushAdoptOfName
  <2>6. QED
    BY <2>3, <2>4, <2>5
<1>4. CASE TakePayload
  BY <1>4 DEF TakePayload, vars, nvars, PushAdopt, LocalsInv, TypeOK
<1>5. QED
  BY <1>1, <1>2, <1>3, <1>4 DEF AdoptionNext

\* The user, when he leaves, is awaited from the creation of his timer on.
LEMMA LeavingStep ==
    ASSUME ServedInv, ServedStep
    PROVE  LeavingIsAwaited'
<1> SUFFICES ASSUME NEW h \in Handlers, hpc'[h] \in {"closing", "leaving"},
                    hname'[h] = User, OwnsDraws'
             PROVE  Awaited(User)'
  BY DEF LeavingIsAwaited
<1> USE DEF ServedInv, IInv, LocalsInv, TypeOK
<1>1. CASE \E t \in TimerPtrs : CreateClientTimer(h, t)
  BY <1>1 DEF CreateClientTimer, Awaited
<1>2. CASE ~ \E t \in TimerPtrs : CreateClientTimer(h, t)
  <2>1. hpc[h] \in {"closing", "leaving"} /\ hname[h] = User
    <3> USE DEF HandlerLocals, mvars, hvars, tvars, nvars
    <3>1. CASE Main
      BY <3>1
         DEF Main, AcceptConnection, CheckName, HandshakeFails, SendDecline,
             SendAccept, SendAcceptFails, DropConnection, InsertName,
             EraseReconnectedTimer, RegisterConnection, SpawnHandler
    <3>2. ASSUME NEW g \in Handlers, Handler(g)
          PROVE  hpc[h] \in {"closing", "leaving"} /\ hname[h] = User
      BY <1>2, <3>2 DEF ServedStep, ListsAreSent, Handler, SendFullList, SendFullListFails,
                  ReadFails, CreateClientTimer, CloseConnection, FreeName, Die
    <3>3. ASSUME NEW n \in Notifiers, Notifier(n)
          PROVE  hpc[h] \in {"closing", "leaving"} /\ hname[h] = User
      BY <3>3 DEF Notifier, Expire, ReadTimerName, PushAdopt, EraseExpiredTimer
    <3>4. CASE UNCHANGED vars
      BY <3>4 DEF vars
    <3>5. QED
      BY <3>1, <3>2, <3>3, <3>4, StepOfSessions DEF ServedStep, Next
  <2>2. OwnsDraws /\ ~ \E n \in Notifiers : PushAdopt(n) /\ nname[n] = User
    BY <2>1, OwnedBefore DEF NamesInv, OneSessionPerName, HoldsName
  <2>3. Awaited(User)
    BY <2>1, <2>2 DEF LeavingIsAwaited
  <2>4. ~ (mpc = "reconnect" /\ mname = User)
    BY <2>1 DEF NamesInv, OneSessionPerName, HoldsName, MainHoldsName
  <2>5. CASE Next
    BY <2>2, <2>3, <2>4, <2>5, AwaitedStep, UserHasAName DEF ServedStep
  <2>6. CASE UNCHANGED vars
    BY <2>3, <2>6 DEF Awaited, vars, tvars, nvars
  <2>7. QED
    BY <2>5, <2>6, StepOfSessions DEF ServedStep
<1>3. QED
  BY <1>1, <1>2

\* Once he is gone he is no longer awaited only if he owns no draws.
LEMMA DepartedStep ==
    ASSUME ServedInv, ServedStep
    PROVE  DepartedAwaitAdoption'
<1> SUFFICES ASSUME OwnsDraws', User \notin users'
             PROVE  Awaited(User)'
  BY DEF DepartedAwaitAdoption, Awaited
<1> USE UserHasAName
    DEF ServedInv, IInv, LocalsInv, TypeOK, HandlerLocals, mvars, hvars, tvars, nvars
<1>1. OwnsDraws /\ ~ \E n \in Notifiers : PushAdopt(n) /\ nname[n] = User
  BY OwnedBefore DEF NamesInv, UsersAreTheSessions, HoldsName, vars
<1>2. Awaited(User)
  <2>1. CASE User \notin users
    BY <1>1, <2>1 DEF DepartedAwaitAdoption, Awaited
  <2>2. CASE User \in users
    <3>1. \E h \in Handlers : FreeName(h) /\ hname[h] = User
      BY <2>2, StepOfSessions
         DEF ServedStep, Next, Main, AcceptConnection, CheckName, HandshakeFails,
             SendDecline, SendAccept, SendAcceptFails, DropConnection, InsertName,
             EraseReconnectedTimer, RegisterConnection, SpawnHandler,
             Handler, SendFullList, SendFullListFails, ReadFails,
             CreateClientTimer, CloseConnection, FreeName, Die,
             Notifier, Expire, ReadTimerName, PushAdopt, EraseExpiredTimer, vars
    <3>2. QED
      BY <1>1, <3>1 DEF FreeName, LeavingIsAwaited
  <2>3. QED
    BY <2>1, <2>2
<1>3. CASE UNCHANGED vars
  BY <1>2, <1>3 DEF Awaited, vars
<1>4. CASE Next
  <2>1. ~ (mpc = "reconnect" /\ mname = User)
    <3>1. ASSUME mpc = "reconnect", mname = User PROVE User \in users
      BY <3>1 DEF NamesInv, UsersAreTheSessions, MainHoldsName
    <3>2. ASSUME mpc = "reconnect", mname = User, NEW h \in Handlers, FreeName(h)
          PROVE  hname[h] # User
      BY <3>2 DEF FreeName, NamesInv, OneSessionPerName, HoldsName, MainHoldsName
    <3>3. QED
      BY <1>4, <3>1, <3>2
         DEF Next, Main, AcceptConnection, CheckName, HandshakeFails,
             SendDecline, SendAccept, SendAcceptFails, DropConnection, InsertName,
             EraseReconnectedTimer, RegisterConnection, SpawnHandler,
             Handler, SendFullList, SendFullListFails, ReadFails,
             CreateClientTimer, CloseConnection, FreeName, Die,
             Notifier, Expire, ReadTimerName, PushAdopt, EraseExpiredTimer
  <2>2. QED
    BY <1>1, <1>2, <1>4, <2>1, AwaitedStep DEF ServedStep
<1>5. QED
  BY <1>3, <1>4, StepOfSessions DEF ServedStep

\* Nobody has come or gone at the start.
LEMMA InitServedInv == AdoptionInit => ServedInv
<1>1. AdoptionInit => /\ OneNotifierPerTimer /\ NamedIsRead
                      /\ QueueTypeOK /\ LeavingIsAwaited /\ DepartedAwaitAdoption
  BY DEF AdoptionInit, Init, OneNotifierPerTimer, NamedIsRead, QueueTypeOK,
         LeavingIsAwaited, DepartedAwaitAdoption, OwnsDraws
<1>2. QED
  BY <1>1, InitIInv DEF ServedInv, AdoptionInit

\* While every user who leaves is served, each step keeps the invariant.
LEMMA ServedInductive == ServedInv /\ [ServedStep]_<<vars, qvars>> => ServedInv'
<1> SUFFICES ASSUME ServedInv, [ServedStep]_<<vars, qvars>> PROVE ServedInv'
  OBVIOUS
<1>1. IInv'
  <2>1. [Next]_vars
    BY StepOfSessions DEF ServedStep
  <2>2. QED
    BY <2>1, Inductive DEF ServedInv
<1>2. CASE ServedStep
  <2>1. QueueTypeOK'
    BY <1>2 DEF ServedInv, QueueTypeOK, ServedStep, AdoptionNext, SessionStep, PushAction,
                PushAdoptOfName, TakePayload, qvars
  <2>2. CASE Next
    BY <1>1, <1>2, <2>1, <2>2, OneNotifierStep, NamedStep, LeavingStep, DepartedStep
       DEF ServedInv, ServedStep
  <2>3. CASE UNCHANGED vars
    <3>1. OneNotifierPerTimer' /\ NamedIsRead'
      BY <2>3 DEF ServedInv, vars, tvars, nvars, OneNotifierPerTimer, NamedIsRead
    <3>2. QED
      BY <1>1, <1>2, <2>1, <3>1, LeavingStep, DepartedStep DEF ServedInv
  <2>4. QED
    BY <1>2, <2>2, <2>3, StepOfSessions DEF ServedStep
<1>3. CASE UNCHANGED <<vars, qvars>>
  BY <1>1, <1>3
     DEF ServedInv, vars, mvars, hvars, tvars, nvars, qvars, OneNotifierPerTimer,
         NamedIsRead, QueueTypeOK, LeavingIsAwaited, Awaited, DepartedAwaitAdoption, OwnsDraws
<1>4. QED
  BY <1>2, <1>3

\* The invariant holds as long as lists are sent, stale addresses rest and an Adopt
\* is taken before the next payload is pushed.
LEMMA ServedInvariantHolds == ServedSpec => []ServedInv
<1>1. ServedSpec => AdoptionInit /\ [][ServedStep]_<<vars, qvars>>
  BY DEF ServedSpec, ServedStep
<1>2. QED
  BY <1>1, InitServedInv, ServedInductive, PTL

\* A user who is gone and owns draws is awaited by a timer that is set, or by a
\* notification thread that is about to adopt them, whoever the user is: no order in
\* which sessions end, timers expire, users come back and payloads are taken loses an
\* adoption, unless an Adopt is overtaken in the queue.
THEOREM DepartedAwaited == ServedSpec => []DepartedAwaitAdoption
<1>1. ServedInv => DepartedAwaitAdoption
  BY DEF ServedInv
<1>2. QED
  BY <1>1, ServedInvariantHolds, PTL

\* While the TimerData it was given is in place, a notification thread adopts
\* the draws of nobody who is being served.
THEOREM AwaitedAway == ServedSpec => []AwaitedUsersAreAway
<1>1. ServedInv => AwaitedUsersAreAway
  BY DEF ServedInv, NamedIsRead, AwaitedUsersAreAway, IInv, TimersInv, OneTimerPerName
<1>2. QED
  BY <1>1, ServedInvariantHolds, PTL
=============================================================================
