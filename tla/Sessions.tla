------------------------------ MODULE Sessions ------------------------------
(***************************************************************************)
(* The sessions of the NetSketch server: the accept loop of the main       *)
(* thread (src/src/server/server.cpp), one connection handler thread per   *)
(* accepted client (conn_handler.cpp), and the POSIX timers that adopt the *)
(* draws of a user who left (timing.cpp).  They share the sets `users',    *)
(* `connections', `threads' and `timers' (share.hpp), each behind its own  *)
(* mutex.  A critical section of one of those mutexes is one step; every   *)
(* step between two critical sections may interleave with other threads.   *)
(*                                                                         *)
(* Of the payloads that are pushed only this is here: that a notification  *)
(* thread pushes an Adopt.  What becomes of it is in module Adoption, what *)
(* becomes of the others in Replication.  SIGINT is in module Shutdown.    *)
(***************************************************************************)
CONSTANTS
    Names,      \* user names
    Fds,        \* file descriptors the kernel hands out (and hands out again)
    Handlers,   \* identities of handler threads; a dead thread's is used again
    TimerPtrs,  \* addresses of TimerData objects; a freed one is used again
    Notifiers,  \* identities of SIGEV_THREAD notification threads
    NoName, NoFd, NoPtr

ASSUME NullsAreFresh ==
    NoName \notin Names /\ NoFd \notin Fds /\ NoPtr \notin TimerPtrs

VARIABLES
    mpc, mname, mfd,      \* main thread: where it is, `username', `conn_sock'
    users, connections, threads, timers,   \* share::
    hpc, hname, hfd,      \* each handler: where it is, m_username, m_sock
    tname,                \* the username in the TimerData at an address
    armed,                \* addresses whose kernel timer is set
    npc, nptr, nname      \* each notification thread: `timer', `username'

mvars == <<mpc, mname, mfd>>
hvars == <<hpc, hname, hfd>>
tvars == <<timers, tname, armed>>
nvars == <<npc, nptr, nname>>
vars  == <<mvars, users, connections, threads, hvars, tvars, nvars>>

MainPCs == {"poll", "handshake", "decline", "accept",
            "insert", "reconnect", "register", "spawn"}

\* A handler is `sending' until send_full_list returns, `reading' in its loop,
\* `timing' at create_client_timer, then in its cleanup: `closing' before
\* connections.erase, `leaving' before users.erase, `exiting' before die().
HandlerPCs == {"dead", "sending", "reading", "timing",
               "closing", "leaving", "exiting"}

NotifierPCs == {"idle", "fired", "named", "pushed"}

\* The main thread has a descriptor of its own exactly while it serves a client.
TypeOK ==
    /\ mpc = "poll" <=> mfd = NoFd
    /\ mpc \in MainPCs /\ mname \in Names \cup {NoName} /\ mfd \in Fds \cup {NoFd}
    /\ users \subseteq Names /\ connections \subseteq Fds
    /\ threads \subseteq Handlers /\ timers \subseteq TimerPtrs
    /\ hpc \in [Handlers -> HandlerPCs]
    /\ hname \in [Handlers -> Names \cup {NoName}]
    /\ hfd \in [Handlers -> Fds \cup {NoFd}]
    /\ tname \in [TimerPtrs -> Names \cup {NoName}]
    /\ armed \subseteq TimerPtrs
    /\ npc \in [Notifiers -> NotifierPCs]
    /\ nptr \in [Notifiers -> TimerPtrs \cup {NoPtr}]
    /\ nname \in [Notifiers -> Names \cup {NoName}]

Init ==
    /\ mpc = "poll" /\ mname = NoName /\ mfd = NoFd
    /\ users = {} /\ connections = {} /\ threads = {} /\ timers = {}
    /\ hpc = [h \in Handlers |-> "dead"]
    /\ hname = [h \in Handlers |-> NoName]
    /\ hfd = [h \in Handlers |-> NoFd]
    /\ tname = [t \in TimerPtrs |-> NoName]
    /\ armed = {}
    /\ npc = [n \in Notifiers |-> "idle"]
    /\ nptr = [n \in Notifiers |-> NoPtr]
    /\ nname = [n \in Notifiers |-> NoName]

-----------------------------------------------------------------------------
(* The main thread *)

OpenFds == connections \cup ({mfd} \ {NoFd})

\* accept() returns a descriptor nobody has open.
AcceptConnection(fd) ==
    /\ mpc = "poll"
    /\ fd \notin OpenFds
    /\ mpc' = "handshake" /\ mfd' = fd
    /\ UNCHANGED <<mname, users, connections, threads, hvars, tvars, nvars>>

\* Mutant: a client that is dropped is not closed.
DropConnection_Leaks ==
    /\ mpc' = "poll" /\ mname' = NoName
    /\ UNCHANGED <<mfd, users, connections, threads, hvars, tvars, nvars>>

\* `continue' in the accept loop: conn_sock's destructor closes the descriptor.
DropConnection ==
    /\ mpc' = "poll" /\ mname' = NoName /\ mfd' = NoFd
    /\ UNCHANGED <<users, connections, threads, hvars, tvars, nvars>>

\* The name does not arrive within a minute, or something else arrives.
HandshakeFails == mpc = "handshake" /\ DropConnection

\* Mutant: the lookup is forgotten.
NameTaken_NotLookedUp(u) == FALSE

NameTaken(u) == u \in users

\* is_valid_username reads the name and looks it up under users_mutex.
CheckName(u) ==
    /\ mpc = "handshake"
    /\ mname' = u
    /\ mpc' = IF NameTaken(u) THEN "decline" ELSE "accept"
    /\ UNCHANGED <<mfd, users, connections, threads, hvars, tvars, nvars>>

\* Decline is written, or its write fails: either way the socket is closed.
SendDecline == mpc = "decline" /\ DropConnection

SendAccept ==
    /\ mpc = "accept"
    /\ mpc' = "insert"
    /\ UNCHANGED <<mname, mfd, users, connections, threads, hvars, tvars, nvars>>

SendAcceptFails == mpc = "accept" /\ DropConnection

InsertName ==
    /\ mpc = "insert"
    /\ users' = users \cup {mname}
    /\ mpc' = "reconnect"
    /\ UNCHANGED <<mname, mfd, connections, threads, hvars, tvars, nvars>>

\* Frees the TimerData at t: unlinked, timer_delete'd, its memory reusable.
FreeTimer(t) ==
    /\ timers' = timers \ {t}
    /\ armed' = armed \ {t}
    /\ tname' = [tname EXCEPT ![t] = NoName]

\* Mutant: a reconnection leaves the timer of the last session alone.
EraseReconnectedTimer_Kept ==
    /\ mpc = "reconnect"
    /\ mpc' = "register"
    /\ UNCHANGED <<mname, mfd, users, connections, threads, hvars, tvars, nvars>>

\* A returning user's timer is erased, whether or not it has expired already.
EraseReconnectedTimer ==
    /\ mpc = "reconnect"
    /\ mpc' = "register"
    /\ \/ \E t \in timers : tname[t] = mname /\ FreeTimer(t)
       \/ (\A t \in timers : tname[t] # mname) /\ UNCHANGED tvars
    /\ UNCHANGED <<mname, mfd, users, connections, threads, hvars, nvars>>

RegisterConnection ==
    /\ mpc = "register"
    /\ connections' = connections \cup {mfd}
    /\ mpc' = "spawn"
    /\ UNCHANGED <<mname, mfd, users, threads, hvars, tvars, nvars>>

\* Mutant: the predicate of remove_if is inverted.
AliveThreads_Inverted == {g \in threads : hpc[g] = "dead"}

AliveThreads == {g \in threads : hpc[g] # "dead"}

\* Creates the handler thread and trims the threads that are no longer alive.
SpawnHandler(h) ==
    /\ mpc = "spawn"
    /\ hpc[h] = "dead"
    /\ hpc' = [hpc EXCEPT ![h] = "sending"]
    /\ hname' = [hname EXCEPT ![h] = mname]
    /\ hfd' = [hfd EXCEPT ![h] = mfd]
    /\ threads' = AliveThreads \cup {h}
    /\ mpc' = "poll" /\ mname' = NoName /\ mfd' = NoFd
    /\ UNCHANGED <<users, connections, tvars, nvars>>

-----------------------------------------------------------------------------
(* A connection handler *)

SendFullList(h) ==
    /\ hpc[h] = "sending"
    /\ hpc' = [hpc EXCEPT ![h] = "reading"]
    /\ UNCHANGED <<mvars, users, connections, threads, hname, hfd, tvars, nvars>>

\* Mutant: a return skips the cleanup handler, as in C it would.
SendFullListFails_NoCleanup(h) ==
    /\ hpc[h] = "sending"
    /\ hpc' = [hpc EXCEPT ![h] = "exiting"]
    /\ UNCHANGED <<mvars, users, connections, threads, hname, hfd, tvars, nvars>>

\* Mutant: the early return closes the socket, and the cleanup closes it again.
SendFullListFails_ClosesTwice(h) ==
    /\ hpc[h] = "sending"
    /\ connections' = connections \ {hfd[h]}
    /\ hpc' = [hpc EXCEPT ![h] = "closing"]
    /\ UNCHANGED <<mvars, users, threads, hname, hfd, tvars, nvars>>

\* The early return: the cleanup handler runs, create_client_timer does not.
SendFullListFails(h) ==
    /\ hpc[h] = "sending"
    /\ hpc' = [hpc EXCEPT ![h] = "closing"]
    /\ UNCHANGED <<mvars, users, connections, threads, hname, hfd, tvars, nvars>>

\* End of file, hang-up, time-out or a malformed header ends the loop.
ReadFails(h) ==
    /\ hpc[h] = "reading"
    /\ hpc' = [hpc EXCEPT ![h] = "timing"]
    /\ UNCHANGED <<mvars, users, connections, threads, hname, hfd, tvars, nvars>>

\* Mutant: the timer is created and listed, but never set.
CreateClientTimer_NotSet(h, t) ==
    /\ hpc[h] = "timing"
    /\ tname[t] = NoName
    /\ tname' = [tname EXCEPT ![t] = hname[h]]
    /\ timers' = timers \cup {t}
    /\ hpc' = [hpc EXCEPT ![h] = "closing"]
    /\ UNCHANGED <<mvars, users, connections, threads, hname, hfd, armed, nvars>>

\* The new TimerData is nobody else's until timers_mutex is taken.
CreateClientTimer(h, t) ==
    /\ hpc[h] = "timing"
    /\ tname[t] = NoName
    /\ tname' = [tname EXCEPT ![t] = hname[h]]
    /\ timers' = timers \cup {t}
    /\ armed' = armed \cup {t}
    /\ hpc' = [hpc EXCEPT ![h] = "closing"]
    /\ UNCHANGED <<mvars, users, connections, threads, hname, hfd, nvars>>

\* connections.erase destroys the socket and so closes the descriptor.
CloseConnection(h) ==
    /\ hpc[h] = "closing"
    /\ connections' = connections \ {hfd[h]}
    /\ hpc' = [hpc EXCEPT ![h] = "leaving"]
    /\ UNCHANGED <<mvars, users, threads, hname, hfd, tvars, nvars>>

FreeName(h) ==
    /\ hpc[h] = "leaving"
    /\ users' = users \ {hname[h]}
    /\ hpc' = [hpc EXCEPT ![h] = "exiting"]
    /\ UNCHANGED <<mvars, connections, threads, hname, hfd, tvars, nvars>>

\* del_target: *is_alive becomes false.  The thread object stays in `threads'.
Die(h) ==
    /\ hpc[h] = "exiting"
    /\ hpc' = [hpc EXCEPT ![h] = "dead"]
    /\ hname' = [hname EXCEPT ![h] = NoName]
    /\ hfd' = [hfd EXCEPT ![h] = NoFd]
    /\ UNCHANGED <<mvars, users, connections, threads, tvars, nvars>>

-----------------------------------------------------------------------------
(* A notification thread: handle_timer, given the raw address of a TimerData *)

Expire(n, t) ==
    /\ npc[n] = "idle"
    /\ t \in armed
    /\ armed' = armed \ {t}
    /\ npc' = [npc EXCEPT ![n] = "fired"]
    /\ nptr' = [nptr EXCEPT ![n] = t]
    /\ UNCHANGED <<mvars, users, connections, threads, hvars, timers, tname, nname>>

\* timer->username is read under no mutex.  When the TimerData has been freed
\* the read is undefined: here it yields any name, or one that is nobody's.
ReadTimerName(n) ==
    /\ npc[n] = "fired"
    /\ \E u \in Names \cup {NoName} :
          /\ tname[nptr[n]] \in {u, NoName}
          /\ nname' = [nname EXCEPT ![n] = u]
    /\ npc' = [npc EXCEPT ![n] = "named"]
    /\ UNCHANGED <<mvars, users, connections, threads, hvars, tvars, nptr>>

PushAdopt(n) ==
    /\ npc[n] = "named"
    /\ npc' = [npc EXCEPT ![n] = "pushed"]
    /\ UNCHANGED <<mvars, users, connections, threads, hvars, tvars, nptr, nname>>

\* Erases the entry whose address is `timer', if there is one.
EraseExpiredTimer(n) ==
    /\ npc[n] = "pushed"
    /\ \/ nptr[n] \in timers /\ FreeTimer(nptr[n])
       \/ nptr[n] \notin timers /\ UNCHANGED tvars
    /\ npc' = [npc EXCEPT ![n] = "idle"]
    /\ nptr' = [nptr EXCEPT ![n] = NoPtr]
    /\ nname' = [nname EXCEPT ![n] = NoName]
    /\ UNCHANGED <<mvars, users, connections, threads, hvars>>

-----------------------------------------------------------------------------
Main ==
    \/ \E fd \in Fds : AcceptConnection(fd)
    \/ \E u \in Names : CheckName(u)
    \/ HandshakeFails \/ SendDecline \/ SendAccept \/ SendAcceptFails
    \/ InsertName \/ EraseReconnectedTimer \/ RegisterConnection
    \/ \E h \in Handlers : SpawnHandler(h)

Handler(h) ==
    \/ SendFullList(h) \/ SendFullListFails(h) \/ ReadFails(h)
    \/ \E t \in TimerPtrs : CreateClientTimer(h, t)
    \/ CloseConnection(h) \/ FreeName(h) \/ Die(h)

Notifier(n) ==
    \/ \E t \in TimerPtrs : Expire(n, t)
    \/ ReadTimerName(n) \/ PushAdopt(n) \/ EraseExpiredTimer(n)

Next ==
    \/ Main
    \/ \E h \in Handlers : Handler(h)
    \/ \E n \in Notifiers : Notifier(n)

Spec == Init /\ [][Next]_vars

-----------------------------------------------------------------------------
(* Properties *)

\* Handlers that still hold their name, and their connection.
HoldsName(h) == hpc[h] \in {"sending", "reading", "timing", "closing", "leaving"}
HoldsConnection(h) == hpc[h] \in {"sending", "reading", "timing", "closing"}

\* The main thread has put its name in `users' and no handler has it yet.
MainHoldsName == mpc \in {"reconnect", "register", "spawn"}

\* Two live sessions never have one name, although the name is looked up in
\* one critical section of users_mutex (server.cpp:240) and inserted in another
\* (145), and although a leaving handler frees it from its own thread.
OneSessionPerName ==
    /\ \A g, h \in Handlers :
          HoldsName(g) /\ HoldsName(h) /\ hname[g] = hname[h] => g = h
    /\ MainHoldsName => \A h \in Handlers : HoldsName(h) => hname[h] # mname

\* A name is refused exactly while a session holds it: `users' neither leaks the
\* name of a session that ended in any of its ways nor loses one that goes on.
UsersAreTheSessions ==
    \A u \in Names : u \in users <=>
        \/ MainHoldsName /\ mname = u
        \/ \E h \in Handlers : HoldsName(h) /\ hname[h] = u

\* The descriptor a handler reads, writes and finally erases from `connections'
\* is its own connection, open, and nobody else's, although the kernel gives a
\* closed descriptor out again while the handler that closed it is still running.
HandlersOwnTheirConnection ==
    /\ \A h \in Handlers : HoldsConnection(h) => hfd[h] \in connections \ {NoFd}
    /\ \A g, h \in Handlers :
          HoldsConnection(g) /\ HoldsConnection(h) /\ hfd[g] = hfd[h] => g = h

\* No connection outlives its handler: the updater would write to it forever.
ConnectionsAreTheHandlers ==
    \A fd \in connections :
        \/ mpc = "spawn" /\ mfd = fd
        \/ \E h \in Handlers : HoldsConnection(h) /\ hfd[h] = fd

\* A user has at most one timer, and none from the reconnection on: the timer of
\* the last session cannot still be in `timers' when the next session sets its own.
OneTimerPerName ==
    /\ \A s, t \in timers : tname[s] = tname[t] => s = t
    /\ \A h \in Handlers : hpc[h] \in {"sending", "reading", "timing"} =>
          \A t \in timers : tname[t] # hname[h]
    /\ mpc \in {"register", "spawn"} => \A t \in timers : tname[t] # mname

\* Trimming `threads' never drops a running handler: SIGINT cancels, and the
\* end of the accept loop joins, only the threads that are in it.
RunningHandlersAreListed == \A h \in Handlers : hpc[h] # "dead" => h \in threads
=============================================================================
