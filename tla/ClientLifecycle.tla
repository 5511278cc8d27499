-------------------------- MODULE ClientLifecycle ---------------------------
(***************************************************************************)
(* How the programs that connect to the server start and stop: the client  *)
(* (src/src/client/runner.cpp), the test client (test_client/runner.cpp)   *)
(* and the exporter (exporter/runner.cpp).  The main thread connects and   *)
(* exchanges names with the server.  The exporter then reads the list.     *)
(* The others create their threads, run the GUI if there is one, or type   *)
(* in the user's place, and join the threads in ~Runner.  The first thread *)
(* whose loop ends cancels the others (reader.cpp, writer.cpp,             *)
(* input_handler.cpp), looking each up in share:: first: a thread that is  *)
(* not there yet, or no longer alive, is passed over.                      *)
(*                                                                         *)
(* pthread_cancel only takes effect at a cancellation point: in the calls  *)
(* that block, and in the message on stderr when a loop of the reader or   *)
(* the writer ends; there is none in shutdown().  The assignment of a      *)
(* thread object, which races with the lookups, is taken to be atomic.     *)
(***************************************************************************)
EXTENDS Naturals, Sequences, SequencesExt

Programs == {"client", "test_client", "exporter"}
Threads  == {"reader", "writer", "input"}

VARIABLES
    program,       \* which of the programs this is
    mpc, next,     \* main thread, and the thread it creates or joins next
    useGui,        \* m_use_gui
    runGui,        \* share::run_gui
    assigned,      \* thread objects in share:: that are initialized
    tpc,           \* the threads
    cancelled,     \* threads with a cancellation request
    serverUp,      \* the server's end of the connection is open
    early          \* history: a loop ended before all threads were assigned

kind == <<program, useGui>>
vars == <<kind, mpc, next, runGui, assigned, tpc, cancelled, serverUp, early>>

\* The threads of the program, as it creates and joins them.
Order ==
    CASE program = "client"      -> <<"reader", "writer", "input">>
      [] program = "test_client" -> <<"reader", "writer">>
      [] program = "exporter"    -> <<>>

ThreadPCs == {"none", "running", "stopped", "cancel1", "cancel2", "gui", "dead"}

\* A thread is only cancelled through a handle that is set.
TypeOK ==
    /\ program \in Programs /\ useGui \in BOOLEAN /\ runGui \in BOOLEAN
    /\ mpc \in {"connect", "create", "assign", "gui", "simulate", "export", "join", "done"}
    /\ next \in 1 .. Len(Order) + 1
    /\ assigned \subseteq ToSet(Order) /\ cancelled \subseteq assigned
    /\ tpc \in [Threads -> ThreadPCs]
    /\ serverUp \in BOOLEAN /\ early \in BOOLEAN
    /\ \A t \in assigned : tpc[t] # "none"

Init ==
    /\ program \in Programs /\ useGui \in BOOLEAN
    /\ useGui => program = "client"
    /\ mpc = "connect" /\ next = 1 /\ runGui = TRUE
    /\ assigned = {} /\ cancelled = {}
    /\ tpc = [t \in Threads |-> "none"]
    /\ serverUp = TRUE /\ early = FALSE

-----------------------------------------------------------------------------
(* The main thread: Runner::setup, Runner::run and ~Runner *)

\* The name is accepted.
SetupSucceeds ==
    /\ mpc = "connect"
    /\ mpc' = IF program = "exporter" THEN "export" ELSE "create"
    /\ UNCHANGED <<kind, next, runGui, assigned, tpc, cancelled, serverUp, early>>

\* Connecting, writing the name or reading the answer fails, no answer comes in a
\* minute, or it is a Decline or something else: there is nothing to join.
SetupFails ==
    /\ mpc = "connect"
    /\ mpc' = "join"
    /\ UNCHANGED <<kind, next, runGui, assigned, tpc, cancelled, serverUp, early>>

\* The exporter has read the list, or something else, or nothing: without a
\* time-out.
ExportList ==
    /\ mpc = "export"
    /\ mpc' = "join"
    /\ UNCHANGED <<kind, next, runGui, assigned, tpc, cancelled, serverUp, early>>

\* The new thread runs before the object that refers to it is in share::.
CreateThread ==
    /\ mpc = "create"
    /\ tpc' = [tpc EXCEPT ![Order[next]] = "running"]
    /\ mpc' = "assign"
    /\ UNCHANGED <<kind, next, runGui, assigned, cancelled, serverUp, early>>

\* What the main thread turns to when it has created its threads.
WhenCreated ==
    IF useGui THEN "gui" ELSE IF program = "test_client" THEN "simulate" ELSE "join"

AssignThread ==
    /\ mpc = "assign"
    /\ assigned' = assigned \cup {Order[next]}
    /\ IF next < Len(Order) THEN mpc' = "create" /\ next' = next + 1
       ELSE mpc' = WhenCreated /\ next' = 1
    /\ UNCHANGED <<kind, runGui, tpc, cancelled, serverUp, early>>

LeaveGui ==
    /\ mpc = "gui" /\ ~runGui
    /\ mpc' = "join"
    /\ UNCHANGED <<kind, next, runGui, assigned, tpc, cancelled, serverUp, early>>

\* simulate_behaviour has pushed all its actions, whether or not anybody is
\* left to write them.
EndSimulation ==
    /\ mpc = "simulate"
    /\ mpc' = "join"
    /\ UNCHANGED <<kind, next, runGui, assigned, tpc, cancelled, serverUp, early>>

\* A thread that is not initialized is not joined.
JoinThread ==
    /\ mpc = "join" /\ next <= Len(Order)
    /\ Order[next] \in assigned => tpc[Order[next]] = "dead"
    /\ next' = next + 1
    /\ UNCHANGED <<kind, mpc, runGui, assigned, tpc, cancelled, serverUp, early>>

EndMain ==
    /\ mpc = "join" /\ next > Len(Order)
    /\ mpc' = "done"
    /\ UNCHANGED <<kind, next, runGui, assigned, tpc, cancelled, serverUp, early>>

-----------------------------------------------------------------------------
(* The threads *)

ServerEnds ==
    /\ serverUp
    /\ serverUp' = FALSE
    /\ UNCHANGED <<kind, mpc, next, runGui, assigned, tpc, cancelled, early>>

\* The loop of t ends: reading fails, writing fails, the user says exit, or the
\* test client's reader has the responses it expects.
LoopEnds(t) ==
    /\ tpc[t] = "running"
    /\ \/ ~serverUp \/ t = "input"
       \/ program = "test_client" /\ t = "reader"
    /\ tpc' = [tpc EXCEPT ![t] = "stopped"]
    /\ early' = (early \/ assigned # ToSet(Order))
    /\ UNCHANGED <<kind, mpc, next, runGui, assigned, cancelled, serverUp>>

\* Only the user decides to exit, and only when there is something to write can
\* writing fail.  What is certain to be noticed is that reading fails.
ReadingFails == ~serverUp /\ LoopEnds("reader")

BeginShutdown(t) ==
    /\ tpc[t] = "stopped"
    /\ tpc' = [tpc EXCEPT ![t] = "cancel1"]
    /\ UNCHANGED <<kind, mpc, next, runGui, assigned, cancelled, serverUp, early>>

\* Whom shutdown() of t cancels, in its order.  In the test client a thread has
\* only the other one to cancel, and there is no GUI to stop.
First(t)  == IF t = "writer" THEN "reader" ELSE "writer"
\* Mutant: shutdown() forgets its second thread.
Second_Forgotten(t) == First(t)

Second(t) == IF t = "input" THEN "reader" ELSE "input"

IsAlive(t) == tpc[t] \notin {"none", "dead"}

\* Mutant: whether the thread object is initialized is not asked.
CancelIfAlive_Uninitialized(t) ==
    cancelled' = IF IsAlive(t) THEN cancelled \cup {t} ELSE cancelled

CancelIfAlive(t) ==
    cancelled' = IF t \in assigned /\ IsAlive(t) THEN cancelled \cup {t} ELSE cancelled

CancelFirst(t) ==
    /\ tpc[t] = "cancel1"
    /\ CancelIfAlive(First(t))
    /\ tpc' = [tpc EXCEPT ![t] = IF program = "client" THEN "cancel2" ELSE "dead"]
    /\ UNCHANGED <<kind, mpc, next, runGui, assigned, serverUp, early>>

CancelSecond(t) ==
    /\ tpc[t] = "cancel2"
    /\ CancelIfAlive(Second(t))
    /\ tpc' = [tpc EXCEPT ![t] = "gui"]
    /\ UNCHANGED <<kind, mpc, next, runGui, assigned, serverUp, early>>

\* Mutant: shutdown() leaves the GUI running.
StopGui_Forgotten(t) ==
    /\ tpc[t] = "gui"
    /\ tpc' = [tpc EXCEPT ![t] = "dead"]
    /\ UNCHANGED <<kind, mpc, next, runGui, assigned, cancelled, serverUp, early>>

StopGui(t) ==
    /\ tpc[t] = "gui"
    /\ runGui' = FALSE
    /\ tpc' = [tpc EXCEPT ![t] = "dead"]
    /\ UNCHANGED <<kind, mpc, next, assigned, cancelled, serverUp, early>>

\* A thread with a cancellation request ends at a cancellation point.
ActOnCancel(t) ==
    /\ t \in cancelled
    /\ tpc[t] \in (IF t = "input" THEN {"running"} ELSE {"running", "stopped"})
    /\ tpc' = [tpc EXCEPT ![t] = "dead"]
    /\ UNCHANGED <<kind, mpc, next, runGui, assigned, cancelled, serverUp, early>>

-----------------------------------------------------------------------------
Main ==
    \/ SetupSucceeds \/ SetupFails \/ CreateThread \/ AssignThread
    \/ LeaveGui \/ EndSimulation \/ JoinThread \/ EndMain

Stop(t) ==
    BeginShutdown(t) \/ CancelFirst(t) \/ CancelSecond(t) \/ StopGui(t) \/ ActOnCancel(t)

Finished == mpc = "done" /\ UNCHANGED vars

Next ==
    \/ Main \/ ExportList \/ ServerEnds \/ Finished
    \/ \E t \in Threads : LoopEnds(t) \/ Stop(t)

\* Every thread runs.  The user need not type anything, the server need not end.
Fairness ==
    /\ WF_vars(Main) /\ WF_vars(ReadingFails)
    /\ WF_vars(~serverUp /\ ExportList)
    /\ \A t \in Threads : WF_vars(Stop(t))

Spec == Init /\ [][Next]_vars /\ Fairness

-----------------------------------------------------------------------------
(* Properties *)

ShuttingDown(t) == tpc[t] \in {"cancel1", "cancel2", "gui"}

\* s is in shutdown() and has yet to cancel t.
WillCancel(s, t) ==
    \/ tpc[s] = "cancel1" /\ t = First(s)
    \/ tpc[s] = "cancel1" /\ t = Second(s) /\ program = "client"
    \/ tpc[s] = "cancel2" /\ t = Second(s)

\* When all the threads were started before the first of them stopped, whoever
\* stops leaves nobody behind, however their shutdowns and cancellations
\* interleave: once a thread is dead, each of the others is dead, shutting down,
\* cancelled or about to be, and the GUI has been or is about to be told.
NobodyIsForgotten ==
    ~early /\ (\E t \in Threads : tpc[t] = "dead") =>
        /\ \A u \in ToSet(Order) :
              \/ tpc[u] = "dead" \/ ShuttingDown(u) \/ u \in cancelled
              \/ \E s \in Threads : WillCancel(s, u)
        /\ program = "client" => ~runGui \/ \E s \in Threads : ShuttingDown(s)

\* And so the program terminates, as it does when the server does not let it in.
StopsOnceStarted ==
    (~early /\ \E t \in Threads : tpc[t] = "stopped") \/ (mpc = "join" /\ assigned = {})
        ~> mpc = "done"

\* main.tex:862-863: when the server terminates, the clients do.
ClientEndsWithServer == ~serverUp ~> mpc = "done"
=============================================================================
