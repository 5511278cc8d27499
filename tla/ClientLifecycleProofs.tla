----------------------- MODULE ClientLifecycleProofs ------------------------
(***************************************************************************)
(* Proofs that the threads of the programs that connect to the server stop *)
(* one another, wherever each of them is when the first of their loops     *)
(* ends.                                                                   *)
(***************************************************************************)
EXTENDS ClientLifecycle, TLAPS

Mine == ToSet(Order)

\* How far the main thread is with the creation of the threads.
Created ==
    /\ mpc = "connect" => next = 1 /\ assigned = {} /\ \A t \in Threads : tpc[t] = "none"
    /\ mpc \in {"create", "assign"} =>
          next <= Len(Order) /\ \A i \in next .. Len(Order) : Order[i] \notin assigned
    /\ mpc = "create" => \A i \in next .. Len(Order) : tpc[Order[i]] = "none"
    /\ mpc = "assign" => tpc[Order[next]] # "none"
          /\ \A i \in next + 1 .. Len(Order) : tpc[Order[i]] = "none"
    /\ \A t \in Threads \ Mine : tpc[t] = "none"

\* When no loop ended early, whoever stops or is cancelled does so when all the
\* threads can be looked up.
AllLookedUp ==
    ~early /\ (cancelled # {} \/ \E t \in Threads : tpc[t] \notin {"none", "running"}) =>
        assigned = Mine

Gone(t) == tpc[t] = "dead" \/ t \in cancelled

\* Whoever is past a cancellation in shutdown() has seen to that thread.
SeenTo ==
    \A t \in Threads : tpc[t] \in {"cancel2", "gui"} =>
        /\ program = "client"
        /\ ~early => Gone(First(t)) /\ (tpc[t] = "gui" => Gone(Second(t)))

\* Whoever is cancelled was cancelled by one that is past its first cancellation.
Cancelling ==
    ~early /\ cancelled # {} => \E s \in Threads : tpc[s] \in {"cancel2", "gui", "dead"}

IInv == TypeOK /\ Created /\ AllLookedUp /\ SeenTo /\ Cancelling /\ NobodyIsForgotten
-----------------------------------------------------------------------------
(* The programs *)

\* The threads that each program has, in the order of their creation.
LEMMA Orders ==
    ASSUME program \in Programs
    PROVE  /\ Len(Order) \in Nat
           /\ Mine = (CASE program = "client"      -> Threads
                        [] program = "test_client" -> {"reader", "writer"}
                        [] program = "exporter"    -> {})
           /\ \A i \in 1 .. Len(Order) : Order[i] \in Mine
           /\ \A i, j \in 1 .. Len(Order) : Order[i] = Order[j] => i = j
           /\ \A t \in Mine : \E i \in 1 .. Len(Order) : t = Order[i]
           /\ Len(Order) = 0 <=> program = "exporter"
<1>1. CASE program = "client"
  <2>1. Order = <<"reader", "writer", "input">>
    BY <1>1 DEF Order
  <2>2. Len(Order) = 3 /\ Order[1] = "reader" /\ Order[2] = "writer" /\ Order[3] = "input"
        /\ DOMAIN Order = 1 .. 3
    BY <2>1
  <2>3. Mine = {"reader", "writer", "input"}
    BY <2>2 DEF Mine, ToSet
  <2>4. QED
    BY <1>1, <2>2, <2>3 DEF Threads
<1>2. CASE program = "test_client"
  <2>1. Order = <<"reader", "writer">>
    BY <1>2 DEF Order
  <2>2. Len(Order) = 2 /\ Order[1] = "reader" /\ Order[2] = "writer" /\ DOMAIN Order = 1 .. 2
    BY <2>1
  <2>3. Mine = {"reader", "writer"}
    BY <2>2 DEF Mine, ToSet
  <2>4. QED
    BY <1>2, <2>2, <2>3
<1>3. CASE program = "exporter"
  <2>1. Order = <<>>
    BY <1>3 DEF Order
  <2>2. Len(Order) = 0 /\ DOMAIN Order = {}
    BY <2>1
  <2>3. Mine = {}
    BY <2>2 DEF Mine, ToSet
  <2>4. QED
    BY <1>3, <2>2, <2>3
<1>4. QED
  BY <1>1, <1>2, <1>3 DEF Programs

\* A program stays what it is.
LEMMA SameOrder ==
    ASSUME UNCHANGED program
    PROVE  Order' = Order /\ Mine' = Mine
BY DEF Order, Mine

\* The invariant holds at the start.
LEMMA InitIInv == Init => IInv
<1> SUFFICES ASSUME Init PROVE IInv
  OBVIOUS
<1>1. TypeOK
  <2>1. Len(Order) \in Nat
    BY Orders DEF Init
  <2>2. 1 \in 1 .. Len(Order) + 1
    BY <2>1
  <2>3. QED
    BY <2>2 DEF Init, TypeOK, ThreadPCs
<1>2. Created
  BY DEF Init, Created
<1>3. AllLookedUp /\ SeenTo /\ Cancelling /\ NobodyIsForgotten
  BY DEF Init, AllLookedUp, SeenTo, Cancelling, NobodyIsForgotten
<1>4. QED
  BY <1>1, <1>2, <1>3 DEF IInv
-----------------------------------------------------------------------------
(* The main thread's steps *)

\* A step of the main thread that creates nothing and looks nothing up.
LEMMA MainAloneIInv ==
    ASSUME IInv,
           \/ SetupSucceeds \/ SetupFails \/ ExportList \/ LeaveGui
           \/ EndSimulation \/ JoinThread \/ EndMain
    PROVE  IInv'
<1>1. UNCHANGED <<program, useGui, runGui, assigned, tpc, cancelled, serverUp, early>>
  BY DEF SetupSucceeds, SetupFails, ExportList, LeaveGui, EndSimulation, JoinThread, EndMain, kind
<1>2. Order' = Order /\ Mine' = Mine
  BY <1>1, SameOrder
<1>3. AllLookedUp' /\ SeenTo' /\ Cancelling' /\ NobodyIsForgotten'
  BY <1>1, <1>2
     DEF IInv, AllLookedUp, SeenTo, Gone, First, Second, Cancelling, NobodyIsForgotten,
         WillCancel, ShuttingDown
<1>4. Len(Order) \in Nat /\ (Len(Order) = 0 <=> program = "exporter") /\ next \in Nat /\ next >= 1
  BY Orders DEF IInv, TypeOK
<1>5. next' \in 1 .. Len(Order) + 1
  <2>1. next' = next \/ (next' = next + 1 /\ next <= Len(Order))
    BY DEF SetupSucceeds, SetupFails, ExportList, LeaveGui, EndSimulation, JoinThread, EndMain
  <2>2. next \in 1 .. Len(Order) + 1
    BY DEF IInv, TypeOK
  <2>3. QED
    BY <1>4, <2>1, <2>2
<1>6. /\ mpc' \in {"create", "gui", "simulate", "export", "join", "done"}
      /\ mpc' = "create" => mpc = "connect" /\ next' = next /\ program # "exporter"
  BY DEF SetupSucceeds, SetupFails, ExportList, LeaveGui, EndSimulation, JoinThread, EndMain
<1>7. TypeOK'
  <2>1. mpc' \in {"connect", "create", "assign", "gui", "simulate", "export", "join", "done"}
    BY <1>6
  <2>2. QED
    BY <1>1, <1>2, <1>5, <2>1 DEF IInv, TypeOK, Mine
<1>8. Created'
  <2>1. CASE mpc' = "create"
    <3>1. next' = 1 /\ assigned' = {} /\ \A t \in Threads : tpc'[t] = "none"
      BY <1>1, <1>6, <2>1 DEF IInv, Created
    <3>2. \A i \in 1 .. Len(Order) : Order[i] \in Threads
      BY Orders DEF IInv, TypeOK, Threads, Programs
    <3>3. 1 <= Len(Order)
      BY <1>4, <1>6, <2>1
    <3>4. QED
      BY <1>2, <2>1, <3>1, <3>2, <3>3 DEF Created
  <2>2. CASE mpc' # "create"
    BY <1>1, <1>2, <1>6, <2>2 DEF IInv, Created
  <2>3. QED
    BY <2>1, <2>2
<1>9. QED
  BY <1>3, <1>7, <1>8 DEF IInv

\* A thread is only created before any has stopped, or when one has stopped early.
LEMMA CreateThreadIInv ==
    ASSUME IInv, CreateThread
    PROVE  IInv'
<1> DEFINE new == Order[next]
<1>1. /\ mpc = "create" /\ mpc' = "assign" /\ tpc' = [tpc EXCEPT ![new] = "running"]
      /\ UNCHANGED <<program, useGui, next, runGui, assigned, cancelled, serverUp, early>>
  BY DEF CreateThread, kind
<1>2. Order' = Order /\ Mine' = Mine
  BY <1>1, SameOrder
<1>3. /\ Len(Order) \in Nat /\ next \in Nat /\ next \in 1 .. Len(Order)
      /\ next + 1 \in Nat
  BY <1>1, Orders DEF IInv, TypeOK, Created
<1>4. new \in Mine /\ Mine \subseteq Threads /\ new \notin assigned /\ tpc[new] = "none"
  BY <1>1, <1>3, Orders DEF IInv, TypeOK, Created, Threads, Programs
<1>5. \A i \in next + 1 .. Len(Order) : Order[i] \in Mine /\ Order[i] # new
  BY <1>3, Orders DEF IInv, TypeOK
<1>6. Created'
  <2>1. \A i \in next + 1 .. Len(Order) : tpc[Order[i]] = "none"
    BY <1>1, <1>3 DEF IInv, Created
  <2>2. tpc'[new] = "running" /\ \A t \in Threads \ {new} : tpc'[t] = tpc[t]
    BY <1>1, <1>4 DEF IInv, TypeOK
  <2>3. \A i \in next + 1 .. Len(Order) : tpc'[Order[i]] = "none"
    BY <1>4, <1>5, <2>1, <2>2
  <2>4. \A t \in Threads \ Mine : tpc'[t] = "none"
    BY <1>4, <2>2 DEF IInv, Created
  <2> HIDE DEF new
  <2>5. next <= Len(Order) /\ \A i \in next .. Len(Order) : Order[i] \notin assigned
    BY <1>1 DEF IInv, Created
  <2>6. QED
    BY <1>1, <1>2, <2>2, <2>3, <2>4, <2>5 DEF Created, new
<1>7. TypeOK'
  <2>1. tpc' \in [Threads -> ThreadPCs] /\ \A t \in assigned : tpc'[t] # "none"
    BY <1>1, <1>4 DEF IInv, TypeOK, ThreadPCs
  <2>2. QED
    BY <1>1, <1>2, <2>1 DEF IInv, TypeOK
<1>8. early \/ (cancelled = {} /\ \A t \in Threads : tpc[t] \in {"none", "running"})
  <2>1. assigned # Mine
    BY <1>4
  <2>2. QED
    BY <2>1, Zenon DEF IInv, AllLookedUp
<1>9. AllLookedUp' /\ SeenTo' /\ Cancelling' /\ NobodyIsForgotten'
  <2>1. CASE early
    BY <2>1, <1>1, <1>4 DEF IInv, TypeOK, AllLookedUp, SeenTo, Cancelling, NobodyIsForgotten
  <2>2. CASE cancelled = {} /\ \A t \in Threads : tpc[t] \in {"none", "running"}
    <3>1. cancelled' = {} /\ \A t \in Threads : tpc'[t] \in {"none", "running"}
      BY <2>2, <1>1, <1>4 DEF IInv, TypeOK
    <3>2. QED
      BY <3>1 DEF AllLookedUp, SeenTo, Cancelling, NobodyIsForgotten
  <2>3. QED
    BY <1>8, <2>1, <2>2
<1>10. QED
  BY <1>6, <1>7, <1>9 DEF IInv

\* The thread that was created can be looked up.
LEMMA AssignThreadIInv ==
    ASSUME IInv, AssignThread
    PROVE  IInv'
<1> DEFINE new == Order[next]
<1>1. /\ mpc = "assign" /\ assigned' = assigned \cup {new}
      /\ UNCHANGED <<program, useGui, runGui, tpc, cancelled, serverUp, early>>
  BY DEF AssignThread, kind
<1>2. Order' = Order /\ Mine' = Mine
  BY <1>1, SameOrder
<1>3. /\ Len(Order) \in Nat /\ next \in Nat /\ next \in 1 .. Len(Order)
      /\ next + 1 \in Nat
  BY <1>1, Orders DEF IInv, TypeOK, Created
<1>4. new \in Mine /\ Mine \subseteq Threads /\ new \notin assigned /\ tpc[new] # "none"
  BY <1>1, <1>3, Orders DEF IInv, TypeOK, Created, Threads, Programs
<1>5. \/ mpc' = "create" /\ next' = next + 1 /\ next + 1 \in 1 .. Len(Order)
      \/ mpc' \in {"gui", "simulate", "join"} /\ next' = 1
  <2>1. \/ next < Len(Order) /\ mpc' = "create" /\ next' = next + 1
        \/ mpc' \in {"gui", "simulate", "join"} /\ next' = 1
    BY DEF AssignThread, WhenCreated
  <2>2. QED
    BY <1>3, <2>1
<1>6. Created'
  <2>1. \A i \in next + 1 .. Len(Order) :
          Order[i] # new /\ Order[i] \notin assigned /\ tpc[Order[i]] = "none"
    BY <1>1, <1>3, Orders DEF IInv, TypeOK, Created
  <2>2. \A t \in Threads \ Mine : tpc[t] = "none"
    BY DEF IInv, Created
  <2> HIDE DEF new
  <2>3. QED
    BY <1>1, <1>2, <1>3, <1>5, <2>1, <2>2 DEF Created
<1>7. TypeOK'
  <2>1. next' \in 1 .. Len(Order) + 1
    BY <1>3, <1>5
  <2>2. mpc' \in {"connect", "create", "assign", "gui", "simulate", "export", "join", "done"}
    BY <1>5
  <2>3. assigned' \subseteq Mine /\ cancelled \subseteq assigned' /\ \A t \in assigned' : tpc[t] # "none"
    BY <1>1, <1>4 DEF IInv, TypeOK, Mine
  <2>4. QED
    BY <1>1, <1>2, <2>1, <2>2, <2>3 DEF IInv, TypeOK, Mine
<1>8. AllLookedUp'
  BY <1>1, <1>2, <1>4 DEF IInv, AllLookedUp
<1>9. SeenTo' /\ Cancelling' /\ NobodyIsForgotten'
  BY <1>1, <1>2
     DEF IInv, SeenTo, Gone, First, Second, Cancelling, NobodyIsForgotten,
         WillCancel, ShuttingDown, Mine
<1>10. QED
  BY <1>6, <1>7, <1>8, <1>9 DEF IInv
-----------------------------------------------------------------------------
(* The threads' steps *)

\* What the main thread's part of the invariant needs of a thread's step.
LEMMA ThreadKeepsCreated ==
    ASSUME TypeOK, Created, NEW t \in Threads, NEW pc \in ThreadPCs,
           tpc[t] # "none", pc # "none", tpc' = [tpc EXCEPT ![t] = pc],
           UNCHANGED <<program, mpc, next, assigned>>
    PROVE  Created' /\ tpc' \in [Threads -> ThreadPCs] /\ \A u \in assigned : tpc'[u] # "none"
<1>1. Order' = Order /\ Mine' = Mine
  BY SameOrder
<1>2. \A u \in Threads : (tpc'[u] = "none" <=> tpc[u] = "none")
  BY DEF TypeOK
<1>3. tpc' \in [Threads -> ThreadPCs]
  BY DEF TypeOK
<1>4. \A i \in 1 .. Len(Order) : Order[i] \in Threads
  BY Orders DEF TypeOK, Threads, Programs
<1>5. assigned \subseteq Threads
  BY Orders DEF TypeOK, Threads, Programs, Mine
<1>6. Len(Order) \in Nat /\ next \in Nat /\ next >= 1
  BY Orders DEF TypeOK
<1>7. mpc \in {"create", "assign"} => \A i \in next .. Len(Order) : i \in 1 .. Len(Order)
  BY <1>6
<1>8. mpc = "assign" => next \in 1 .. Len(Order) /\ \A i \in next + 1 .. Len(Order) : i \in 1 .. Len(Order)
  BY <1>6 DEF Created
<1>9. Created'
  BY <1>1, <1>2, <1>4, <1>7, <1>8 DEF Created
<1>10. QED
  BY <1>2, <1>3, <1>5, <1>9 DEF TypeOK

\* The server's end, and the end of the program, concern no thread.
LEMMA OutsideIInv ==
    ASSUME IInv, ServerEnds \/ UNCHANGED vars
    PROVE  IInv'
<1>1. /\ UNCHANGED <<program, useGui, mpc, next, runGui, assigned, tpc, cancelled, early>>
      /\ serverUp' \in BOOLEAN
  BY DEF ServerEnds, vars, kind, IInv, TypeOK
<1>2. Order' = Order /\ Mine' = Mine
  BY <1>1, SameOrder
<1>3. QED
  BY <1>1, <1>2
     DEF IInv, TypeOK, Created, AllLookedUp, SeenTo, Gone, First, Second, Cancelling,
         NobodyIsForgotten, WillCancel, ShuttingDown, Mine

\* A loop that ends with all threads in place changes nothing for the others.
LEMMA LoopEndsIInv ==
    ASSUME IInv, NEW t \in Threads, LoopEnds(t)
    PROVE  IInv'
<1>1. /\ tpc[t] = "running" /\ tpc' = [tpc EXCEPT ![t] = "stopped"]
      /\ UNCHANGED <<program, useGui, mpc, next, runGui, assigned, cancelled, serverUp>>
      /\ early' = (early \/ assigned # Mine)
  BY DEF LoopEnds, kind, Mine
<1>2. Order' = Order /\ Mine' = Mine
  BY <1>1, SameOrder
<1>3. Created' /\ tpc' \in [Threads -> ThreadPCs] /\ \A u \in assigned : tpc'[u] # "none"
  BY <1>1, ThreadKeepsCreated DEF IInv, ThreadPCs
<1>4. TypeOK'
  <2>1. early' \in BOOLEAN
    BY <1>1
  <2>2. QED
    BY <1>1, <1>2, <1>3, <2>1 DEF IInv, TypeOK
<1>5. tpc'[t] = "stopped" /\ \A u \in Threads \ {t} : tpc'[u] = tpc[u]
  BY <1>1 DEF IInv, TypeOK
<1>6. ~early' => ~early /\ assigned = Mine
  BY <1>1
<1>7. AllLookedUp'
  BY <1>1, <1>2, <1>6 DEF AllLookedUp
<1>8. SeenTo' /\ Cancelling'
  BY <1>1, <1>5, <1>6 DEF IInv, SeenTo, Gone, First, Second, Cancelling
<1>9. NobodyIsForgotten'
  <2>1. \A s, u \in Threads : WillCancel(s, u) => WillCancel(s, u)'
    BY <1>1, <1>5 DEF WillCancel, First, Second
  <2>2. \A s \in Threads : ShuttingDown(s) => ShuttingDown(s)'
    BY <1>1, <1>5 DEF ShuttingDown
  <2>3. \A s \in Threads : tpc'[s] = "dead" <=> tpc[s] = "dead"
    BY <1>1, <1>5
  <2>4. Mine \subseteq Threads
    BY Orders DEF IInv, TypeOK, Threads, Programs
  <2>5. QED
    BY <1>1, <1>2, <1>6, <2>1, <2>2, <2>3, <2>4 DEF IInv, NobodyIsForgotten, Mine
<1>10. QED
  BY <1>3, <1>4, <1>7, <1>8, <1>9 DEF IInv

\* A thread whose loop has ended enters shutdown().
LEMMA BeginShutdownIInv ==
    ASSUME IInv, NEW t \in Threads, BeginShutdown(t)
    PROVE  IInv'
<1>1. /\ tpc[t] = "stopped" /\ tpc' = [tpc EXCEPT ![t] = "cancel1"]
      /\ UNCHANGED <<program, useGui, mpc, next, runGui, assigned, cancelled, serverUp, early>>
  BY DEF BeginShutdown, kind
<1>2. Order' = Order /\ Mine' = Mine
  BY <1>1, SameOrder
<1>3. Created' /\ tpc' \in [Threads -> ThreadPCs] /\ \A u \in assigned : tpc'[u] # "none"
  BY <1>1, ThreadKeepsCreated DEF IInv, ThreadPCs
<1>4. TypeOK'
  BY <1>1, <1>2, <1>3 DEF IInv, TypeOK
<1>5. tpc'[t] = "cancel1" /\ \A u \in Threads \ {t} : tpc'[u] = tpc[u]
  BY <1>1 DEF IInv, TypeOK
<1>6. AllLookedUp'
  BY <1>1, <1>2, <1>5 DEF IInv, AllLookedUp
<1>7. SeenTo' /\ Cancelling'
  BY <1>1, <1>5 DEF IInv, SeenTo, Gone, First, Second, Cancelling
<1>8. NobodyIsForgotten'
  <2>1. \A s, u \in Threads : WillCancel(s, u) => WillCancel(s, u)'
    BY <1>1, <1>5 DEF WillCancel, First, Second
  <2>2. \A s \in Threads : ShuttingDown(s) => ShuttingDown(s)'
    BY <1>1, <1>5 DEF ShuttingDown
  <2>3. \A s \in Threads : tpc'[s] = "dead" <=> tpc[s] = "dead"
    BY <1>1, <1>5
  <2>4. Mine \subseteq Threads
    BY Orders DEF IInv, TypeOK, Threads, Programs
  <2>5. QED
    BY <1>1, <1>2, <2>1, <2>2, <2>3, <2>4 DEF IInv, NobodyIsForgotten, Mine
<1>9. QED
  BY <1>3, <1>4, <1>6, <1>7, <1>8 DEF IInv

\* Once all threads are there, a cancellation of one of them leaves it gone.
LEMMA CancelledIsGone ==
    ASSUME TypeOK, NEW u \in Mine, assigned = Mine, CancelIfAlive(u), UNCHANGED assigned
    PROVE  tpc[u] = "dead" \/ u \in cancelled'
BY DEF TypeOK, CancelIfAlive, IsAlive, Mine

\* The first cancellation, with which shutdown() of the test client ends.
LEMMA CancelFirstIInv ==
    ASSUME IInv, NEW t \in Threads, CancelFirst(t)
    PROVE  IInv'
<1> DEFINE pc == IF program = "client" THEN "cancel2" ELSE "dead"
<1>1. /\ tpc[t] = "cancel1" /\ tpc' = [tpc EXCEPT ![t] = pc]
      /\ UNCHANGED <<program, useGui, mpc, next, runGui, assigned, serverUp, early>>
      /\ CancelIfAlive(First(t))
  BY DEF CancelFirst, kind
<1>2. Order' = Order /\ Mine' = Mine
  BY <1>1, SameOrder
<1>3. pc \in ThreadPCs /\ pc # "none"
  BY DEF ThreadPCs
<1>4. Created' /\ tpc' \in [Threads -> ThreadPCs] /\ \A u \in assigned : tpc'[u] # "none"
  <2> HIDE DEF pc
  <2>1. QED
    BY <1>1, <1>3, ThreadKeepsCreated DEF IInv
<1>5. cancelled \subseteq cancelled' /\ cancelled' \subseteq assigned
  BY <1>1 DEF CancelIfAlive, IInv, TypeOK
<1>6. TypeOK'
  BY <1>1, <1>2, <1>4, <1>5 DEF IInv, TypeOK
<1>7. tpc'[t] = pc /\ \A u \in Threads \ {t} : tpc'[u] = tpc[u]
  BY <1>1 DEF IInv, TypeOK
<1>8. ~early => assigned = Mine
  BY <1>1 DEF IInv, AllLookedUp
<1>9. AllLookedUp'
  BY <1>1, <1>2, <1>8 DEF AllLookedUp
<1>10. /\ t \in Mine /\ First(t) \in Mine /\ First(t) # t
       /\ program = "client" => Mine = Threads
       /\ program # "client" => Mine = {"reader", "writer"}
  <2>1. t \in Mine
    BY <1>1 DEF IInv, Created
  <2>2. QED
    BY <2>1, Orders DEF IInv, TypeOK, Threads, Programs, First
<1>11. ~early => Gone(First(t))'
  BY <1>1, <1>7, <1>8, <1>10, CancelledIsGone DEF IInv, Gone, Threads, First
<1>12. \A u \in Threads : Gone(u) => Gone(u)'
  BY <1>1, <1>5, <1>7 DEF Gone
<1>13. SeenTo'
  <2> SUFFICES ASSUME NEW s \in Threads, tpc'[s] \in {"cancel2", "gui"}
               PROVE  /\ program = "client"
                      /\ ~early => Gone(First(s))' /\ (tpc'[s] = "gui" => Gone(Second(s))')
    BY <1>1 DEF SeenTo, First, Second, Gone
  <2>1. CASE s = t
    BY <2>1, <1>1, <1>7, <1>11
  <2>2. CASE s # t
    <3>1. First(s) \in Threads /\ Second(s) \in Threads
      BY DEF First, Second, Threads
    <3>2. QED
      BY <2>2, <3>1, <1>7, <1>12 DEF IInv, SeenTo
  <2>3. QED
    BY <2>1, <2>2
<1>14. Cancelling'
  BY <1>3, <1>7 DEF Cancelling
<1>15. NobodyIsForgotten'
  <2> SUFFICES ASSUME ~early, \E s \in Threads : tpc'[s] = "dead"
               PROVE  /\ \A u \in Mine :
                            \/ tpc'[u] = "dead" \/ ShuttingDown(u)' \/ u \in cancelled'
                            \/ \E s \in Threads : WillCancel(s, u)'
                      /\ program = "client" => ~runGui \/ \E s \in Threads : ShuttingDown(s)'
    BY <1>1, <1>2 DEF NobodyIsForgotten, Mine
  <2>1. CASE program = "client"
    <3>1. \E s \in Threads : tpc[s] = "dead"
      BY <2>1, <1>7
    <3>2. ShuttingDown(t)'
      BY <2>1, <1>7 DEF ShuttingDown
    <3>3. ASSUME NEW u \in Mine
          PROVE  \/ tpc'[u] = "dead" \/ ShuttingDown(u)' \/ u \in cancelled'
                 \/ \E s \in Threads : WillCancel(s, u)'
      <4>1. \/ tpc[u] = "dead" \/ ShuttingDown(u) \/ u \in cancelled
            \/ \E s \in Threads : WillCancel(s, u)
        BY <3>1 DEF IInv, NobodyIsForgotten, Mine
      <4>2. Gone(u) \/ ShuttingDown(u) => Gone(u)' \/ ShuttingDown(u)'
        BY <2>1, <1>7, <1>10, <1>12 DEF ShuttingDown
      <4>3. ASSUME NEW s \in Threads, WillCancel(s, u)
            PROVE  Gone(u)' \/ WillCancel(s, u)'
        <5>1. CASE s = t
          BY <5>1, <4>3, <2>1, <1>1, <1>7, <1>11 DEF WillCancel, First, Second
        <5>2. CASE s # t
          BY <5>2, <4>3, <1>1, <1>7 DEF WillCancel, First, Second
        <5>3. QED
          BY <5>1, <5>2
      <4>4. QED
        BY <4>1, <4>2, <4>3 DEF Gone
    <3>4. QED
      BY <3>2, <3>3
  <2>2. CASE program # "client"
    <3>1. Mine = {t, First(t)} /\ tpc'[t] = "dead"
      BY <2>2, <1>7, <1>10 DEF First
    <3>2. QED
      BY <2>2, <3>1, <1>11 DEF Gone
  <2>3. QED
    BY <2>1, <2>2
<1>16. QED
  BY <1>4, <1>6, <1>9, <1>13, <1>14, <1>15 DEF IInv
\* The second cancellation of a client's thread.
LEMMA CancelSecondIInv ==
    ASSUME IInv, NEW t \in Threads, CancelSecond(t)
    PROVE  IInv'
<1>1. /\ tpc[t] = "cancel2" /\ tpc' = [tpc EXCEPT ![t] = "gui"]
      /\ UNCHANGED <<program, useGui, mpc, next, runGui, assigned, serverUp, early>>
      /\ CancelIfAlive(Second(t))
  BY DEF CancelSecond, kind
<1>2. Order' = Order /\ Mine' = Mine
  BY <1>1, SameOrder
<1>3. Created' /\ tpc' \in [Threads -> ThreadPCs] /\ \A u \in assigned : tpc'[u] # "none"
  BY <1>1, ThreadKeepsCreated DEF IInv, ThreadPCs
<1>4. cancelled \subseteq cancelled' /\ cancelled' \subseteq assigned
  BY <1>1 DEF CancelIfAlive, IInv, TypeOK
<1>5. TypeOK'
  BY <1>1, <1>2, <1>3, <1>4 DEF IInv, TypeOK
<1>6. tpc'[t] = "gui" /\ \A u \in Threads \ {t} : tpc'[u] = tpc[u]
  BY <1>1 DEF IInv, TypeOK
<1>7. ~early => assigned = Mine
  BY <1>1 DEF IInv, AllLookedUp
<1>8. AllLookedUp'
  BY <1>1, <1>2, <1>7 DEF AllLookedUp
<1>9. program = "client" /\ Mine = Threads /\ First(t) \in Mine /\ Second(t) \in Mine
      /\ First(t) # t /\ Second(t) # t
  <2>1. program = "client"
    BY <1>1 DEF IInv, SeenTo
  <2>2. QED
    BY <2>1, Orders DEF IInv, TypeOK, Threads, Programs, First, Second
<1>10. ~early => Gone(Second(t))'
  BY <1>1, <1>6, <1>7, <1>9, CancelledIsGone DEF IInv, Gone
<1>11. \A u \in Threads : Gone(u) => Gone(u)'
  BY <1>1, <1>4, <1>6 DEF Gone
<1>12. SeenTo'
  <2> SUFFICES ASSUME NEW s \in Threads, tpc'[s] \in {"cancel2", "gui"}
               PROVE  ~early => Gone(First(s))' /\ (tpc'[s] = "gui" => Gone(Second(s))')
    BY <1>1, <1>9 DEF SeenTo, First, Second, Gone
  <2>1. CASE s = t
    <3>1. ~early => Gone(First(t))
      BY <1>1 DEF IInv, SeenTo
    <3>2. QED
      BY <2>1, <3>1, <1>9, <1>10, <1>11
  <2>2. CASE s # t
    <3>1. First(s) \in Threads /\ Second(s) \in Threads
      BY DEF First, Second, Threads
    <3>2. QED
      BY <2>2, <3>1, <1>6, <1>11 DEF IInv, SeenTo
  <2>3. QED
    BY <2>1, <2>2
<1>13. Cancelling'
  BY <1>6 DEF Cancelling
<1>14. NobodyIsForgotten'
  <2> SUFFICES ASSUME ~early, \E s \in Threads : tpc'[s] = "dead"
               PROVE  /\ \A u \in Mine :
                            \/ tpc'[u] = "dead" \/ ShuttingDown(u)' \/ u \in cancelled'
                            \/ \E s \in Threads : WillCancel(s, u)'
                      /\ ~runGui \/ \E s \in Threads : ShuttingDown(s)'
    BY <1>1, <1>2, <1>9 DEF NobodyIsForgotten, Mine
  <2>1. \E s \in Threads : tpc[s] = "dead"
    BY <1>6
  <2>2. ShuttingDown(t)'
    BY <1>6 DEF ShuttingDown
  <2>3. ASSUME NEW u \in Mine
        PROVE  \/ tpc'[u] = "dead" \/ ShuttingDown(u)' \/ u \in cancelled'
               \/ \E s \in Threads : WillCancel(s, u)'
    <3>1. \/ tpc[u] = "dead" \/ ShuttingDown(u) \/ u \in cancelled
          \/ \E s \in Threads : WillCancel(s, u)
      BY <2>1 DEF IInv, NobodyIsForgotten, Mine
    <3>2. Gone(u) \/ ShuttingDown(u) => Gone(u)' \/ ShuttingDown(u)'
      BY <1>6, <1>9, <1>11 DEF ShuttingDown
    <3>3. ASSUME NEW s \in Threads, WillCancel(s, u)
          PROVE  Gone(u)' \/ WillCancel(s, u)'
      <4>1. CASE s = t
        BY <4>1, <3>3, <1>1, <1>10 DEF WillCancel
      <4>2. CASE s # t
        BY <4>2, <3>3, <1>1, <1>6 DEF WillCancel, First, Second
      <4>3. QED
        BY <4>1, <4>2
    <3>4. QED
      BY <3>1, <3>2, <3>3 DEF Gone
  <2>4. QED
    BY <2>2, <2>3
<1>15. QED
  BY <1>3, <1>5, <1>8, <1>12, <1>13, <1>14 DEF IInv

\* A client's thread tells the GUI last, and all others are gone.
LEMMA StopGuiIInv ==
    ASSUME IInv, NEW t \in Threads, StopGui(t)
    PROVE  IInv'
<1>1. /\ tpc[t] = "gui" /\ tpc' = [tpc EXCEPT ![t] = "dead"] /\ runGui' = FALSE
      /\ UNCHANGED <<program, useGui, mpc, next, assigned, cancelled, serverUp, early>>
  BY DEF StopGui, kind
<1>2. Order' = Order /\ Mine' = Mine
  BY <1>1, SameOrder
<1>3. Created' /\ tpc' \in [Threads -> ThreadPCs] /\ \A u \in assigned : tpc'[u] # "none"
  BY <1>1, ThreadKeepsCreated DEF IInv, ThreadPCs
<1>4. TypeOK'
  BY <1>1, <1>2, <1>3 DEF IInv, TypeOK
<1>5. tpc'[t] = "dead" /\ \A u \in Threads \ {t} : tpc'[u] = tpc[u]
  BY <1>1 DEF IInv, TypeOK
<1>6. AllLookedUp'
  BY <1>1, <1>2, <1>5 DEF IInv, AllLookedUp
<1>7. \A u \in Threads : Gone(u) => Gone(u)'
  BY <1>1, <1>5 DEF Gone
<1>8. SeenTo'
  <2>1. \A s \in Threads : First(s) \in Threads /\ Second(s) \in Threads
    BY DEF First, Second, Threads
  <2>2. \A s \in Threads : tpc'[s] \in {"cancel2", "gui"} => tpc'[s] = tpc[s]
    BY <1>5
  <2>3. \A s \in Threads : First(s)' = First(s) /\ Second(s)' = Second(s)
    BY DEF First, Second
  <2>4. QED
    BY <1>1, <1>7, <2>1, <2>2, <2>3 DEF IInv, SeenTo, First, Second, Gone
<1>9. Cancelling'
  BY <1>1, <1>5 DEF Cancelling
<1>10. NobodyIsForgotten'
  <2>1. program = "client" /\ Mine = Threads
    <3>1. program = "client"
      BY <1>1 DEF IInv, SeenTo
    <3>2. QED
      BY <3>1, Orders DEF IInv, TypeOK
  <2>2. ASSUME ~early, NEW u \in Mine PROVE Gone(u)'
    <3>1. Gone(First(t)) /\ Gone(Second(t))
      BY <1>1, <2>2 DEF IInv, SeenTo
    <3>2. u = t \/ u = First(t) \/ u = Second(t)
      BY <2>1 DEF Threads, First, Second
    <3>3. QED
      BY <3>1, <3>2, <1>5, <1>7, <2>1 DEF Gone
  <2>3. ~early => \A u \in Mine : tpc'[u] = "dead" \/ u \in cancelled'
    BY <2>2 DEF Gone
  <2>4. QED
    BY <1>1, <1>2, <2>3, Zenon DEF NobodyIsForgotten, Mine
<1>11. QED
  BY <1>3, <1>4, <1>6, <1>8, <1>9, <1>10 DEF IInv

\* Whoever cancelled a thread that ends is at work on the rest, or is done.
LEMMA ActOnCancelIInv ==
    ASSUME IInv, NEW t \in Threads, ActOnCancel(t)
    PROVE  IInv'
<1>1. /\ t \in cancelled /\ tpc[t] \in {"running", "stopped"} /\ tpc' = [tpc EXCEPT ![t] = "dead"]
      /\ UNCHANGED <<program, useGui, mpc, next, runGui, assigned, cancelled, serverUp, early>>
  BY DEF ActOnCancel, kind
<1>2. Order' = Order /\ Mine' = Mine
  BY <1>1, SameOrder
<1>3. Created' /\ tpc' \in [Threads -> ThreadPCs] /\ \A u \in assigned : tpc'[u] # "none"
  BY <1>1, ThreadKeepsCreated DEF IInv, ThreadPCs
<1>4. TypeOK'
  BY <1>1, <1>2, <1>3 DEF IInv, TypeOK
<1>5. tpc'[t] = "dead" /\ \A u \in Threads \ {t} : tpc'[u] = tpc[u]
  BY <1>1 DEF IInv, TypeOK
<1>6. AllLookedUp'
  BY <1>1, <1>2, <1>5 DEF IInv, AllLookedUp
<1>7. \A u \in Threads : Gone(u) => Gone(u)'
  BY <1>1, <1>5 DEF Gone
<1>8. SeenTo'
  <2>1. \A s \in Threads : First(s) \in Threads /\ Second(s) \in Threads
    BY DEF First, Second, Threads
  <2>2. \A s \in Threads : tpc'[s] \in {"cancel2", "gui"} => tpc'[s] = tpc[s]
    BY <1>5
  <2>3. \A s \in Threads : First(s)' = First(s) /\ Second(s)' = Second(s)
    BY DEF First, Second
  <2>4. QED
    BY <1>1, <1>7, <2>1, <2>2, <2>3 DEF IInv, SeenTo, First, Second, Gone
<1>9. Cancelling'
  BY <1>1, <1>5 DEF Cancelling
<1>10. NobodyIsForgotten'
  <2> SUFFICES ASSUME ~early
               PROVE  /\ \A u \in Mine :
                            \/ tpc'[u] = "dead" \/ ShuttingDown(u)' \/ u \in cancelled'
                            \/ \E s \in Threads : WillCancel(s, u)'
                      /\ program = "client" => ~runGui \/ \E s \in Threads : ShuttingDown(s)'
    BY <1>1, <1>2 DEF NobodyIsForgotten, Mine
  <2>1. Mine \subseteq Threads
    BY Orders DEF IInv, TypeOK, Threads, Programs
  <2>2. \A s, u \in Threads : WillCancel(s, u) => WillCancel(s, u)'
    BY <1>1, <1>5 DEF WillCancel, First, Second
  <2>3. \A s \in Threads : ShuttingDown(s) => ShuttingDown(s)'
    BY <1>1, <1>5 DEF ShuttingDown
  <2>4. CASE \E s \in Threads : tpc[s] = "dead"
    <3>1. /\ \A u \in Mine :
                \/ tpc[u] = "dead" \/ ShuttingDown(u) \/ u \in cancelled
                \/ \E s \in Threads : WillCancel(s, u)
          /\ program = "client" => ~runGui \/ \E s \in Threads : ShuttingDown(s)
      BY <2>4 DEF IInv, NobodyIsForgotten, Mine
    <3>2. \A u \in Mine : tpc[u] = "dead" => tpc'[u] = "dead"
      BY <1>5, <2>1
    <3>3. QED
      BY <3>1, <3>2, <2>1, <2>2, <2>3, <1>1
  <2>5. CASE \A s \in Threads : tpc[s] # "dead"
    <3>1. PICK s \in Threads : tpc[s] \in {"cancel2", "gui"}
      BY <1>1, <2>5 DEF IInv, Cancelling
    <3>2. /\ program = "client" /\ Gone(First(s)) /\ (tpc[s] = "gui" => Gone(Second(s)))
      BY <3>1 DEF IInv, SeenTo
    <3>3. ShuttingDown(s)' /\ (tpc[s] = "cancel2" => WillCancel(s, Second(s))')
      BY <3>1, <1>1, <1>5 DEF ShuttingDown, WillCancel, Second
    <3>4. \A u \in Threads : u = s \/ u = First(s) \/ u = Second(s)
      BY DEF Threads, First, Second
    <3>5. ASSUME NEW u \in Mine
          PROVE  \/ tpc'[u] = "dead" \/ ShuttingDown(u)' \/ u \in cancelled'
                 \/ \E r \in Threads : WillCancel(r, u)'
      <4>1. CASE u = s
        BY <4>1, <3>3
      <4>2. CASE u = First(s)
        BY <4>2, <3>2, <1>7, <2>1 DEF Gone
      <4>3. CASE u = Second(s)
        <5>1. Gone(u) \/ WillCancel(s, Second(s))'
          BY <4>3, <3>1, <3>2, <3>3
        <5>2. Gone(u) => Gone(u)'
          BY <1>7, <2>1
        <5>3. WillCancel(s, Second(s))' => WillCancel(s, u)'
          BY <4>3, <1>1 DEF WillCancel, First, Second
        <5>4. QED
          BY <5>1, <5>2, <5>3 DEF Gone
      <4>4. QED
        BY <4>1, <4>2, <4>3, <3>4, <2>1
    <3>6. QED
      BY <3>3, <3>5
  <2>6. QED
    BY <2>4, <2>5
<1>11. QED
  BY <1>3, <1>4, <1>6, <1>8, <1>9, <1>10 DEF IInv
-----------------------------------------------------------------------------
(* The invariant, and the theorems *)

\* Every step preserves the invariant.
LEMMA Inductive == IInv /\ [Next]_vars => IInv'
<1> SUFFICES ASSUME IInv, [Next]_vars PROVE IInv'
  OBVIOUS
<1>1. CASE Main \/ ExportList
  BY <1>1, MainAloneIInv, CreateThreadIInv, AssignThreadIInv DEF Main
<1>2. CASE ServerEnds \/ Finished \/ UNCHANGED vars
  BY <1>2, OutsideIInv DEF Finished
<1>3. ASSUME NEW t \in Threads, LoopEnds(t) \/ Stop(t) PROVE IInv'
  BY <1>3, LoopEndsIInv, BeginShutdownIInv, CancelFirstIInv, CancelSecondIInv,
     StopGuiIInv, ActOnCancelIInv DEF Stop
<1>4. QED
  BY <1>1, <1>2, <1>3 DEF Next

\* The invariant holds throughout.
LEMMA InvariantHolds == Spec => []IInv
<1>1. QED
  BY InitIInv, Inductive, PTL DEF Spec

\* A thread is only cancelled through a handle that is set, and the main thread
\* never looks past the threads of its program.
THEOREM TypeCorrect == Spec => []TypeOK
<1>1. IInv => TypeOK
  BY DEF IInv
<1>2. QED
  BY <1>1, InvariantHolds, PTL

\* When all threads were started before the first of them stopped, nobody is
\* left behind, and the GUI is told.
THEOREM AllAreStopped == Spec => []NobodyIsForgotten
<1>1. IInv => NobodyIsForgotten
  BY DEF IInv
<1>2. QED
  BY <1>1, InvariantHolds, PTL
=============================================================================
