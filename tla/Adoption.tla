------------------------------ MODULE Adoption ------------------------------
(***************************************************************************)
(* What becomes of the draws of a user who leaves: Sessions, composed with *)
(* the queue that handlers (conn_handler.cpp:219) and timers (timing.cpp:  *)
(* 31) push to and the updater empties (updater.cpp:24-50).  One user is   *)
(* followed; nothing distinguishes him from the others.                    *)
(*                                                                         *)
(* Of the queue it matters what its newest payload does to his draws, for  *)
(* back() and pop() apply that one until the queue is empty or another is  *)
(* pushed, and never one that has another behind it (as in Replication).   *)
(* Undo, clear and other users' Selects, which may leave a user with fewer *)
(* draws than he made, are in Commands.                                    *)
(***************************************************************************)
EXTENDS Sessions

CONSTANT User

ASSUME UserHasAName == User \in Names

VARIABLES
    back,   \* what payload_queue.back() is until it is taken: his draw, the Adopt
            \* of his draws, or another payload that leaves them alone, if any
    owns    \* he has a draw in tagged_draw_vector that was made since the last Adopt

qvars == <<back, owns>>

\* The values they have besides those of Sessions.
QueueTypeOK == back \in {"draw", "adopt", "other"} /\ owns \in BOOLEAN

AdoptionInit == Init /\ back = "other" /\ owns = FALSE

-----------------------------------------------------------------------------
\* handle_payload pushes what the handler has read: a draw, or another action.
PushAction(h) ==
    /\ hpc[h] = "reading"
    /\ back' \in IF hname[h] = User THEN {"draw", "other"} ELSE {"other"}
    /\ UNCHANGED <<vars, owns>>

\* handle_timer pushes the Adopt of the name that it has read.
PushAdoptOfName(n) ==
    /\ PushAdopt(n)
    /\ back' = IF nname[n] = User THEN "adopt" ELSE "other"
    /\ UNCHANGED owns

\* Mutant: an Adopt is broadcast, but not made by the server itself.
TakePayload_NoAdopt ==
    /\ back # "other"
    /\ owns' = (owns \/ back = "draw")
    /\ back' = "other"
    /\ UNCHANGED vars

\* The updater applies the newest payload.
TakePayload ==
    /\ back # "other"
    /\ owns' = (back = "draw")
    /\ back' = "other"
    /\ UNCHANGED vars

\* Every other step pushes nothing.
SessionStep ==
    /\ \/ Main
       \/ \E h \in Handlers : Handler(h)
       \/ \E n \in Notifiers :
             \/ \E t \in TimerPtrs : Expire(n, t)
             \/ ReadTimerName(n) \/ EraseExpiredTimer(n)
    /\ UNCHANGED qvars

AdoptionNext ==
    \/ SessionStep
    \/ \E h \in Handlers : PushAction(h)
    \/ \E n \in Notifiers : PushAdoptOfName(n)
    \/ TakePayload

-----------------------------------------------------------------------------
\* Three conditions under which the code keeps what main.tex:898-901 says of the draws
\* of a user who left.  No send_full_list fails; no TimerData is put where a running
\* notification thread still has a stale address; and nothing is pushed behind the
\* Adopt before the updater takes it, for then it would never be applied.
ListsAreSent == \A h \in Handlers : hpc[h] = "sending" => hpc'[h] # "closing"

StaleAddressesRest ==
    \A n \in Notifiers, t \in TimerPtrs :
        nptr[n] = t /\ tname[t] = NoName => tname'[t] = NoName

AdoptIsPrompt == back = "adopt" => back' = "adopt" \/ TakePayload

\* The kernel lets every set timer expire and runs its notification thread.
\* The fairness of Expire is strong only because Notifiers is bounded.
TimersRun ==
    /\ \A t \in TimerPtrs : SF_vars(\E n \in Notifiers : Expire(n, t))
    /\ \A n \in Notifiers :
          WF_vars(ReadTimerName(n) \/ PushAdopt(n) \/ EraseExpiredTimer(n))

\* The updater works: clients read what it writes to them.
UpdaterRuns == WF_qvars(TakePayload)

ServedSpec ==
    /\ AdoptionInit
    /\ [][AdoptionNext /\ ListsAreSent /\ StaleAddressesRest /\ AdoptIsPrompt]_<<vars, qvars>>
    /\ TimersRun /\ UpdaterRuns

\* The server where a full list may fail, but the other two conditions are met.
ListsFailSpec ==
    AdoptionInit /\ [][AdoptionNext /\ StaleAddressesRest /\ AdoptIsPrompt]_<<vars, qvars>>

-----------------------------------------------------------------------------
(* Properties *)

\* Some draw of the user will be in the server's vector, his own and not adopted,
\* when the newest payload has been applied.
OwnsDraws == back = "draw" \/ (owns /\ back # "adopt")

\* main.tex:898-901: when a client disconnects its draws are adopted after five
\* minutes.  So a user who is gone and owns draws is awaited by a timer, or by
\* the notification thread that is about to adopt them.
DepartedAwaitAdoption ==
    OwnsDraws /\ User \notin users =>
        \/ \E t \in timers : tname[t] = User /\ t \in armed
        \/ \E n \in Notifiers :
              \/ npc[n] = "fired" /\ tname[nptr[n]] = User
              \/ npc[n] = "named" /\ nname[n] = User

\* The draws of a user who stays away are adopted in the end: an Adopt is not only
\* pushed, the updater applies it.
DepartedAreAdopted == (owns /\ User \notin users) ~> (~owns \/ User \in users)

\* As long as stale addresses rest, the user whose draws an expired timer is about to
\* adopt is away while the TimerData is in place (timing.cpp:23-31): only a user who
\* has come back meanwhile, so that server.cpp:157 has erased it, can lose draws to an
\* Adopt while he is connected.
AwaitedUsersAreAway ==
    \A n \in Notifiers : npc[n] = "named" /\ nptr[n] \in timers =>
        \A h \in Handlers :
            hpc[h] \in {"sending", "reading", "timing"} => hname[h] # nname[n]
=============================================================================
