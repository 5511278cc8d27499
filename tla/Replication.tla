---------------------------- MODULE Replication -----------------------------
(***************************************************************************)
(* How a mutation reaches every client: the payload queue and the updater  *)
(* thread of the server (src/src/server/updater.cpp), the handlers that    *)
(* push to the queue and send the full list to a new client                *)
(* (conn_handler.cpp), and the reader thread of each client                *)
(* (src/src/client/reader.cpp).                                            *)
(*                                                                         *)
(* update_mutex guards the queue and the server's vector, connections_mutex*)
(* the connections while an update is written to them.  The updater holds  *)
(* them one after the other, and never together.                           *)
(*                                                                         *)
(* A vector is represented by the payloads it was made from: `applied' for *)
(* the server's, `view' for each client's.  Canvas!Replay turns such a log *)
(* into the vector.                                                        *)
(***************************************************************************)
EXTENDS Naturals, SequencesExt

CONSTANTS
    Clients,    \* client slots; a client that comes back starts empty
    Pushes,     \* the sequence of the payloads that are pushed, all different
    Adopts,     \* those that a timer pushes; a handler pushes the others
    None        \* no payload

Payloads == ToSet(Pushes)

ASSUME PushesAreASequence == Pushes \in Seq(Payloads)
ASSUME PushesAreDistinct == IsInjective(Pushes)
ASSUME AdoptsArePayloads == Adopts \subseteq Payloads
ASSUME NoneIsFresh == None \notin Payloads

VARIABLES
    queue, applied,            \* share::payload_queue, share::tagged_draw_vector
    upc, payload, unsent,      \* the updater, and whom it has yet to write to
    connections,               \* share::connections
    hpc,                       \* the handler of each client
    gone,                      \* clients whose process has ended
    wire, view,                \* what a client has yet to read, and has read
    pushed,                    \* how many of Pushes have been pushed
    overtaken                  \* history: was a payload ever pushed behind another

cvars == <<connections, hpc, gone, wire, view>>
uvars == <<upc, payload, unsent>>
vars  == <<queue, applied, uvars, cvars, pushed, overtaken>>

ListMessage(log) == [kind |-> "list", log |-> log]
UpdateMessage(p) == [kind |-> "update", payload |-> p]

Logs == Seq(Payloads)
Messages == [kind : {"list"}, log : Logs] \cup [kind : {"update"}, payload : Payloads]

TypeOK ==
    /\ queue \in Logs /\ applied \in Logs /\ overtaken \in BOOLEAN
    /\ pushed \in 0 .. Len(Pushes)
    /\ upc \in {"waiting", "applied", "broadcasting"}
    /\ payload \in Payloads \cup {None}
    /\ upc # "waiting" => payload \in Payloads
    /\ unsent \subseteq connections /\ connections \subseteq Clients
    /\ hpc \in [Clients -> {"none", "sending", "reading", "closing"}]
    /\ gone \subseteq Clients
    /\ wire \in [Clients -> Seq(Messages)]
    /\ view \in [Clients -> Logs]

Init ==
    /\ queue = <<>> /\ applied = <<>> /\ pushed = 0 /\ overtaken = FALSE
    /\ upc = "waiting" /\ payload = None /\ unsent = {}
    /\ connections = {} /\ gone = {}
    /\ hpc = [c \in Clients |-> "none"]
    /\ wire = [c \in Clients |-> <<>>]
    /\ view = [c \in Clients |-> <<>>]

-----------------------------------------------------------------------------
(* The payload queue: handlers and timers push under update_mutex *)

Push ==
    /\ pushed < Len(Pushes)
    /\ queue' = Append(queue, Pushes[pushed + 1])
    /\ pushed' = pushed + 1
    /\ overtaken' = (overtaken \/ queue # <<>>)
    /\ UNCHANGED <<applied, uvars, cvars>>

NextIsAdopt == pushed < Len(Pushes) /\ Pushes[pushed + 1] \in Adopts

\* ConnHandler::handle_payload
PushAction(c) == hpc[c] = "reading" /\ ~NextIsAdopt /\ Push

\* handle_timer
PushAdopt == NextIsAdopt /\ Push

-----------------------------------------------------------------------------
(* The updater *)

\* Mutant: the vector is left as it was.
ApplyPayload_Skips(p) == applied' = applied

ApplyPayload(p) == applied' = Append(applied, p)

\* Mutant: the pop is forgotten.
Popped_Not(q) == q

Popped(q) == Tail(q)

\* `payload = payload_queue.back(); payload_queue.pop();' takes the newest
\* payload and removes the oldest.
TakePayload ==
    /\ upc = "waiting" /\ queue # <<>>
    /\ payload' = Last(queue)
    /\ queue' = Popped(queue)
    /\ ApplyPayload(Last(queue))
    /\ upc' = "applied"
    /\ UNCHANGED <<unsent, cvars, pushed, overtaken>>

\* The updater has released update_mutex and takes connections_mutex.
BeginBroadcast ==
    /\ upc = "applied"
    /\ upc' = "broadcasting"
    /\ unsent' = connections
    /\ UNCHANGED <<queue, applied, payload, cvars, pushed, overtaken>>

\* Mutant: the first write that fails ends the loop over the connections.
SendUpdate_StopsAtFailure(c) ==
    /\ upc = "broadcasting" /\ c \in unsent
    /\ wire' = IF c \in gone THEN wire
               ELSE [wire EXCEPT ![c] = Append(@, UpdateMessage(payload))]
    /\ unsent' = IF c \in gone THEN {} ELSE unsent \ {c}
    /\ UNCHANGED <<queue, applied, upc, payload, connections, hpc, gone, view, pushed, overtaken>>

\* A write to a client that is gone fails, and is only logged.
SendUpdate(c) ==
    /\ upc = "broadcasting" /\ c \in unsent
    /\ wire' = IF c \in gone THEN wire
               ELSE [wire EXCEPT ![c] = Append(@, UpdateMessage(payload))]
    /\ unsent' = unsent \ {c}
    /\ UNCHANGED <<queue, applied, upc, payload, connections, hpc, gone, view, pushed, overtaken>>

EndBroadcast ==
    /\ upc = "broadcasting" /\ unsent = {}
    /\ upc' = "waiting" /\ payload' = None
    /\ UNCHANGED <<queue, applied, unsent, cvars, pushed, overtaken>>

\* Mutant: the connections are changed without their mutex.
ConnectionsFree_Ignored == TRUE

\* connections_mutex is not held by the updater.
ConnectionsFree == upc # "broadcasting"

-----------------------------------------------------------------------------
(* The session of client c *)

\* The main thread registers the connection, then spawns the handler.
Join(c) ==
    /\ hpc[c] = "none" /\ ConnectionsFree
    /\ connections' = connections \cup {c}
    /\ hpc' = [hpc EXCEPT ![c] = "sending"]
    /\ UNCHANGED <<queue, applied, uvars, gone, wire, view, pushed, overtaken>>

\* The vector is copied and written under update_mutex, which the updater
\* never holds between two of its steps.
SendFullList(c) ==
    /\ hpc[c] = "sending" /\ c \notin gone
    /\ wire' = [wire EXCEPT ![c] = Append(@, ListMessage(applied))]
    /\ hpc' = [hpc EXCEPT ![c] = "reading"]
    /\ UNCHANGED <<queue, applied, uvars, connections, gone, view, pushed, overtaken>>

\* send_full_list fails, or the read loop ends: on a time-out, or because the
\* client is gone.
EndSession(c) ==
    /\ \/ hpc[c] = "sending" /\ c \in gone
       \/ hpc[c] = "reading"
    /\ hpc' = [hpc EXCEPT ![c] = "closing"]
    /\ UNCHANGED <<queue, applied, uvars, connections, gone, wire, view, pushed, overtaken>>

\* connections.erase closes the socket, which ends the client if it still runs.
CloseConnection(c) ==
    /\ hpc[c] = "closing" /\ ConnectionsFree
    /\ connections' = connections \ {c}
    /\ hpc' = [hpc EXCEPT ![c] = "none"]
    /\ gone' = gone \ {c}
    /\ wire' = [wire EXCEPT ![c] = <<>>]
    /\ view' = [view EXCEPT ![c] = <<>>]
    /\ UNCHANGED <<queue, applied, uvars, pushed, overtaken>>

\* The client's process ends, of its own accord or not.
Leave(c) ==
    /\ hpc[c] # "none" /\ c \notin gone
    /\ gone' = gone \cup {c}
    /\ wire' = [wire EXCEPT ![c] = <<>>]
    /\ view' = [view EXCEPT ![c] = <<>>]
    /\ UNCHANGED <<queue, applied, uvars, connections, hpc, pushed, overtaken>>

\* Mutant: the list is added to what the vector holds already.
AfterMessage_Adds(log, m) == IF m.kind = "list" THEN log \o m.log ELSE Append(log, m.payload)

\* What Reader::handle_payload makes of the client's vector.
AfterMessage(log, m) == IF m.kind = "list" THEN m.log ELSE Append(log, m.payload)

ReadMessage(c) ==
    /\ wire[c] # <<>>
    /\ view' = [view EXCEPT ![c] = AfterMessage(@, Head(wire[c]))]
    /\ wire' = [wire EXCEPT ![c] = Tail(@)]
    /\ UNCHANGED <<queue, applied, uvars, connections, hpc, gone, pushed, overtaken>>

-----------------------------------------------------------------------------
Updater == TakePayload \/ BeginBroadcast \/ EndBroadcast \/ \E c \in Clients : SendUpdate(c)

Session(c) ==
    \/ Join(c) \/ SendFullList(c) \/ EndSession(c) \/ CloseConnection(c)
    \/ Leave(c) \/ ReadMessage(c)

Next ==
    \/ Updater
    \/ \E c \in Clients : Session(c) \/ PushAction(c)
    \/ PushAdopt

\* The updater thread runs whenever it can, a handler sends its list and a
\* client reads what has arrived.  Nobody has to push, join or leave.
Fairness ==
    /\ WF_vars(Updater)
    /\ \A c \in Clients : WF_vars(SendFullList(c)) /\ WF_vars(ReadMessage(c))

Spec == Init /\ [][Next]_vars /\ Fairness

-----------------------------------------------------------------------------
(* Properties *)

\* c has been sent the full list and its client has not gone since.
Served(c) == hpc[c] \in {"reading", "closing"} /\ c \notin gone

\* The last payload of `applied' is still on its way to c.
Owed(c) == upc = "applied" \/ (upc = "broadcasting" /\ c \in unsent)

IsList(m) == m.kind = "list"

\* What becomes of a vector when all these messages are read: it is replaced by
\* the last list among them, and the updates behind that are made to it.
AfterMessages(log, messages) ==
    LET n == SelectLastInSeq(messages, IsList)
    IN  (IF n = 0 THEN log ELSE messages[n].log)
           \o [i \in 1 .. Len(messages) - n |-> messages[n + i].payload]

\* What c's vector is made from once it has read everything sent to it.
Final(c) == AfterMessages(view[c], wire[c])

\* n payloads of the log, the k-th of them twice in a row.
WithRepeat(log, k, n) == SubSeq(log, 1, k) \o SubSeq(log, k, n)

\* A client that has its list never misses a mutation, and makes them in the
\* server's order, however its arrival interleaves with the updater: only the
\* one that was being broadcast when the list was copied may be made twice.
ReplicaRepeatsAtMostOne ==
    \A c \in Clients : Served(c) =>
        LET due == IF Owed(c) THEN Len(applied) - 1 ELSE Len(applied)
        IN  \/ Final(c) = SubSeq(applied, 1, due)
            \/ \E k \in 1 .. Len(applied) :
                  k <= due + 1 /\ Final(c) = WithRepeat(applied, k, due)

\* The list that c was sent is behind it.
Following(c) == Served(c) /\ \A i \in DOMAIN wire[c] : ~IsList(wire[c][i])

Abstract == INSTANCE FollowedLog WITH
    made <- applied,
    following <- {c \in Clients : Following(c)},
    view <- [c \in Clients |-> IF Following(c) THEN view[c] ELSE <<>>]

\* A client that has its list is never set back: its drawing grows by one of the
\* server's mutations at a time, in the server's order, from a copy of what the
\* server had made; and what the server has made stays.
ImplementsFollowedLog == Abstract!Spec

\* The newest payload is never lost: it is applied, or still queued.
NewestSurvives ==
    pushed > 0 => Pushes[pushed] \in ToSet(applied) \cup ToSet(queue)

\* The updater applies every payload once, in the order they were pushed, as
\* long as it keeps up: as long as no payload was pushed behind another.
PromptUpdaterIsFIFO == ~overtaken => applied \o queue = SubSeq(Pushes, 1, pushed)

\* What the server has applied reaches the vector of every client it serves.
UpdatesArrive ==
    \A c \in Clients : []<>(Served(c) => ToSet(applied) \subseteq ToSet(view[c]))

\* main.tex:814-816: the updater updates the state of the server and sends the
\* update to all the clients.  So when it has nothing left to do, it has applied
\* every payload that was pushed.
NothingIsLost == queue = <<>> => ToSet(SubSeq(Pushes, 1, pushed)) \subseteq ToSet(applied)

=============================================================================
