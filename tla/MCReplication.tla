--------------------------- MODULE MCReplication ----------------------------
(* Replication of real drawings: two clients and three payloads, enough for  *)
(* a queue of two, a client that joins while another payload is broadcast,   *)
(* and one that leaves and comes back.  The model looks at a payload only to *)
(* tell who pushes it, so one sequence of them stands for the others.        *)
EXTENDS Replication, TLC

CONSTANTS c1, c2, u1, u2

C == INSTANCE Canvas

DrawBy(u, d) == [kind |-> "draw", username |-> u, draw |-> d]
TwoDraws == <<DrawBy(u1, "line"), DrawBy(u2, "text")>>
ThreePayloads ==
    <<DrawBy(u1, "line"), [kind |-> "adopt", username |-> u1], DrawBy(u2, "text")>>
AdoptPayloads == {p \in ToSet(ThreePayloads) : p.kind = "adopt"}
NoPayloads == {}

\* main.tex:1076-1079: the vectors of the clients and the server are the same.
\* So they are once nothing is queued, being sent or unread.
Quiet == queue = <<>> /\ upc = "waiting" /\ \A c \in Clients : wire[c] = <<>>

Converged ==
    Quiet => \A c \in Clients : Served(c) => C!Replay(view[c]) = C!Replay(applied)
=============================================================================
