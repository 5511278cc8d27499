---------------------------- MODULE FollowedLog -----------------------------
(***************************************************************************)
(* What the server promises to the clients that have its list (abstract).  *)
(* It makes mutations one after another and takes none back.  A client     *)
(* begins with a copy of what was made so far, and from then on makes one  *)
(* mutation at a time, each of which leaves it with a copy again.  A copy  *)
(* is a beginning of what the server made, in its order and without a gap; *)
(* one of its mutations at most may be there twice, once behind the other. *)
(***************************************************************************)
EXTENDS Naturals, Sequences

CONSTANTS Clients, Payloads

VARIABLES made,        \* the mutations the server has made
          following,   \* the clients that have their list
          view         \* the mutations each of these has made

vars == <<made, following, view>>

Init ==
    /\ made = <<>> /\ following = {}
    /\ view = [c \in Clients |-> <<>>]

Beginnings(log) == {SubSeq(log, 1, n) : n \in 0 .. Len(log)}

\* The first n of a log, the k-th of them twice.
WithRepeat(log, k, n) == SubSeq(log, 1, k) \o SubSeq(log, k, n)

Copies(log) ==
    Beginnings(log)
       \cup {WithRepeat(log, k, n) : k \in 1 .. Len(log), n \in 0 .. Len(log)}

Make ==
    /\ \E p \in Payloads : made' = Append(made, p)
    /\ UNCHANGED <<following, view>>

Enter(c) ==
    /\ c \notin following
    /\ following' = following \cup {c}
    /\ \E log \in Beginnings(made) : view' = [view EXCEPT ![c] = log]
    /\ UNCHANGED made

Follow(c) ==
    /\ c \in following
    /\ \E p \in Payloads :
          /\ Append(view[c], p) \in Copies(made)
          /\ view' = [view EXCEPT ![c] = Append(@, p)]
    /\ UNCHANGED <<made, following>>

Leave(c) ==
    /\ c \in following
    /\ following' = following \ {c}
    /\ view' = [view EXCEPT ![c] = <<>>]
    /\ UNCHANGED made

Next == Make \/ \E c \in Clients : Enter(c) \/ Follow(c) \/ Leave(c)

Spec == Init /\ [][Next]_vars
=============================================================================
