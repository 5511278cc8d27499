---------------------------- MODULE MessagePipe -----------------------------
(***************************************************************************)
(* What a Channel promises to the thread that reads from it                *)
(* (src/src/common/channel.hpp): the messages that were written, whole and *)
(* in order, and an end of file only after the last of them.  It may end   *)
(* in another way at any time, with the rest lost, and it promises nothing *)
(* once two writes to it were torn.                                        *)
(***************************************************************************)
EXTENDS Naturals, Sequences

CONSTANT Messages

VARIABLES sent, got, ended, torn

vars == <<sent, got, ended, torn>>

Init == sent = <<>> /\ got = <<>> /\ ended = "no" /\ torn = FALSE

\* Nothing is written once the reader has been told that it is the end.
Send(m) ==
    /\ ended # "eof"
    /\ sent' = Append(sent, m)
    /\ UNCHANGED <<got, ended, torn>>

Receive ==
    /\ ended = "no" /\ Len(got) < Len(sent)
    /\ got' = Append(got, sent[Len(got) + 1])
    /\ UNCHANGED <<sent, ended, torn>>

EndOfFile ==
    /\ ended = "no" /\ got = sent
    /\ ended' = "eof"
    /\ UNCHANGED <<sent, got, torn>>

Fail ==
    /\ ended = "no"
    /\ ended' = "lost"
    /\ UNCHANGED <<sent, got, torn>>

Next ==
    \/ \E m \in Messages : Send(m)
    \/ Receive \/ EndOfFile \/ Fail
    \/ torn'

Spec == Init /\ [][Next]_vars
=============================================================================
