----------------------------- MODULE MCSessions -----------------------------
(* Sessions on two names, so that one can be refused, can return, and can be *)
(* confused with the other, and on handlers and descriptors to spare for a   *)
(* session that starts while another is still being cleaned up.              *)
EXTENDS Sessions, TLC

Symmetry ==
    Permutations(Names) \cup Permutations(Fds)
        \cup Permutations(Handlers) \cup Permutations(TimerPtrs)
=============================================================================
