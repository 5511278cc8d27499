--------------------------- MODULE SharedDrawing ----------------------------
(***************************************************************************)
(* What the two copies of the drawing in the client promise to the threads *)
(* that look at it (abstract).  Updates are numbered; one is at work at a  *)
(* time.  A reader sees a drawing no older than the last update completed  *)
(* when it began to look, no older than what it saw before, and no newer   *)
(* than the last update begun.  Two readers need not see an unfinished     *)
(* update in the same order: the register is regular, not atomic.          *)
(***************************************************************************)
EXTENDS Integers

CONSTANTS Readers, MaxUpdates

VARIABLES begun, completed,  \* how many updates have begun, have been completed
          looking,           \* the readers that are looking
          floor,             \* the oldest drawing each of them may see
          got                \* the drawing each saw last

vars == <<begun, completed, looking, floor, got>>

Init ==
    /\ begun = 0 /\ completed = 0
    /\ looking = {}
    /\ floor = [r \in Readers |-> 0]
    /\ got = [r \in Readers |-> 0]

Begin ==
    /\ begun = completed /\ begun < MaxUpdates
    /\ begun' = begun + 1
    /\ UNCHANGED <<completed, looking, floor, got>>

Complete ==
    /\ completed < begun
    /\ completed' = begun
    /\ UNCHANGED <<begun, looking, floor, got>>

Newer(x, y) == IF x > y THEN x ELSE y

Look(r) ==
    /\ r \notin looking
    /\ looking' = looking \cup {r}
    /\ floor' = [floor EXCEPT ![r] = Newer(got[r], completed)]
    /\ UNCHANGED <<begun, completed, got>>

See(r) ==
    /\ r \in looking
    /\ looking' = looking \ {r}
    /\ \E v \in floor[r] .. begun : got' = [got EXCEPT ![r] = v]
    /\ UNCHANGED <<begun, completed, floor>>

Next == Begin \/ Complete \/ \E r \in Readers : Look(r) \/ See(r)

Spec == Init /\ [][Next]_vars
=============================================================================
