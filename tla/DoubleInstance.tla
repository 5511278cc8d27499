--------------------------- MODULE DoubleInstance ---------------------------
(***************************************************************************)
(* The double instance locking of the client (src/src/client/share.hpp).   *)
(* The reader thread (reader.cpp) makes every mutation it receives twice:  *)
(* to vec1 under rwlock1 held for writing, then to vec2 under rwlock2.     *)
(* The GUI (gui.cpp) and the list command (input_handler.cpp) look at      *)
(* whichever vector they get to lock first, trying one and then the other. *)
(*                                                                         *)
(* A vector is represented by the number of mutations made to it.  The     *)
(* mutex the reader thread holds meanwhile is never contended: nobody else *)
(* takes it.                                                               *)
(***************************************************************************)
EXTENDS Integers

CONSTANTS
    Readers,     \* threads that look at the drawing: the GUI, the input handler
    MaxUpdates   \* bound on the mutations that arrive

ASSUME UpdatesAssumption == MaxUpdates \in Nat

VARIABLES
    wpc,         \* the reader thread of the client, which writes
    vec1, vec2,  \* share::vec1, share::vec2
    rpc,         \* the threads in Readers
    got,         \* history: what each of them saw last
    floor        \* history: the oldest drawing each may see

vars == <<wpc, vec1, vec2, rpc, got, floor>>

\* vec2 is never ahead of vec1.
TypeOK ==
    /\ wpc \in {"idle", "lock1", "write1", "lock2", "write2"}
    /\ vec1 \in 0 .. MaxUpdates /\ vec2 \in 0 .. vec1
    /\ rpc \in [Readers -> {"out", "try1", "read1", "try2", "read2"}]
    /\ got \in [Readers -> Nat]
    /\ floor \in [Readers -> Nat]

Init ==
    /\ wpc = "idle" /\ vec1 = 0 /\ vec2 = 0
    /\ rpc = [r \in Readers |-> "out"]
    /\ got = [r \in Readers |-> 0]
    /\ floor = [r \in Readers |-> 0]

-----------------------------------------------------------------------------
(* handle_payload, for any payload that changes the drawing *)

Receive ==
    /\ wpc = "idle" /\ vec1 < MaxUpdates
    /\ wpc' = "lock1"
    /\ UNCHANGED <<vec1, vec2, rpc, got, floor>>

\* wrlock waits until nobody holds the lock for reading.
LockVec1 ==
    /\ wpc = "lock1"
    /\ \A r \in Readers : rpc[r] # "read1"
    /\ wpc' = "write1"
    /\ UNCHANGED <<vec1, vec2, rpc, got, floor>>

UpdateVec1 ==
    /\ wpc = "write1"
    /\ vec1' = vec1 + 1
    /\ wpc' = "lock2"
    /\ UNCHANGED <<vec2, rpc, got, floor>>

LockVec2 ==
    /\ wpc = "lock2"
    /\ \A r \in Readers : rpc[r] # "read2"
    /\ wpc' = "write2"
    /\ UNCHANGED <<vec1, vec2, rpc, got, floor>>

\* Mutant: vec2 is updated twice.
UpdateVec2_Twice ==
    /\ wpc = "write2"
    /\ vec2' = vec2 + 2
    /\ wpc' = "idle"
    /\ UNCHANGED <<vec1, rpc, got, floor>>

UpdateVec2 ==
    /\ wpc = "write2"
    /\ vec2' = vec2 + 1
    /\ wpc' = "idle"
    /\ UNCHANGED <<vec1, rpc, got, floor>>

-----------------------------------------------------------------------------
(* A thread that looks at the drawing: Gui::draw_scene, or the list command *)

Newer(x, y) == IF x > y THEN x ELSE y

\* Mutant: the loop tries rwlock2 first.
StartLooking_SecondFirst(r) ==
    /\ rpc[r] = "out"
    /\ rpc' = [rpc EXCEPT ![r] = "try2"]
    /\ floor' = [floor EXCEPT ![r] = Newer(got[r], vec2)]
    /\ UNCHANGED <<wpc, vec1, vec2, got>>

StartLooking(r) ==
    /\ rpc[r] = "out"
    /\ rpc' = [rpc EXCEPT ![r] = "try1"]
    /\ floor' = [floor EXCEPT ![r] = Newer(got[r], vec2)]
    /\ UNCHANGED <<wpc, vec1, vec2, got>>

\* Mutant: the answer of the try-lock is not looked at.
TryLock1_Unchecked(r) ==
    /\ rpc[r] = "try1"
    /\ rpc' = [rpc EXCEPT ![r] = "read1"]
    /\ UNCHANGED <<wpc, vec1, vec2, got, floor>>

\* The try-lock fails exactly while the writer holds the lock.
TryLock1(r) ==
    /\ rpc[r] = "try1"
    /\ rpc' = [rpc EXCEPT ![r] = IF wpc = "write1" THEN "try2" ELSE "read1"]
    /\ UNCHANGED <<wpc, vec1, vec2, got, floor>>

\* Mutant: the loop starts again after the drawing has been looked at.
LookAtVec1_Continues(r) ==
    /\ rpc[r] = "read1"
    /\ got' = [got EXCEPT ![r] = vec1]
    /\ rpc' = [rpc EXCEPT ![r] = "try1"]
    /\ UNCHANGED <<wpc, vec1, vec2, floor>>

LookAtVec1(r) ==
    /\ rpc[r] = "read1"
    /\ got' = [got EXCEPT ![r] = vec1]
    /\ rpc' = [rpc EXCEPT ![r] = "out"]
    /\ UNCHANGED <<wpc, vec1, vec2, floor>>

TryLock2(r) ==
    /\ rpc[r] = "try2"
    /\ rpc' = [rpc EXCEPT ![r] = IF wpc = "write2" THEN "try1" ELSE "read2"]
    /\ UNCHANGED <<wpc, vec1, vec2, got, floor>>

LookAtVec2(r) ==
    /\ rpc[r] = "read2"
    /\ got' = [got EXCEPT ![r] = vec2]
    /\ rpc' = [rpc EXCEPT ![r] = "out"]
    /\ UNCHANGED <<wpc, vec1, vec2, floor>>

-----------------------------------------------------------------------------
Writer == Receive \/ LockVec1 \/ UpdateVec1 \/ LockVec2 \/ UpdateVec2

Reader(r) ==
    \/ StartLooking(r)
    \/ TryLock1(r) \/ LookAtVec1(r)
    \/ TryLock2(r) \/ LookAtVec2(r)

Next == Writer \/ \E r \in Readers : Reader(r)

Spec == Init /\ [][Next]_vars

\* A thread that looks at the drawing keeps running.  The writer need not: it
\* may wait for messages, or for a lock that overlapping readers pass around.
FairSpec ==
    /\ Spec
    /\ \A r \in Readers :
          WF_vars(TryLock1(r) \/ LookAtVec1(r) \/ TryLock2(r) \/ LookAtVec2(r))

-----------------------------------------------------------------------------
(* Properties *)

\* No thread looks at a vector while it is being changed.
NoTornLook ==
    \A r \in Readers : /\ rpc[r] = "read1" => wpc # "write1"
                       /\ rpc[r] = "read2" => wpc # "write2"

\* The two vectors are a regular register: a thread never looks at a drawing
\* older than one it saw before, nor older than the last mutation completed when
\* it started, whichever vector it gets and however the writer moves between
\* its two attempts.
Abstract == INSTANCE SharedDrawing WITH
    begun <- vec1, completed <- vec2,
    looking <- {r \in Readers : rpc[r] # "out"}

IsRegularRegister == Abstract!Spec

\* The loop over the two try-locks ends, unless writes never stop coming.
LooksEnd ==
    <>[](wpc \in {"idle", "lock1", "lock2"})
        => \A r \in Readers : (rpc[r] # "out") ~> (rpc[r] = "out")
=============================================================================
