------------------------ MODULE DoubleInstanceProofs ------------------------
(***************************************************************************)
(* Proofs that the double instance locking works, for any number of        *)
(* threads that look and any number of mutations.                          *)
(*                                                                         *)
(* The invariant behind all of it is `InStep': outside the two writes the  *)
(* vectors are equal or vec1 is one mutation ahead, so a thread whose      *)
(* first try-lock fails (the writer is in vec1) finds vec2 complete.       *)
(***************************************************************************)
EXTENDS DoubleInstance, TLAPS

\* How far apart the vectors are, by where the writer is.
InStep ==
    /\ wpc \in {"idle", "lock1", "write1"} => vec1 = vec2
    /\ wpc \in {"lock2", "write2"} => vec1 = vec2 + 1
    /\ wpc \in {"lock1", "write1"} => vec1 < MaxUpdates

\* What each thread may rely on, by where it is.
Floors ==
    \A r \in Readers :
        /\ got[r] <= vec1 /\ floor[r] <= vec1
        /\ rpc[r] \in {"try2", "read2"} => floor[r] <= vec2

IInv == TypeOK /\ InStep /\ Floors /\ NoTornLook

-----------------------------------------------------------------------------
\* The inductive invariant holds initially.
LEMMA InitIInv == Init => IInv
BY UpdatesAssumption DEF Init, IInv, TypeOK, InStep, Floors, NoTornLook

\* Every step of the writer preserves it.
LEMMA WriterIInv == IInv /\ Writer => IInv'
<1> SUFFICES ASSUME IInv, Writer PROVE IInv'
  OBVIOUS
<1> USE UpdatesAssumption DEF IInv, TypeOK, InStep, Floors, NoTornLook
<1>1. CASE Receive
  BY <1>1 DEF Receive
<1>2. CASE LockVec1
  BY <1>2 DEF LockVec1
<1>3. CASE UpdateVec1
  BY <1>3 DEF UpdateVec1
<1>4. CASE LockVec2
  BY <1>4 DEF LockVec2
<1>5. CASE UpdateVec2
  BY <1>5 DEF UpdateVec2
<1>6. QED
  BY <1>1, <1>2, <1>3, <1>4, <1>5 DEF Writer

\* Every step of a thread that looks preserves it.
LEMMA ReaderIInv ==
    ASSUME NEW r \in Readers, IInv, Reader(r)
    PROVE  IInv'
<1> USE DEF IInv, TypeOK, InStep, Floors, NoTornLook
<1>1. CASE StartLooking(r)
  BY <1>1 DEF StartLooking, Newer
<1>2. CASE TryLock1(r)
  BY <1>2 DEF TryLock1
<1>3. CASE LookAtVec1(r)
  BY <1>3 DEF LookAtVec1
<1>4. CASE TryLock2(r)
  BY <1>4 DEF TryLock2
<1>5. CASE LookAtVec2(r)
  BY <1>5 DEF LookAtVec2
<1>6. QED
  BY <1>1, <1>2, <1>3, <1>4, <1>5 DEF Reader

\* Every step keeps the invariant.
LEMMA Inductive == IInv /\ [Next]_vars => IInv'
<1> SUFFICES ASSUME IInv, [Next]_vars PROVE IInv'
  OBVIOUS
<1>1. CASE Writer
  BY <1>1, WriterIInv
<1>2. ASSUME NEW r \in Readers, Reader(r) PROVE IInv'
  BY <1>2, ReaderIInv
<1>3. CASE UNCHANGED vars
  BY <1>3 DEF vars, IInv, TypeOK, InStep, Floors, NoTornLook
<1>4. QED
  BY <1>1, <1>2, <1>3 DEF Next

\* The invariant holds throughout.
LEMMA InvariantHolds == Spec => []IInv
<1>1. QED
  BY InitIInv, Inductive, PTL DEF Spec

\* The variables of the client's threads keep their types.
THEOREM TypeCorrect == Spec => []TypeOK
<1>1. IInv => TypeOK
  BY DEF IInv
<1>2. QED
  BY InvariantHolds, <1>1, PTL

\* No thread looks at vec1 or vec2 while the reader thread changes it.
THEOREM NeverTorn == Spec => []NoTornLook
<1>1. IInv => NoTornLook
  BY DEF IInv
<1>2. QED
  BY InvariantHolds, <1>1, PTL

-----------------------------------------------------------------------------
\* The two vectors implement the regular register: a mutation begins when it is
\* made to vec1 and is complete when it is made to vec2.  So a thread never goes
\* back to an older drawing than it, or anyone, could already rely on, from
\* whichever of the two vectors it takes it.
THEOREM Refinement == Spec => IsRegularRegister
<1> USE UpdatesAssumption
<1>1. Init => Abstract!Init
  BY DEF Init, Abstract!Init
<1>2. IInv /\ [Next]_vars => [Abstract!Next]_(Abstract!vars)
  <2> SUFFICES ASSUME IInv, [Next]_vars PROVE [Abstract!Next]_(Abstract!vars)
    OBVIOUS
  <2> DEFINE looking == {r \in Readers : rpc[r] # "out"}
  <2> USE DEF IInv, TypeOK, InStep
  <2>1. CASE Receive \/ LockVec1 \/ LockVec2 \/ UNCHANGED vars
    BY <2>1 DEF Receive, LockVec1, LockVec2, vars, Abstract!vars
  <2>2. CASE UpdateVec1
    BY <2>2 DEF UpdateVec1, Abstract!Next, Abstract!Begin
  <2>3. CASE UpdateVec2
    BY <2>3 DEF UpdateVec2, Abstract!Next, Abstract!Complete
  <2>4. ASSUME NEW r \in Readers, StartLooking(r) PROVE Abstract!Look(r)
    <3>1. r \notin looking /\ looking' = looking \cup {r}
      BY <2>4 DEF StartLooking
    <3>2. QED
      BY <2>4, <3>1 DEF StartLooking, Abstract!Look, Newer, Abstract!Newer
  <2>5. ASSUME NEW r \in Readers, TryLock1(r) \/ TryLock2(r)
        PROVE  UNCHANGED Abstract!vars
    <3>1. looking' = looking
      BY <2>5 DEF TryLock1, TryLock2
    <3>2. QED
      BY <2>5, <3>1 DEF TryLock1, TryLock2, Abstract!vars
  <2>6. ASSUME NEW r \in Readers, LookAtVec1(r) \/ LookAtVec2(r)
        PROVE  Abstract!See(r)
    <3>1. r \in looking /\ looking' = looking \ {r}
      BY <2>6 DEF LookAtVec1, LookAtVec2
    <3>2. \E v \in floor[r] .. vec1 : got' = [got EXCEPT ![r] = v]
      BY <2>6 DEF LookAtVec1, LookAtVec2, Floors
    <3>3. QED
      BY <2>6, <3>1, <3>2 DEF LookAtVec1, LookAtVec2, Abstract!See
  <2>7. QED
    BY <2>1, <2>2, <2>3, <2>4, <2>5, <2>6
       DEF Next, Writer, Reader, Abstract!Next
<1>3. QED
  BY <1>1, <1>2, InvariantHolds, PTL DEF Spec, IsRegularRegister, Abstract!Spec
=============================================================================
