--------------------------- MODULE CommandsProofs ---------------------------
(***************************************************************************)
(* Proofs about the commands of any number of users, whatever they type,   *)
(* and about what is read of the lines they type.                          *)
(***************************************************************************)
EXTENDS Commands, NaturalSets, SequenceTheorems, TLAPS

\* The log and the queues are sequences, of whatever is in them; each client has
\* a listing.
AreSequences ==
    /\ listing = [c \in Clients |-> listing[c]]
    /\ applied \in Seq(ToSet(applied))
    /\ queue = [c \in Clients |-> queue[c]]
    /\ \A c \in Clients : queue[c] \in Seq(ToSet(queue[c]))

\* A command that was made is no newer than the newest of its user that is
\* queued, or than the last that he sent.
MadeIsNoNewer ==
    \A i \in DOMAIN applied : ~IsAdopt(applied[i]) =>
        LET p == applied[i]
        IN  /\ p.nr \in Nat /\ p.nr <= typed[p.username]
            /\ queue[p.username] # <<>> => p.nr <= Last(queue[p.username]).nr

IInv == TypeOK /\ AreSequences /\ MadeIsNoNewer /\ NeverBackInTime

Drawings == [tool : Tools, colour : [1 .. 3 -> 0 .. 255], by : Clients, nr : Nat]

\* An entry is its last author's.
Entries == {e \in TaggedDraws(Clients, Drawings) : e.draw.by = e.username}

Vectors == Seq(Entries)

IsPayload(p) ==
    /\ p.kind \in Kinds /\ p.username \in Clients
    /\ p.kind \in {"draw", "select"} => p.draw \in Drawings /\ p.draw.by = p.username
    /\ p.kind \in {"select", "delete"} => p.id \in Int

IsLog(log) == log \in Seq(ToSet(log)) /\ \A k \in 1 .. Len(log) : IsPayload(log[k])

\* The first n commands leave d under this id, unless the k-th of them leaves
\* another drawing if it is made twice.
StandsFor(k, n, id, d) ==
    LET vector == Replay(SubSeq(applied, 1, n))
    IN  /\ n \in 0 .. Len(applied) /\ k \in 0 .. n /\ id \in Int
        /\ RepeatShows(k) \/ (InRange(vector, id) /\ vector[id + 1].draw = d)

\* What is sent and what is made is well-formed, and drawn by who sends it.
Sent == IsLog(applied) /\ \A c \in Clients : \A p \in ToSet(queue[c]) : IsPayload(p)

\* A listing shows what the client had made when it was printed.
Listed ==
    \A c \in Clients : \A l \in listing[c] : StandsFor(Repeated(c), seen[c], l.id, l.draw)

\* What a Select was meant for was once there.
MeantWasListed ==
    \A c \in Clients : \A p \in ToSet(queue[c]) : p.kind = "select" /\ p.meant # None =>
        StandsFor(p.meant.repeated, p.meant.seen, p.id, p.meant.draw)

DrawingInv ==
    /\ IInv /\ Sent /\ Listed /\ MeantWasListed
    /\ SelectHitsTheListed /\ OthersWorkSurvives /\ MineIsSinceAdoption
-----------------------------------------------------------------------------
(* Sequences of anything *)

\* A sequence is one of its own elements.
LEMMA OfItsElements ==
    ASSUME NEW S, NEW s \in Seq(S)
    PROVE  s \in Seq(ToSet(s))
BY DEF ToSet

\* What appending does to a sequence, whatever its elements.
LEMMA AppendTo ==
    ASSUME NEW s, s \in Seq(ToSet(s)), NEW e
    PROVE  /\ Append(s, e) \in Seq(ToSet(Append(s, e)))
           /\ Append(s, e) # <<>>
           /\ Last(Append(s, e)) = e
           /\ Len(Append(s, e)) = Len(s) + 1
           /\ DOMAIN Append(s, e) = DOMAIN s \cup {Len(s) + 1}
           /\ \A i \in DOMAIN s : Append(s, e)[i] = s[i]
           /\ Append(s, e)[Len(s) + 1] = e
           /\ ToSet(Append(s, e)) = ToSet(s) \cup {e}
<1> DEFINE S == ToSet(s) \cup {e}
<1>1. s \in Seq(S) /\ e \in S
  OBVIOUS
<1> HIDE DEF S
<1>2. Append(s, e) \in Seq(S) /\ Len(Append(s, e)) = Len(s) + 1 /\ Len(s) \in Nat
  BY <1>1, AppendProperties, LenProperties
<1>3. Append(s, e)[Len(s) + 1] = e /\ \A i \in 1 .. Len(s) : Append(s, e)[i] = s[i]
  BY <1>1, AppendProperties
<1>4. DOMAIN s = 1 .. Len(s) /\ DOMAIN Append(s, e) = 1 .. Len(s) + 1
  BY <1>1, <1>2, LenProperties
<1>5. 1 .. Len(s) + 1 = (1 .. Len(s)) \cup {Len(s) + 1}
  BY <1>2
<1>6. Append(s, e) # <<>> /\ Last(Append(s, e)) = e
  BY <1>2, <1>3, EmptySeq DEF Last
<1>7. ToSet(Append(s, e)) = ToSet(s) \cup {e}
  BY <1>3, <1>4, <1>5 DEF ToSet
<1>8. Append(s, e) \in Seq(ToSet(Append(s, e)))
  BY <1>2, OfItsElements
<1>9. QED
  BY <1>2, <1>3, <1>4, <1>5, <1>6, <1>7, <1>8

\* What taking the first element away does to one that is not empty.
LEMMA TailOf ==
    ASSUME NEW s, s \in Seq(ToSet(s)), s # <<>>
    PROVE  /\ Tail(s) \in Seq(ToSet(Tail(s)))
           /\ ToSet(Tail(s)) \subseteq ToSet(s)
           /\ Last(s) \in ToSet(s)
           /\ Tail(s) # <<>> => Last(Tail(s)) = Last(s)
<1> DEFINE S == ToSet(s)
<1>1. s \in Seq(S) /\ Len(s) \in Nat /\ Len(s) # 0 /\ DOMAIN s = 1 .. Len(s)
  BY EmptySeq, LenProperties
<1> HIDE DEF S
<1>2. /\ Tail(s) \in Seq(S) /\ Len(Tail(s)) = Len(s) - 1
      /\ \A i \in 1 .. Len(Tail(s)) : Tail(s)[i] = s[i + 1]
  BY <1>1, HeadTailProperties
<1>3. DOMAIN Tail(s) = 1 .. Len(s) - 1
  BY <1>2, LenProperties
<1>4. ToSet(Tail(s)) \subseteq ToSet(s)
  BY <1>1, <1>2, <1>3 DEF ToSet
<1>5. Last(s) \in ToSet(s)
  BY <1>1 DEF Last, ToSet
<1>6. Tail(s) # <<>> => Last(Tail(s)) = Last(s)
  <2>1. Tail(s) # <<>> => Len(Tail(s)) # 0
    BY <1>2, EmptySeq
  <2>2. QED
    BY <1>1, <1>2, <2>1 DEF Last
<1>7. Tail(s) \in Seq(ToSet(Tail(s)))
  BY <1>2, OfItsElements
<1>8. QED
  BY <1>4, <1>5, <1>6, <1>7
\* f is what a loop through a vector has collected, after each of its entries.
Collects(f, v, kept) ==
    /\ f[0] = <<>> /\ f[Len(v)] = Part(v, kept)
    /\ \A k \in 1 .. Len(v) :
          f[k] = IF k \in kept THEN Append(f[k - 1], v[k]) ELSE f[k - 1]

\* There is such an f.
LEMMA PartRecursion ==
    ASSUME NEW S, NEW v \in Seq(S), NEW kept
    PROVE  \E f \in [0 .. Len(v) -> Seq(S)] : Collects(f, v, kept)
<1> DEFINE n == Len(v)
           step == [k \in 1 .. n |-> [s \in Seq(S) |-> IF k \in kept THEN Append(s, v[k]) ELSE s]]
           Loop(g) == g = [k \in 0 .. n |-> IF k = 0 THEN <<>>
                                            ELSE IF k \in kept THEN Append(g[k - 1], v[k]) ELSE g[k - 1]]
<1>1. n \in Nat /\ <<>> \in Seq(S) /\ \A k \in 1 .. n : v[k] \in S
  BY LenProperties, EmptySeq, ElementOfSeq
<1>2. step \in [1 .. n -> [Seq(S) -> Seq(S)]]
  <2>1. \A k \in 1 .. n, s \in Seq(S) : Append(s, v[k]) \in Seq(S)
    BY <1>1, AppendProperties
  <2> HIDE DEF n
  <2>2. QED
    BY <2>1
<1> HIDE DEF n
<1>3. PICK f \in [0 .. n -> Seq(S)] : f[0] = <<>> /\ \A k \in 1 .. n : f[k] = step[k][f[k - 1]]
  <2> DEFINE V == Seq(S)
             none == <<>>
  <2>1. n \in Nat /\ none \in V /\ step \in Steps(n, V)
    BY <1>1, <1>2 DEF Steps
  <2> HIDE DEF step, V, none
  <2>2. \E f : Recursion(f, n, V, none, step)
    BY <2>1, RecursionUpTo
  <2>3. QED
    BY <2>2 DEF V, none, Recursion
<1>4. ASSUME NEW k \in 1 .. n
      PROVE  f[k] = IF k \in kept THEN Append(f[k - 1], v[k]) ELSE f[k - 1]
  <2>1. k - 1 \in 0 .. n
    BY <1>1
  <2>2. f[k - 1] \in Seq(S)
    BY <2>1, <1>3
  <2>3. QED
    BY <2>2, <1>3
<1>5. Loop(f)
  <2>1. \A k \in 0 .. n : f[k] = IF k = 0 THEN <<>>
                                 ELSE IF k \in kept THEN Append(f[k - 1], v[k]) ELSE f[k - 1]
    <3>1. \A k \in 0 .. n : k = 0 \/ k \in 1 .. n
      BY <1>1
    <3>2. QED
      BY <3>1, <1>3, <1>4
  <2>2. QED
    BY <2>1, <1>3
<1> DEFINE g == CHOOSE h : Loop(h)
<1>6. Loop(g)
  <2> HIDE DEF Loop
  <2>1. QED
    BY <1>5
<1>7. Part(v, kept) = g[n]
  BY DEF Part, n
<1> HIDE DEF g
<1>8. g[n] = f[n]
  <2> DEFINE T == {k \in 0 .. n : g[k] = f[k]}
  <2>1. 0 \in T
    BY <1>1, <1>3, <1>6
  <2>2. ASSUME NEW k \in 0 .. n - 1, k \in T PROVE k + 1 \in T
    <3>1. k + 1 \in 1 .. n /\ k + 1 \in 0 .. n /\ k + 1 # 0 /\ (k + 1) - 1 = k
      BY <1>1
    <3>2. g[k + 1] = IF k + 1 \in kept THEN Append(g[k], v[k + 1]) ELSE g[k]
      BY <1>6, <3>1
    <3>3. f[k + 1] = IF k + 1 \in kept THEN Append(f[k], v[k + 1]) ELSE f[k]
      BY <1>4, <3>1
    <3>4. QED
      BY <2>2, <3>1, <3>2, <3>3
  <2> HIDE DEF T
  <2>3. 0 .. n \subseteq T
    BY <1>1, <2>1, <2>2, InductionUpTo
  <2>4. n \in T
    BY <1>1, <2>3
  <2>5. QED
    BY <2>4 DEF T
<1>9. QED
  BY <1>3, <1>4, <1>7, <1>8 DEF n, Collects

\* Every entry that is collected is one that was kept.
LEMMA PartKeeps ==
    ASSUME NEW S, NEW v \in Seq(S), NEW kept
    PROVE  /\ Part(v, kept) \in Seq(S)
           /\ \A e \in ToSet(Part(v, kept)) : \E k \in 1 .. Len(v) : k \in kept /\ e = v[k]
<1> DEFINE n == Len(v)
<1>1. n \in Nat
  BY LenProperties
<1> HIDE DEF n
<1>0. PICK f \in [0 .. n -> Seq(S)] : Collects(f, v, kept)
  BY PartRecursion DEF n
<1>2. /\ f[0] = <<>> /\ f[n] = Part(v, kept)
      /\ \A k \in 1 .. n :
            f[k] = IF k \in kept THEN Append(f[k - 1], v[k]) ELSE f[k - 1]
  BY <1>0 DEF n, Collects
<1> DEFINE Taken(s) == \A e \in ToSet(s) : \E k \in 1 .. n : k \in kept /\ e = v[k]
           T == {k \in 0 .. n : Taken(f[k])}
<1>3. 0 \in T
  <2>1. ToSet(<<>>) = {}
    BY DEF ToSet
  <2>2. Taken(f[0])
    BY <1>2, <2>1
  <2> HIDE DEF Taken, n
  <2>3. QED
    BY <1>1, <2>2
<1> HIDE DEF n
<1>4. ASSUME NEW k \in 0 .. n - 1, k \in T PROVE k + 1 \in T
  <2>1. k + 1 \in 1 .. n /\ k + 1 \in 0 .. n /\ k \in 0 .. n /\ (k + 1) - 1 = k
    BY <1>1
  <2>2. f[k] \in Seq(S) /\ v[k + 1] \in S
    BY <1>2, <2>1, ElementOfSeq DEF n
  <2>3. CASE k + 1 \in kept
    <3>1. f[k + 1] = Append(f[k], v[k + 1])
      BY <1>2, <2>1, <2>3
    <3>2. ToSet(f[k + 1]) = ToSet(f[k]) \cup {v[k + 1]}
      BY <2>2, <3>1, OfItsElements, AppendTo
    <3>3. Taken(f[k + 1])
      BY <1>4, <2>1, <2>3, <3>2
    <3>4. QED
      BY <2>1, <3>3
  <2>4. CASE k + 1 \notin kept
    <3>1. f[k + 1] = f[k]
      BY <1>2, <2>1, <2>4
    <3>2. QED
      BY <1>4, <2>1, <3>1
  <2>5. QED
    BY <2>3, <2>4
<1> HIDE DEF T
<1>5. 0 .. n \subseteq T
  BY <1>1, <1>3, <1>4, InductionUpTo
<1>6. n \in T /\ n \in 0 .. n
  BY <1>1, <1>5
<1>7. Taken(Part(v, kept))
  BY <1>2, <1>6 DEF T
<1>8. QED
  BY <1>2, <1>6, <1>7 DEF n

\* To keep everything is to change nothing.
LEMMA PartOfAll ==
    ASSUME NEW S, NEW v \in Seq(S), NEW kept, 1 .. Len(v) \subseteq kept
    PROVE  Part(v, kept) = v
<1> DEFINE n == Len(v)
<1>1. n \in Nat
  BY LenProperties
<1> HIDE DEF n
<1>0. PICK f \in [0 .. n -> Seq(S)] : Collects(f, v, kept)
  BY PartRecursion DEF n
<1>2. /\ f[0] = <<>> /\ f[n] = Part(v, kept)
      /\ \A k \in 1 .. n :
            f[k] = IF k \in kept THEN Append(f[k - 1], v[k]) ELSE f[k - 1]
  BY <1>0 DEF n, Collects
<1> DEFINE T == {k \in 0 .. n : Len(f[k]) = k /\ \A i \in 1 .. k : f[k][i] = v[i]}
<1>3. 0 \in T
  BY <1>1, <1>2
<1> HIDE DEF n
<1>4. ASSUME NEW k \in 0 .. n - 1, k \in T PROVE k + 1 \in T
  <2>1. k + 1 \in 1 .. n /\ k + 1 \in 0 .. n /\ k \in 0 .. n /\ (k + 1) - 1 = k /\ k \in Nat
    BY <1>1
  <2>2. f[k] \in Seq(S) /\ v[k + 1] \in S
    BY <1>2, <2>1, ElementOfSeq DEF n
  <2>3. f[k + 1] = Append(f[k], v[k + 1])
    BY <1>2, <2>1 DEF n
  <2>4. Len(f[k]) = k /\ \A i \in 1 .. k : f[k][i] = v[i]
    BY <1>4
  <2>5. /\ Len(f[k + 1]) = k + 1 /\ f[k + 1][k + 1] = v[k + 1]
        /\ \A i \in 1 .. k : f[k + 1][i] = f[k][i]
    BY <2>2, <2>3, <2>4, AppendProperties
  <2>6. \A i \in 1 .. k + 1 : i = k + 1 \/ i \in 1 .. k
    BY <2>1
  <2>7. \A i \in 1 .. k + 1 : f[k + 1][i] = v[i]
    BY <2>4, <2>5, <2>6
  <2>8. QED
    BY <2>1, <2>5, <2>7
<1> HIDE DEF T
<1>5. 0 .. n \subseteq T
  BY <1>1, <1>3, <1>4, InductionUpTo
<1>6. n \in T /\ n \in 0 .. n
  BY <1>1, <1>5
<1>7. Part(v, kept) \in Seq(S) /\ Len(Part(v, kept)) = n /\ \A i \in 1 .. n : Part(v, kept)[i] = v[i]
  BY <1>2, <1>6 DEF T
<1>8. QED
  BY <1>7, SeqEqual DEF n

\* What erasing an entry does to a vector.
LEMMA RemoveAtProperties ==
    ASSUME NEW S, NEW v \in Seq(S), NEW i \in 1 .. Len(v)
    PROVE  /\ RemoveAt(v, i) \in Seq(S) /\ Len(RemoveAt(v, i)) = Len(v) - 1
           /\ \A k \in 1 .. Len(v) - 1 :
                 RemoveAt(v, i)[k] = IF k < i THEN v[k] ELSE v[k + 1]
<1> DEFINE a == SubSeq(v, 1, i - 1)
           b == SubSeq(v, i + 1, Len(v))
<1>1. Len(v) \in Nat /\ i \in Nat /\ 1 <= i /\ i <= Len(v) /\ i - 1 \in Int /\ i + 1 \in Int
  BY LenProperties
<1>2. (\A k \in 1 .. i - 1 : v[k] \in S) /\ (\A k \in i + 1 .. Len(v) : v[k] \in S)
  <2>1. \A k \in 1 .. Len(v) : v[k] \in S
    BY ElementOfSeq
  <2>2. (\A k \in 1 .. i - 1 : k \in 1 .. Len(v)) /\ (\A k \in i + 1 .. Len(v) : k \in 1 .. Len(v))
    BY <1>1
  <2>3. QED
    BY <2>1, <2>2
<1>3. /\ a \in Seq(S) /\ Len(a) = i - 1 /\ \A k \in 1 .. i - 1 : a[k] = v[k]
  <2>1. /\ a \in Seq(S) /\ Len(a) = IF 1 <= i - 1 THEN (i - 1) - 1 + 1 ELSE 0
        /\ \A k \in 1 .. (i - 1) - 1 + 1 : a[k] = v[1 + k - 1]
    BY <1>1, <1>2, SubSeqProperties
  <2> HIDE DEF a
  <2>2. QED
    BY <1>1, <2>1
<1>4. /\ b \in Seq(S) /\ Len(b) = Len(v) - i
      /\ \A k \in 1 .. Len(v) - i : b[k] = v[i + k]
  <2>1. /\ b \in Seq(S) /\ Len(b) = IF i + 1 <= Len(v) THEN Len(v) - (i + 1) + 1 ELSE 0
        /\ \A k \in 1 .. Len(v) - (i + 1) + 1 : b[k] = v[i + 1 + k - 1]
    BY <1>1, <1>2, SubSeqProperties
  <2> HIDE DEF b
  <2>2. Len(v) - (i + 1) + 1 = Len(v) - i
    BY <1>1
  <2>3. ASSUME NEW k \in 1 .. Len(v) - i PROVE b[k] = v[i + k]
    <3>1. i + 1 + k - 1 = i + k
      BY <1>1
    <3>2. QED
      BY <2>1, <2>2, <3>1
  <2>4. Len(b) = Len(v) - i
    BY <1>1, <2>1
  <2>5. QED
    BY <2>1, <2>3, <2>4
<1>5. RemoveAt(v, i) = a \o b
  BY DEF RemoveAt
<1> HIDE DEF a, b
<1>6. /\ RemoveAt(v, i) \in Seq(S) /\ Len(RemoveAt(v, i)) = (i - 1) + (Len(v) - i)
      /\ \A k \in 1 .. (i - 1) + (Len(v) - i) :
            RemoveAt(v, i)[k] = IF k <= i - 1 THEN a[k] ELSE b[k - (i - 1)]
  <2>1. a \in Seq(S) /\ b \in Seq(S) /\ Len(a) = i - 1 /\ Len(b) = Len(v) - i
    BY <1>3, <1>4
  <2>2. /\ a \o b \in Seq(S) /\ Len(a \o b) = Len(a) + Len(b)
        /\ \A k \in 1 .. Len(a) + Len(b) :
              (a \o b)[k] = IF k <= Len(a) THEN a[k] ELSE b[k - Len(a)]
    BY <2>1, ConcatProperties
  <2>3. QED
    BY <2>1, <2>2, <1>5
<1>7. (i - 1) + (Len(v) - i) = Len(v) - 1
  BY <1>1
<1>8. ASSUME NEW k \in 1 .. Len(v) - 1
      PROVE  RemoveAt(v, i)[k] = IF k < i THEN v[k] ELSE v[k + 1]
  <2>1. RemoveAt(v, i)[k] = IF k <= i - 1 THEN a[k] ELSE b[k - (i - 1)]
    BY <1>6, <1>7
  <2>2. CASE k < i
    <3>1. k <= i - 1 /\ k \in 1 .. i - 1
      BY <1>1, <2>2
    <3>2. QED
      BY <2>1, <2>2, <3>1, <1>3
  <2>3. CASE ~(k < i)
    <3>1. ~(k <= i - 1) /\ k - (i - 1) \in 1 .. Len(v) - i /\ i + (k - (i - 1)) = k + 1
      BY <1>1, <2>3
    <3>2. QED
      BY <2>1, <2>3, <3>1, <1>4
  <2>4. QED
    BY <2>2, <2>3
<1>9. QED
  BY <1>6, <1>7, <1>8
-----------------------------------------------------------------------------
(* The drawing *)

\* What an entry is made of.
LEMMA EntryFields ==
    ASSUME NEW e \in Entries
    PROVE  /\ e.adopted \in BOOLEAN /\ e.username \in Clients /\ e.draw \in Drawings
           /\ e.draw.by = e.username
           /\ e = [adopted |-> e.adopted, username |-> e.username, draw |-> e.draw]
BY DEF Entries, TaggedDraws

\* Whatever its author draws makes an entry.
LEMMA NewEntry ==
    ASSUME NEW d \in Drawings, NEW a \in BOOLEAN
    PROVE  [adopted |-> a, username |-> d.by, draw |-> d] \in Entries
BY DEF Entries, TaggedDraws, Drawings

\* What each payload does to a vector.
LEMMA ApplyIs ==
    ASSUME NEW v, NEW p, IsPayload(p)
    PROVE  \/ p.kind = "adopt" /\ Apply(v, p) = Adopt(v, p.username)
           \/ p.kind = "draw" /\ Apply(v, p) = Draw(v, p.username, p.draw)
           \/ p.kind = "select" /\ Apply(v, p) = Select(v, p.username, p.id, p.draw)
           \/ p.kind = "delete" /\ Apply(v, p) = Delete(v, p.id)
           \/ p.kind = "undo" /\ Apply(v, p) = Undo(v, p.username)
           \/ p.kind = "clear all" /\ Apply(v, p) = <<>>
           \/ p.kind = "clear mine" /\ Apply(v, p) = ClearMine(v, p.username)
<1>1. p.kind \in Kinds
  BY DEF IsPayload
<1>2. CASE p.kind = "adopt"
  BY <1>2 DEF Apply
<1>3. CASE p.kind = "draw"
  BY <1>3 DEF Apply
<1>4. CASE p.kind = "select"
  BY <1>4 DEF Apply
<1>5. CASE p.kind = "delete"
  BY <1>5 DEF Apply
<1>6. CASE p.kind = "undo"
  BY <1>6 DEF Apply
<1>7. CASE p.kind = "clear all"
  BY <1>7 DEF Apply
<1>8. CASE p.kind = "clear mine"
  BY <1>8 DEF Apply
<1>9. QED
  BY <1>1, <1>2, <1>3, <1>4, <1>5, <1>6, <1>7, <1>8 DEF Kinds

\* Vectors as functions.
LEMMA VectorIs ==
    ASSUME NEW v \in Vectors
    PROVE  /\ Len(v) \in Nat /\ DOMAIN v = 1 .. Len(v)
           /\ \A i \in 1 .. Len(v) : v[i] \in Entries
           /\ ToSet(v) = {v[i] : i \in 1 .. Len(v)}
BY LenProperties, ElementOfSeq DEF Vectors, ToSet

\* Adoption changes no draw and no owner, only what is adopted.
LEMMA AdoptVector ==
    ASSUME NEW v \in Vectors, NEW u \in Clients
    PROVE  /\ Adopt(v, u) \in Vectors /\ Len(Adopt(v, u)) = Len(v)
           /\ \A i \in 1 .. Len(v) :
                 /\ Adopt(v, u)[i].draw = v[i].draw /\ Adopt(v, u)[i].username = v[i].username
                 /\ Adopt(v, u)[i].adopted = (v[i].username = u \/ v[i].adopted)
<1> DEFINE n == Len(v)
           e(i) == [v[i] EXCEPT !.adopted = IsOf(u, v[i]) \/ @]
<1>1. n \in Nat /\ DOMAIN v = 1 .. n /\ \A i \in 1 .. n : v[i] \in Entries
  BY VectorIs
<1> HIDE DEF n
<1>2. ASSUME NEW i \in 1 .. n
      PROVE  /\ e(i) \in Entries /\ e(i).draw = v[i].draw /\ e(i).username = v[i].username
             /\ e(i).adopted = (v[i].username = u \/ v[i].adopted)
  <2>1. v[i] \in Entries
    BY <1>1
  <2>2. v[i] = [adopted |-> v[i].adopted, username |-> v[i].username, draw |-> v[i].draw]
        /\ v[i].adopted \in BOOLEAN /\ v[i].draw \in Drawings /\ v[i].draw.by = v[i].username
    BY <2>1, EntryFields
  <2>3. e(i) = [adopted |-> (v[i].username = u \/ v[i].adopted), username |-> v[i].username,
                draw |-> v[i].draw]
    BY <2>2 DEF IsOf
  <2> DEFINE a == (v[i].username = u \/ v[i].adopted)
  <2>4. a \in BOOLEAN
    OBVIOUS
  <2>5. e(i) \in Entries
    <3> DEFINE d == v[i].draw
    <3>1. d \in Drawings /\ e(i) = [adopted |-> a, username |-> d.by, draw |-> d]
      BY <2>2, <2>3
    <3> HIDE DEF a, d, e
    <3>2. [adopted |-> a, username |-> d.by, draw |-> d] \in Entries
      BY <2>4, <3>1, NewEntry
    <3>3. QED
      BY <3>1, <3>2
  <2> HIDE DEF e
  <2>6. QED
    BY <2>3, <2>5
<1>3. Adopt(v, u) = [i \in 1 .. n |-> e(i)]
  BY <1>1 DEF Adopt
<1> HIDE DEF e
<1>4. Adopt(v, u) \in [1 .. n -> Entries]
  BY <1>2, <1>3
<1>5. Adopt(v, u) \in Vectors
  BY <1>1, <1>4, SeqDef DEF Vectors
<1>6. Len(Adopt(v, u)) = n
  BY <1>1, <1>4, <1>5, VectorIs
<1>7. QED
  BY <1>2, <1>3, <1>5, <1>6 DEF n

\* A new draw comes last.
LEMMA DrawVector ==
    ASSUME NEW v \in Vectors, NEW d \in Drawings, NEW u, d.by = u
    PROVE  LET w == Draw(v, u, d)
           IN  /\ w \in Vectors /\ Len(w) = Len(v) + 1 /\ w[Len(v) + 1] = TaggedDraw(u, d)
               /\ \A i \in 1 .. Len(v) : w[i] = v[i]
<1>1. TaggedDraw(u, d) \in Entries
  BY NewEntry DEF TaggedDraw
<1>2. QED
  BY <1>1, AppendProperties DEF Vectors, Draw

\* A Select changes the entry with its id, if there is one, and no other.
LEMMA SelectVector ==
    ASSUME NEW v \in Vectors, NEW u, NEW id, id \in Int, NEW d \in Drawings, d.by = u
    PROVE  /\ Select(v, u, id, d) \in Vectors /\ Len(Select(v, u, id, d)) = Len(v)
           /\ \A i \in 1 .. Len(v) :
                 /\ i = id + 1 => Select(v, u, id, d)[i] = TaggedDraw(u, d)
                 /\ i # id + 1 => Select(v, u, id, d)[i] = v[i]
<1>1. TaggedDraw(u, d) \in Entries
  BY NewEntry DEF TaggedDraw
<1>2. CASE InRange(v, id)
  <2>1. id + 1 \in 1 .. Len(v)
    BY <1>2, VectorIs DEF InRange
  <2>2. Select(v, u, id, d) = [v EXCEPT ![id + 1] = TaggedDraw(u, d)]
    BY <1>2 DEF Select, ReplaceAt
  <2>3. QED
    BY <1>1, <2>1, <2>2, ExceptSeq DEF Vectors
<1>3. CASE ~InRange(v, id)
  <2>1. id + 1 \notin 1 .. Len(v)
    BY <1>3, VectorIs DEF InRange
  <2>2. Select(v, u, id, d) = v
    BY <1>3 DEF Select
  <2>3. QED
    BY <2>1, <2>2
<1>4. QED
  BY <1>2, <1>3

\* The code's clamped position is one of the vector's.
LEMMA DeleteIs ==
    ASSUME NEW v \in Vectors, NEW id \in Int
    PROVE  \/ v = <<>> /\ Delete(v, id) = v
           \/ \E i \in 1 .. Len(v) : Delete(v, id) = RemoveAt(v, i)
<1>1. CASE v = <<>>
  BY <1>1 DEF Delete
<1>2. CASE v # <<>>
  <2> DEFINE i == Clamp(id, 0, Len(v) - 1) + 1
  <2>1. Len(v) \in Nat \ {0}
    BY <1>2, EmptySeq DEF Vectors
  <2>2. i \in 1 .. Len(v)
    BY <2>1 DEF Clamp
  <2>3. Delete(v, id) = RemoveAt(v, i)
    BY <1>2 DEF Delete
  <2> HIDE DEF i
  <2>4. QED
    BY <2>2, <2>3
<1>3. QED
  BY <1>1, <1>2

\* What is undone is a draw of his who undoes.
LEMMA UndoIs ==
    ASSUME NEW v \in Vectors, NEW u \in Clients
    PROVE  \/ Undo(v, u) = v
           \/ \E i \in 1 .. Len(v) : v[i].username = u /\ Undo(v, u) = RemoveAt(v, i)
<1> DEFINE his == {i \in 1 .. Len(v) : IsOf(u, v[i])}
           last == SelectLastInSeq(v, LAMBDA entry : IsOf(u, entry))
<1>1. last = IF his # {} THEN Max(his) ELSE 0
  BY DEF SelectLastInSeq
<1>2. Len(v) \in Nat
  BY VectorIs
<1>3. CASE his = {}
  BY <1>1, <1>3 DEF Undo
<1>4. CASE his # {}
  <2>1. his \subseteq 0 .. Len(v)
    BY <1>2
  <2>2. \E x \in his : \A y \in his : x >= y
    <3> HIDE DEF his
    <3>1. QED
      BY <1>2, <1>4, <2>1, GreatestNatural
  <2>3. Max(his) \in his
    <3> HIDE DEF his
    <3>1. QED
      BY <2>2 DEF Max
  <2>4. Max(his) \in 1 .. Len(v) /\ v[Max(his)].username = u /\ Max(his) # 0
    BY <1>2, <2>3 DEF IsOf
  <2>5. last = Max(his)
    BY <1>1, <1>4
  <2>6. Undo(v, u) = RemoveAt(v, last)
    BY <2>4, <2>5 DEF Undo
  <2> HIDE DEF his, last
  <2>7. QED
    BY <2>4, <2>5, <2>6
<1>5. QED
  BY <1>3, <1>4

\* What remains after a clear mine was there, and is not his.
LEMMA ClearMineVector ==
    ASSUME NEW v \in Vectors, NEW u \in Clients
    PROVE  /\ ClearMine(v, u) \in Vectors
           /\ \A e \in ToSet(ClearMine(v, u)) : e \in ToSet(v) /\ e.username # u
<1> DEFINE kept == {i \in DOMAIN v : ~IsOf(u, v[i])}
<1>1. ClearMine(v, u) = Part(v, kept)
  BY DEF ClearMine
<1>2. \A k \in kept : v[k] \in ToSet(v) /\ v[k].username # u
  BY DEF ToSet, IsOf
<1> HIDE DEF kept
<1>3. /\ Part(v, kept) \in Seq(Entries)
      /\ \A e \in ToSet(Part(v, kept)) : \E k \in 1 .. Len(v) : k \in kept /\ e = v[k]
  BY PartKeeps DEF Vectors
<1>4. QED
  BY <1>1, <1>2, <1>3 DEF Vectors

\* Erasing an entry adds none.
LEMMA RemoveVector ==
    ASSUME NEW v \in Vectors, NEW i \in 1 .. Len(v)
    PROVE  /\ RemoveAt(v, i) \in Vectors
           /\ ToSet(RemoveAt(v, i)) \subseteq ToSet(v)
<1> DEFINE w == RemoveAt(v, i)
<1>1. /\ w \in Seq(Entries) /\ Len(w) = Len(v) - 1
      /\ \A k \in 1 .. Len(v) - 1 : w[k] = IF k < i THEN v[k] ELSE v[k + 1]
  BY RemoveAtProperties DEF Vectors
<1> HIDE DEF w
<1>2. w \in Vectors
  BY <1>1 DEF Vectors
<1>3. ToSet(w) = {w[k] : k \in 1 .. Len(v) - 1} /\ ToSet(v) = {v[k] : k \in 1 .. Len(v)}
      /\ Len(v) \in Nat
  BY <1>1, <1>2, VectorIs
<1>4. ASSUME NEW k \in 1 .. Len(v) - 1 PROVE w[k] \in ToSet(v)
  <2>1. k \in 1 .. Len(v) /\ k + 1 \in 1 .. Len(v)
    BY <1>3
  <2>2. QED
    BY <1>1, <1>3, <2>1
<1>5. QED
  BY <1>2, <1>3, <1>4 DEF w

\* Every payload makes a vector of a vector.
LEMMA ApplyVector ==
    ASSUME NEW v \in Vectors, NEW p, IsPayload(p)
    PROVE  Apply(v, p) \in Vectors
<1>1. p.username \in Clients
  BY DEF IsPayload
<1>2. CASE p.kind = "adopt" /\ Apply(v, p) = Adopt(v, p.username)
  BY <1>1, <1>2, AdoptVector
<1>3. CASE p.kind = "draw" /\ Apply(v, p) = Draw(v, p.username, p.draw)
  <2>1. p.draw \in Drawings /\ p.draw.by = p.username
    BY <1>3 DEF IsPayload
  <2>2. QED
    BY <1>3, <2>1, DrawVector
<1>4. CASE p.kind = "select" /\ Apply(v, p) = Select(v, p.username, p.id, p.draw)
  <2>1. p.draw \in Drawings /\ p.draw.by = p.username /\ p.id \in Int
    BY <1>4 DEF IsPayload
  <2>2. QED
    BY <1>4, <2>1, SelectVector
<1>5. CASE p.kind = "delete" /\ Apply(v, p) = Delete(v, p.id)
  <2>1. p.id \in Int
    BY <1>5 DEF IsPayload
  <2>2. QED
    BY <1>5, <2>1, DeleteIs, RemoveVector
<1>6. CASE p.kind = "undo" /\ Apply(v, p) = Undo(v, p.username)
  <2>1. CASE Undo(v, p.username) = v
    BY <1>6, <2>1
  <2>2. CASE \E i \in 1 .. Len(v) : Undo(v, p.username) = RemoveAt(v, i)
    BY <1>6, <2>2, RemoveVector
  <2>3. QED
    BY <1>1, <2>1, <2>2, UndoIs
<1>7. CASE p.kind = "clear all" /\ Apply(v, p) = <<>>
  <2>1. <<>> \in Vectors
    BY EmptySeq DEF Vectors
  <2>2. QED
    BY <1>7, <2>1
<1>8. CASE p.kind = "clear mine" /\ Apply(v, p) = ClearMine(v, p.username)
  <2>1. ClearMine(v, p.username) \in Vectors
    BY <1>1, ClearMineVector
  <2>2. QED
    BY <1>8, <2>1
<1>9. QED
  BY <1>2, <1>3, <1>4, <1>5, <1>6, <1>7, <1>8, ApplyIs

\* What is u's after a payload is what it drew for u, or was u's before it and is
\* not being adopted.
LEMMA ApplyMine ==
    ASSUME NEW v \in Vectors, NEW p, IsPayload(p), NEW u \in Clients,
           NEW e \in ToSet(Apply(v, p)), IsMine(u, e)
    PROVE  \/ p.kind \in {"draw", "select"} /\ p.draw = e.draw
           \/ /\ ~(p.kind = "adopt" /\ p.username = u)
              /\ \E d \in ToSet(v) : IsMine(u, d) /\ d.draw = e.draw
<1>1. p.username \in Clients
  BY DEF IsPayload
<1> DEFINE w == Apply(v, p)
<1>2. w \in Vectors
  BY ApplyVector
<1>3. /\ Len(v) \in Nat /\ ToSet(v) = {v[i] : i \in 1 .. Len(v)}
      /\ Len(w) \in Nat /\ ToSet(w) = {w[i] : i \in 1 .. Len(w)}
  <2> HIDE DEF w
  <2>1. QED
    BY <1>2, VectorIs
<1>4. PICK i \in 1 .. Len(w) : e = w[i]
  BY <1>3
<1>5. CASE p.kind = "adopt" /\ w = Adopt(v, p.username)
  <2>1. i \in 1 .. Len(v) /\ e.draw = v[i].draw /\ e.username = v[i].username
        /\ e.adopted = (v[i].username = p.username \/ v[i].adopted)
    BY <1>1, <1>4, <1>5, AdoptVector
  <2>2. v[i].username = u /\ ~v[i].adopted /\ p.username # u
    BY <2>1 DEF IsMine
  <2>3. QED
    BY <1>3, <2>1, <2>2 DEF IsMine
<1>6. CASE p.kind = "draw" /\ w = Draw(v, p.username, p.draw)
  <2>1. p.draw \in Drawings /\ p.draw.by = p.username
    BY <1>6 DEF IsPayload
  <2>2. /\ Len(w) = Len(v) + 1 /\ w[Len(v) + 1] = TaggedDraw(p.username, p.draw)
        /\ \A j \in 1 .. Len(v) : w[j] = v[j]
    BY <1>6, <2>1, DrawVector
  <2>3. CASE i = Len(v) + 1
    BY <1>4, <1>6, <2>2, <2>3 DEF TaggedDraw
  <2>4. CASE i \in 1 .. Len(v)
    BY <1>3, <1>4, <1>6, <2>2, <2>4
  <2> HIDE DEF w
  <2>5. QED
    BY <1>3, <1>4, <2>2, <2>3, <2>4
<1>7. CASE p.kind = "select" /\ w = Select(v, p.username, p.id, p.draw)
  <2>1. p.draw \in Drawings /\ p.draw.by = p.username /\ p.id \in Int
    BY <1>7 DEF IsPayload
  <2>2. /\ Len(w) = Len(v)
        /\ \A j \in 1 .. Len(v) :
              /\ j = p.id + 1 => w[j] = TaggedDraw(p.username, p.draw)
              /\ j # p.id + 1 => w[j] = v[j]
    <3> DEFINE u1 == p.username
               d1 == p.draw
               id1 == p.id
    <3>1. d1 \in Drawings /\ d1.by = u1 /\ id1 \in Int /\ w = Select(v, u1, id1, d1)
      BY <1>7, <2>1
    <3> HIDE DEF u1, d1, id1, w
    <3>2. /\ Select(v, u1, id1, d1) \in Vectors /\ Len(Select(v, u1, id1, d1)) = Len(v)
          /\ \A j \in 1 .. Len(v) :
                /\ j = id1 + 1 => Select(v, u1, id1, d1)[j] = TaggedDraw(u1, d1)
                /\ j # id1 + 1 => Select(v, u1, id1, d1)[j] = v[j]
      BY <3>1, SelectVector
    <3>3. QED
      BY <3>1, <3>2 DEF u1, d1, id1
  <2>3. CASE i = p.id + 1
    BY <1>4, <1>7, <2>2, <2>3 DEF TaggedDraw
  <2>4. CASE i # p.id + 1
    BY <1>3, <1>4, <1>7, <2>2, <2>4
  <2>5. QED
    BY <2>3, <2>4
<1>8. CASE p.kind \in {"delete", "undo", "clear all", "clear mine"} /\ ToSet(w) \subseteq ToSet(v)
  BY <1>8
<1>9. CASE p.kind = "delete" /\ w = Delete(v, p.id)
  <2>1. p.id \in Int
    BY <1>9 DEF IsPayload
  <2>2. QED
    BY <1>8, <1>9, <2>1, DeleteIs, RemoveVector
<1>10. CASE p.kind = "undo" /\ w = Undo(v, p.username)
  <2>1. CASE Undo(v, p.username) = v
    BY <1>8, <1>10, <2>1
  <2>2. CASE \E k \in 1 .. Len(v) : Undo(v, p.username) = RemoveAt(v, k)
    BY <1>8, <1>10, <2>2, RemoveVector
  <2>3. QED
    BY <1>1, <2>1, <2>2, UndoIs
<1>11. CASE p.kind = "clear all" /\ w = <<>>
  <2>1. ToSet(<<>>) = {}
    BY DEF ToSet
  <2>2. ToSet(w) = {}
    BY <1>11, <2>1
  <2> HIDE DEF w
  <2>3. QED
    BY <1>8, <1>11, <2>2
<1>12. CASE p.kind = "clear mine" /\ w = ClearMine(v, p.username)
  BY <1>1, <1>8, <1>12, ClearMineVector
<1>13. QED
  BY <1>5, <1>6, <1>7, <1>9, <1>10, <1>11, <1>12, ApplyIs

\* What is drawn, selected or adopted leaves every entry its id, and changes no
\* other draw than the selected one.
LEMMA ApplyStays ==
    ASSUME NEW v \in Vectors, NEW p, IsPayload(p), ~IsErasure(p), NEW id \in Int, InRange(v, id)
    PROVE  /\ InRange(Apply(v, p), id)
           /\ \/ Apply(v, p)[id + 1].draw = v[id + 1].draw
              \/ p.kind = "select" /\ p.id = id
<1> DEFINE w == Apply(v, p)
<1>1. p.username \in Clients /\ w \in Vectors
  BY ApplyVector DEF IsPayload
<1>2. /\ id + 1 \in 1 .. Len(v) /\ Len(v) \in Nat
      /\ DOMAIN w = 1 .. Len(w)
  <2> HIDE DEF w
  <2>1. QED
    BY <1>1, VectorIs DEF InRange
<1>3. CASE p.kind = "adopt" /\ w = Adopt(v, p.username)
  <2>1. Len(w) = Len(v) /\ w[id + 1].draw = v[id + 1].draw
    BY <1>1, <1>2, <1>3, AdoptVector
  <2>2. QED
    BY <1>2, <2>1 DEF InRange
<1>4. CASE p.kind = "draw" /\ w = Draw(v, p.username, p.draw)
  <2>1. p.draw \in Drawings /\ p.draw.by = p.username
    BY <1>4 DEF IsPayload
  <2>2. Len(w) = Len(v) + 1 /\ w[id + 1] = v[id + 1]
    BY <1>2, <1>4, <2>1, DrawVector
  <2> HIDE DEF w
  <2>3. id + 1 \in 1 .. Len(w)
    BY <1>2, <2>2
  <2>4. QED
    BY <1>2, <2>2, <2>3 DEF InRange, w
<1>5. CASE p.kind = "select" /\ w = Select(v, p.username, p.id, p.draw)
  <2>1. p.draw \in Drawings /\ p.draw.by = p.username /\ p.id \in Int
    BY <1>5 DEF IsPayload
  <2>2. Len(w) = Len(v) /\ (id # p.id => w[id + 1] = v[id + 1])
    <3> DEFINE u1 == p.username
               d1 == p.draw
               id1 == p.id
    <3>1. d1 \in Drawings /\ d1.by = u1 /\ id1 \in Int /\ w = Select(v, u1, id1, d1)
      BY <1>5, <2>1
    <3> HIDE DEF u1, d1, id1, w
    <3>2. /\ Select(v, u1, id1, d1) \in Vectors /\ Len(Select(v, u1, id1, d1)) = Len(v)
          /\ \A j \in 1 .. Len(v) :
                /\ j = id1 + 1 => Select(v, u1, id1, d1)[j] = TaggedDraw(u1, d1)
                /\ j # id1 + 1 => Select(v, u1, id1, d1)[j] = v[j]
      BY <3>1, SelectVector
    <3>3. id # id1 => w[id + 1] = v[id + 1]
      BY <1>2, <3>1, <3>2
    <3>4. QED
      BY <3>1, <3>2, <3>3 DEF id1
  <2>3. QED
    BY <1>2, <1>5, <2>2 DEF InRange
<1>6. QED
  BY <1>3, <1>4, <1>5, ApplyIs DEF IsErasure
-----------------------------------------------------------------------------
(* Logs *)

\* f is the vector after each command of the log.
Follows(f, log) ==
    /\ f \in [0 .. Len(log) -> Vectors]
    /\ f[0] = <<>> /\ f[Len(log)] = Replay(log)
    /\ \A k \in 1 .. Len(log) : f[k] = Apply(f[k - 1], log[k])

\* There is such an f.
LEMMA ReplayRecursion ==
    ASSUME NEW log, IsLog(log)
    PROVE  \E f : Follows(f, log)
<1> DEFINE n == Len(log)
           step == [k \in 1 .. n |-> [v \in Vectors |-> Apply(v, log[k])]]
           Loop(g) == g = [k \in 0 .. n |-> IF k = 0 THEN <<>> ELSE Apply(g[k - 1], log[k])]
<1>1. n \in Nat /\ <<>> \in Vectors /\ \A k \in 1 .. n : IsPayload(log[k])
  BY LenProperties, EmptySeq DEF IsLog, Vectors
<1>2. step \in [1 .. n -> [Vectors -> Vectors]]
  <2>1. \A k \in 1 .. n, v \in Vectors : Apply(v, log[k]) \in Vectors
    BY <1>1, ApplyVector
  <2> HIDE DEF n
  <2>2. QED
    BY <2>1
<1> HIDE DEF n
<1>3. PICK f \in [0 .. n -> Vectors] : f[0] = <<>> /\ \A k \in 1 .. n : f[k] = step[k][f[k - 1]]
  <2> DEFINE none == <<>>
  <2>1. n \in Nat /\ none \in Vectors /\ step \in Steps(n, Vectors)
    BY <1>1, <1>2 DEF Steps
  <2> HIDE DEF step, none
  <2>2. \E f : Recursion(f, n, Vectors, none, step)
    BY <2>1, RecursionUpTo
  <2>3. QED
    BY <2>2 DEF none, Recursion
<1>4. ASSUME NEW k \in 1 .. n PROVE f[k] = Apply(f[k - 1], log[k])
  <2>1. k - 1 \in 0 .. n
    BY <1>1
  <2>2. f[k - 1] \in Vectors
    BY <2>1, <1>3
  <2>3. QED
    BY <2>2, <1>3
<1>5. Loop(f)
  <2>1. \A k \in 0 .. n : f[k] = IF k = 0 THEN <<>> ELSE Apply(f[k - 1], log[k])
    <3>1. \A k \in 0 .. n : k = 0 \/ k \in 1 .. n
      BY <1>1
    <3>2. QED
      BY <3>1, <1>3, <1>4
  <2>2. QED
    BY <2>1, <1>3
<1> DEFINE g == CHOOSE h : Loop(h)
<1>6. Loop(g)
  <2> HIDE DEF Loop
  <2>1. QED
    BY <1>5
<1>7. Replay(log) = g[n]
  BY DEF Replay, n
<1> HIDE DEF g
<1>8. g[n] = f[n]
  <2> DEFINE T == {k \in 0 .. n : g[k] = f[k]}
  <2>1. 0 \in T
    BY <1>1, <1>3, <1>6
  <2>2. ASSUME NEW k \in 0 .. n - 1, k \in T PROVE k + 1 \in T
    <3>1. k + 1 \in 1 .. n /\ k + 1 \in 0 .. n /\ k + 1 # 0 /\ (k + 1) - 1 = k
      BY <1>1
    <3>2. g[k + 1] = Apply(g[k], log[k + 1])
      BY <1>6, <3>1
    <3>3. f[k + 1] = Apply(f[k], log[k + 1])
      BY <1>4, <3>1
    <3>4. QED
      BY <2>2, <3>1, <3>2, <3>3
  <2> HIDE DEF T
  <2>3. 0 .. n \subseteq T
    BY <1>1, <2>1, <2>2, InductionUpTo
  <2>4. n \in T
    BY <1>1, <2>3
  <2>5. QED
    BY <2>4 DEF T
<1>9. QED
  BY <1>3, <1>4, <1>7, <1>8 DEF n, Follows

\* A log that begins another is replayed to what the other has come to there.
LEMMA ReplayPrefix ==
    ASSUME NEW log, IsLog(log), NEW f, Follows(f, log),
           NEW short, IsLog(short), Len(short) <= Len(log),
           \A k \in 1 .. Len(short) : short[k] = log[k]
    PROVE  Replay(short) = f[Len(short)]
<1> DEFINE m == Len(short)
<1>1. m \in Nat /\ Len(log) \in Nat
  BY LenProperties DEF IsLog
<1>2. PICK g : Follows(g, short)
  BY ReplayRecursion
<1> DEFINE T == {k \in 0 .. m : g[k] = f[k]}
<1>3. g[m] = Replay(short)
  BY <1>2 DEF Follows
<1> HIDE DEF m
<1>4. 0 \in T
  BY <1>1, <1>2 DEF Follows
<1>5. ASSUME NEW k \in 0 .. m - 1, k \in T PROVE k + 1 \in T
  <2>1. k + 1 \in 1 .. m /\ k + 1 \in 0 .. m /\ k + 1 \in 1 .. Len(log) /\ (k + 1) - 1 = k
    BY <1>1 DEF m
  <2>2. g[k + 1] = Apply(g[k], short[k + 1])
    BY <1>2, <2>1 DEF Follows, m
  <2>3. f[k + 1] = Apply(f[k], log[k + 1])
    BY <2>1 DEF Follows
  <2>4. short[k + 1] = log[k + 1]
    BY <2>1 DEF m
  <2>5. QED
    BY <1>5, <2>1, <2>2, <2>3, <2>4
<1> HIDE DEF T
<1>6. 0 .. m \subseteq T
  BY <1>1, <1>4, <1>5, InductionUpTo
<1>7. m \in T
  BY <1>1, <1>6
<1>8. QED
  BY <1>3, <1>7 DEF T, m

\* The beginning of a log.
LEMMA PrefixIsLog ==
    ASSUME NEW log, IsLog(log), NEW m \in 0 .. Len(log)
    PROVE  LET short == SubSeq(log, 1, m)
           IN  IsLog(short) /\ Len(short) = m /\ \A k \in 1 .. m : short[k] = log[k]
<1> DEFINE S == ToSet(log)
           short == SubSeq(log, 1, m)
<1>1. log \in Seq(S) /\ Len(log) \in Nat /\ \A k \in 1 .. Len(log) : IsPayload(log[k]) /\ log[k] \in S
  BY LenProperties, ElementOfSeq DEF IsLog
<1> HIDE DEF S
<1>2. short \in Seq(S) /\ Len(short) = m /\ \A k \in 1 .. m : short[k] = log[k]
  <2>1. m \in Int /\ \A k \in 1 .. m : log[k] \in S
    BY <1>1
  <2>2. /\ short \in Seq(S) /\ Len(short) = IF 1 <= m THEN m - 1 + 1 ELSE 0
        /\ \A k \in 1 .. m - 1 + 1 : short[k] = log[1 + k - 1]
    BY <1>1, <2>1, SubSeqProperties
  <2> HIDE DEF short
  <2>3. QED
    BY <1>1, <2>2
<1> HIDE DEF short
<1>3. short \in Seq(ToSet(short))
  BY <1>2, OfItsElements
<1>4. \A k \in 1 .. m : IsPayload(short[k])
  BY <1>1, <1>2
<1>5. QED
  BY <1>2, <1>3, <1>4 DEF IsLog, short

\* One command more.
LEMMA ReplayAppend ==
    ASSUME NEW log, IsLog(log), NEW p, IsPayload(p)
    PROVE  /\ IsLog(Append(log, p))
           /\ Replay(Append(log, p)) = Apply(Replay(log), p)
           /\ Replay(log) \in Vectors
<1> DEFINE long == Append(log, p)
           n == Len(log)
<1>1. log \in Seq(ToSet(log)) /\ n \in Nat /\ DOMAIN log = 1 .. n
  BY LenProperties DEF IsLog
<1>2. /\ long \in Seq(ToSet(long)) /\ Len(long) = n + 1
      /\ \A k \in 1 .. n : long[k] = log[k]
      /\ long[n + 1] = p
  BY <1>1, AppendTo
<1> HIDE DEF long
<1>3. IsLog(long)
  <2>1. \A k \in 1 .. n + 1 : k = n + 1 \/ k \in 1 .. n
    BY <1>1
  <2>2. \A k \in 1 .. n : IsPayload(log[k])
    BY DEF IsLog
  <2>3. \A k \in 1 .. n + 1 : IsPayload(long[k])
    BY <1>2, <2>1, <2>2
  <2>4. QED
    BY <1>2, <2>3 DEF IsLog
<1>4. PICK f : Follows(f, long)
  BY <1>3, ReplayRecursion
<1>5. Replay(log) = f[n]
  BY <1>1, <1>2, <1>3, <1>4, ReplayPrefix
<1>6. /\ f[n + 1] = Replay(long) /\ f[n + 1] = Apply(f[(n + 1) - 1], long[n + 1])
      /\ f \in [0 .. n + 1 -> Vectors]
  <2>1. n + 1 \in 1 .. Len(long)
    BY <1>1, <1>2
  <2>2. QED
    BY <1>2, <1>4, <2>1 DEF Follows
<1>7. (n + 1) - 1 = n /\ n \in 0 .. n + 1
  BY <1>1
<1>8. QED
  BY <1>2, <1>3, <1>5, <1>6, <1>7 DEF long
-----------------------------------------------------------------------------
(* The steps *)

\* A client queues a command of its own as the next one.
Queues(c) ==
    \E p : /\ Push(c, p)
           /\ p.kind \in Kinds \ {"adopt"} /\ p.username = c /\ p.nr = Nr(c)
           /\ IsPayload(p)
           /\ p.kind = "select" => p.id = selected[c] /\ p.meant = Meant(c)

\* What Repeated will be.
RepeatedNext(c) == IF again'[c] THEN late'[c] ELSE 0

\* A client lists what it has made, or forgets what it has listed.
Looks(c) ==
    /\ listing' = [d \in Clients |-> listing'[d]]
    /\ \A d \in Clients \ {c} :
          /\ listing'[d] = listing[d] /\ seen'[d] = seen[d]
          /\ late'[d] = late[d] /\ again'[d] = again[d]
    /\ \/ listing'[c] = {}
       \/ \E toolQual, userQual :
             listing'[c] = ListDraws(c, toolQual, userQual, Replay(MadeBy(RepeatedNext(c), seen'[c])))

\* A client does what no other sees.
Private(c) ==
    /\ UNCHANGED <<listing, seen, late, again>> \/ Looks(c)
    /\ UNCHANGED <<queue, applied, typed>>
    /\ tool' \in [Clients -> Tools] /\ colour' \in [Clients -> [1 .. 3 -> 0 .. 255]]
    /\ selected' \in [Clients -> Int \cup {None}]
    /\ seen' \in [Clients -> Nat] /\ \A d \in Clients : seen'[d] <= Len(applied)
    /\ late' \in [Clients -> Nat] /\ again' \in [Clients -> BOOLEAN]
    /\ \A d \in Clients : late'[d] <= seen'[d]
    /\ status' \in [Clients -> {"running", "exited", "adopted"}]

\* The types of what is read in the private steps.
LEMMA Lengths ==
    ASSUME TypeOK, AreSequences
    PROVE  /\ Len(applied) \in Nat
           /\ seen \in [Clients -> Nat] /\ \A d \in Clients : seen[d] <= Len(applied)
           /\ late \in [Clients -> Nat] /\ again \in [Clients -> BOOLEAN]
           /\ \A d \in Clients : late[d] <= seen[d]
           /\ typed \in [Clients -> Nat]
BY LenProperties DEF TypeOK, AreSequences

\* A line that is typed either queues a command or is a private step.
LEMMA LineSteps ==
    ASSUME TypeOK, AreSequences, NEW c \in Clients, NEW t, ProcessLine(c, t)
    PROVE  Queues(c) \/ Private(c)
<1>1. /\ tool \in [Clients -> Tools] /\ colour \in [Clients -> [1 .. 3 -> 0 .. 255]]
      /\ selected \in [Clients -> Int \cup {None}]
      /\ status \in [Clients -> {"running", "exited", "adopted"}]
  BY DEF TypeOK
<1>2. CASE ToolCommand(c, t)
  BY <1>1, <1>2, Lengths DEF ToolCommand, Private
<1>3. CASE ColourCommand(c, t)
  <2>1. [i \in 1 .. 3 |-> IntOf(t[i + 1])] \in [1 .. 3 -> 0 .. 255]
    <3>1. ASSUME NEW i \in 1 .. 3 PROVE IntOf(t[i + 1]) \in 0 .. 255
      <4>1. i + 1 \in 2 .. 4
        OBVIOUS
      <4>2. IntOf(t[i + 1]) \in Int /\ 0 <= IntOf(t[i + 1]) /\ IntOf(t[i + 1]) < 256
        BY <1>3, <4>1, CommandsAssumption DEF ColourCommand, IsInt, IntOf, IsColourValue
      <4>3. QED
        BY <4>2
    <3>2. QED
      BY <3>1
  <2>2. colour' \in [Clients -> [1 .. 3 -> 0 .. 255]]
    BY <1>1, <1>3, <2>1 DEF ColourCommand
  <2>3. QED
    BY <1>1, <1>3, <2>2, Lengths DEF ColourCommand, Private
<1>4. CASE DrawCommand(c, t)
  <2>0. NewDraw(c) \in Drawings /\ NewDraw(c).by = c
    BY <1>1, Lengths DEF NewDraw, Drawings, Nr
  <2>1. CASE selected[c] = None
    <3> DEFINE p == [kind |-> "draw", draw |-> NewDraw(c), username |-> c, nr |-> Nr(c)]
    <3>1. Push(c, p)
      BY <1>4, <2>1 DEF DrawCommand
    <3>2. /\ p.kind \in Kinds \ {"adopt"} /\ p.username = c /\ p.nr = Nr(c)
          /\ p.kind # "select" /\ IsPayload(p)
      BY <2>0 DEF Kinds, IsPayload
    <3> HIDE DEF p
    <3>3. QED
      BY <3>1, <3>2 DEF Queues
  <2>2. CASE selected[c] # None
    <3> DEFINE p == [kind |-> "select", id |-> selected[c], draw |-> NewDraw(c),
                     meant |-> Meant(c), username |-> c, nr |-> Nr(c)]
    <3>1. Push(c, p)
      BY <1>4, <2>2 DEF DrawCommand
    <3>2. /\ p.kind \in Kinds \ {"adopt"} /\ p.username = c /\ p.nr = Nr(c)
          /\ p.id = selected[c] /\ p.meant = Meant(c) /\ IsPayload(p)
      <4>1. selected[c] \in Int
        BY <1>1, <2>2
      <4>2. QED
        BY <2>0, <4>1 DEF Kinds, IsPayload
    <3> HIDE DEF p
    <3>3. QED
      BY <3>1, <3>2 DEF Queues
  <2>3. QED
    BY <2>1, <2>2
<1>5. CASE ListCommand(c, t)
  <2>1. PICK n \in seen[c] .. Len(applied), twice \in BOOLEAN :
          /\ seen' = [seen EXCEPT ![c] = n] /\ again' = [again EXCEPT ![c] = twice]
          /\ late' = [late EXCEPT ![c] = IF twice \/ n = @ THEN @ ELSE 0]
          /\ listing' = [listing EXCEPT ![c] =
                ListDraws(c, Word(t, 2), Word(t, 3),
                          Replay(MadeBy(IF twice THEN late[c] ELSE 0, n)))]
    BY <1>5, Zenon DEF ListCommand
  <2>2. n \in Nat /\ n <= Len(applied) /\ seen[c] <= n
    BY <2>1, Lengths
  <2>3. /\ seen' \in [Clients -> Nat] /\ again' \in [Clients -> BOOLEAN] /\ late' \in [Clients -> Nat]
        /\ seen'[c] = n /\ again'[c] = twice /\ late'[c] \in {late[c], 0}
        /\ twice => late'[c] = late[c]
        /\ \A d \in Clients \ {c} :
              seen'[d] = seen[d] /\ late'[d] = late[d] /\ again'[d] = again[d]
    BY <2>1, <2>2, Lengths
  <2>4. /\ \A d \in Clients : seen'[d] <= Len(applied)
        /\ \A d \in Clients : late'[d] <= seen'[d]
    <3>1. \A d \in Clients : seen[d] \in Nat /\ late[d] \in Nat
                             /\ late[d] <= seen[d] /\ seen[d] <= Len(applied)
      BY Lengths
    <3>2. seen'[c] <= Len(applied) /\ late'[c] <= seen'[c]
      BY <2>2, <2>3, <3>1
    <3>3. ASSUME NEW d \in Clients, d # c PROVE seen'[d] <= Len(applied) /\ late'[d] <= seen'[d]
      BY <2>3, <3>1, <3>3
    <3>4. QED
      BY <3>2, <3>3
  <2>5. UNCHANGED <<tool, colour, selected, status, queue, applied, typed>>
    BY <1>5 DEF ListCommand
  <2>6. Looks(c)
    <3>1. RepeatedNext(c) = IF twice THEN late[c] ELSE 0
      BY <2>3 DEF RepeatedNext
    <3> DEFINE shown == ListDraws(c, Word(t, 2), Word(t, 3),
                                  Replay(MadeBy(IF twice THEN late[c] ELSE 0, n)))
    <3>2. listing' = [listing EXCEPT ![c] = shown] /\ listing = [d \in Clients |-> listing[d]]
      BY <2>1 DEF AreSequences
    <3>3. shown = ListDraws(c, Word(t, 2), Word(t, 3), Replay(MadeBy(RepeatedNext(c), seen'[c])))
      BY <2>3, <3>1
    <3> HIDE DEF shown
    <3>4. /\ listing' = [d \in Clients |-> listing'[d]] /\ listing'[c] = shown
          /\ \A d \in Clients \ {c} : listing'[d] = listing[d]
      BY <3>2
    <3>5. QED
      BY <2>3, <3>3, <3>4 DEF Looks
  <2>7. QED
    BY <1>1, <2>3, <2>4, <2>5, <2>6 DEF Private
<1>6. CASE SelectCommand(c, t)
  <2>1. selected' \in [Clients -> Int \cup {None}]
    <3>1. CASE selected' = [selected EXCEPT ![c] = None]
      BY <1>1, <3>1
    <3>2. CASE IsInt(t[2]) /\ selected' = [selected EXCEPT ![c] = IntOf(t[2])]
      <4>1. IntOf(t[2]) \in Int
        BY <3>2, CommandsAssumption DEF IsInt, IntOf
      <4>2. QED
        BY <1>1, <3>2, <4>1
    <3>3. QED
      BY <1>6, <3>1, <3>2 DEF SelectCommand
  <2>2. QED
    BY <1>1, <1>6, <2>1, Lengths DEF SelectCommand, Private
<1>7. CASE DeleteCommand(c, t)
  <2> DEFINE p == [kind |-> "delete", id |-> IntOf(t[2]), username |-> c, nr |-> Nr(c)]
  <2>1. Push(c, p)
    BY <1>7 DEF DeleteCommand
  <2>2. /\ p.kind \in Kinds \ {"adopt"} /\ p.username = c /\ p.nr = Nr(c)
        /\ p.kind # "select" /\ IsPayload(p)
    <3>1. IntOf(t[2]) \in Int
      BY <1>7, CommandsAssumption DEF DeleteCommand, IsInt, IntOf
    <3>2. QED
      BY <3>1 DEF Kinds, IsPayload
  <2> HIDE DEF p
  <2>3. QED
    BY <2>1, <2>2 DEF Queues
<1>8. CASE UndoCommand(c, t)
  <2> DEFINE p == [kind |-> "undo", username |-> c, nr |-> Nr(c)]
  <2>1. Push(c, p)
    BY <1>8 DEF UndoCommand
  <2>2. /\ p.kind \in Kinds \ {"adopt"} /\ p.username = c /\ p.nr = Nr(c)
        /\ p.kind # "select" /\ IsPayload(p)
    BY DEF Kinds, IsPayload
  <2> HIDE DEF p
  <2>3. QED
    BY <2>1, <2>2 DEF Queues
<1>9. CASE ClearCommand(c, t)
  <2> DEFINE p == [kind |-> IF Word(t, 2) = "all" THEN "clear all" ELSE "clear mine",
                   username |-> c, nr |-> Nr(c)]
  <2>1. Push(c, p)
    BY <1>9 DEF ClearCommand
  <2>2. /\ p.kind \in Kinds \ {"adopt"} /\ p.username = c /\ p.nr = Nr(c)
        /\ p.kind # "select" /\ IsPayload(p)
    BY DEF Kinds, IsPayload
  <2> HIDE DEF p
  <2>3. QED
    BY <2>1, <2>2 DEF Queues
<1>10. CASE ExitCommand(c, t)
  BY <1>1, <1>10, Lengths DEF ExitCommand, Private, handler
<1>11. QED
  BY <1>2, <1>3, <1>4, <1>5, <1>6, <1>7, <1>8, <1>9, <1>10 DEF ProcessLine

\* Every step is of one of these kinds.
LEMMA NextSteps ==
    ASSUME TypeOK, AreSequences, [Next]_vars
    PROVE  \/ UNCHANGED vars
           \/ \E c \in Clients : \/ Queues(c) \/ Private(c) \/ WriteCommand(c)
                                 \/ CancelWriter(c) \/ AdoptDraws(c) \/ Restart(c)
<1>1. CASE Next
  <2>1. PICK c \in Clients :
            \/ \E t \in TokenLines[c] : ProcessLine(c, t)
            \/ WriteCommand(c) \/ CancelWriter(c) \/ AdoptDraws(c) \/ Restart(c)
    BY <1>1 DEF Next
  <2>2. (\E t \in TokenLines[c] : ProcessLine(c, t)) => Queues(c) \/ Private(c)
    BY LineSteps
  <2>3. QED
    BY <2>1, <2>2
<1>2. QED
  BY <1>1

\* The invariant holds at the start.
LEMMA InitIInv ==
    ASSUME Init
    PROVE  IInv
<1>1. ToSet(<<>>) = {} /\ <<>> \in Seq(ToSet(<<>>)) /\ Len(<<>>) = 0 /\ DOMAIN <<>> = {}
  BY DEF ToSet
<1>2. AreSequences
  BY <1>1 DEF Init, AreSequences
<1>3. [c \in Clients |-> <<0, 0, 0>>] \in [Clients -> [1 .. 3 -> 0 .. 255]]
  <2>1. <<0, 0, 0>> \in [1 .. 3 -> 0 .. 255]
    OBVIOUS
  <2>2. QED
    BY <2>1
<1>4. TypeOK
  BY <1>1, <1>3 DEF Init, TypeOK, Tools
<1>5. MadeIsNoNewer /\ NeverBackInTime
  BY <1>1 DEF Init, MadeIsNoNewer, NeverBackInTime
<1>6. QED
  BY <1>2, <1>4, <1>5 DEF IInv
-----------------------------------------------------------------------------
(* What each kind of step preserves *)

\* A queue that grows keeps what it holds.
LEMMA QueuesKeeps ==
    ASSUME IInv, NEW c \in Clients, Queues(c)
    PROVE  IInv' /\ \A d \in Clients : ToSet(queue[d]) \subseteq ToSet(queue'[d])
<1>1. PICK p : Push(c, p) /\ p.kind \in Kinds \ {"adopt"} /\ p.username = c /\ p.nr = Nr(c)
  BY DEF Queues
<1>2. UNCHANGED <<tool, colour, selected, listing, late, again, status, applied, seen>>
  BY <1>1 DEF Push, handler
<1>3. /\ typed \in [Clients -> Nat] /\ typed[c] \in Nat /\ Nr(c) = typed[c] + 1
      /\ typed' = [typed EXCEPT ![c] = Nr(c)] /\ queue' = [queue EXCEPT ![c] = Append(@, p)]
  BY <1>1 DEF IInv, TypeOK, Push, Nr
<1>4. /\ typed' \in [Clients -> Nat] /\ typed'[c] = typed[c] + 1
      /\ \A d \in Clients \ {c} : typed'[d] = typed[d]
      /\ \A d \in Clients : typed[d] \in Nat /\ typed'[d] \in Nat /\ typed[d] <= typed'[d]
  BY <1>3
<1>5. /\ queue' = [d \in Clients |-> queue'[d]]
      /\ queue'[c] = Append(queue[c], p) /\ \A d \in Clients \ {c} : queue'[d] = queue[d]
  BY <1>3 DEF IInv, AreSequences
<1>6. queue[c] \in Seq(ToSet(queue[c]))
  BY DEF IInv, AreSequences
<1>7. /\ queue'[c] \in Seq(ToSet(queue'[c])) /\ Last(queue'[c]) = p
      /\ ToSet(queue'[c]) = ToSet(queue[c]) \cup {p}
  BY <1>5, <1>6, AppendTo
<1>8. TypeOK'
  <2>1. ASSUME NEW d \in Clients, NEW q \in ToSet(queue'[d])
        PROVE  q.kind \in Kinds \ {"adopt"} /\ q.username = d /\ q.nr \in 1 .. typed'[d]
    <3>1. CASE q \in ToSet(queue[d])
      <4>1. q.kind \in Kinds \ {"adopt"} /\ q.username = d /\ q.nr \in 1 .. typed[d]
        BY <3>1 DEF IInv, TypeOK
      <4>2. QED
        BY <4>1, <1>4
    <3>2. CASE d = c /\ q = p
      BY <1>1, <1>3, <1>4, <3>2
    <3>3. QED
      BY <2>1, <3>1, <3>2, <1>5, <1>7
  <2>2. QED
    BY <1>2, <1>4, <2>1 DEF IInv, TypeOK
<1>9. AreSequences'
  BY <1>2, <1>5, <1>7 DEF IInv, AreSequences
<1>10. MadeIsNoNewer'
  <2> SUFFICES ASSUME NEW i \in DOMAIN applied, ~IsAdopt(applied[i])
               PROVE  /\ applied[i].nr \in Nat
                      /\ applied[i].nr <= typed'[applied[i].username]
                      /\ queue'[applied[i].username] # <<>> =>
                            applied[i].nr <= Last(queue'[applied[i].username]).nr
    BY <1>2 DEF MadeIsNoNewer, IsAdopt
  <2> DEFINE n == applied[i].nr
             u == applied[i].username
  <2>1. u \in Clients
    BY DEF IInv, TypeOK, ToSet
  <2>2. n \in Nat /\ n <= typed[u] /\ (queue[u] # <<>> => n <= Last(queue[u]).nr)
    BY DEF IInv, MadeIsNoNewer
  <2>3. n <= typed'[u]
    <3> HIDE DEF n, u
    <3>1. QED
      BY <2>1, <2>2, <1>4
  <2>4. queue'[u] # <<>> => n <= Last(queue'[u]).nr
    <3> HIDE DEF n, u
    <3>1. CASE u = c
      BY <3>1, <2>2, <1>1, <1>3, <1>7
    <3>2. CASE u # c
      BY <3>2, <2>1, <2>2, <1>5
    <3>3. QED
      BY <3>1, <3>2
  <2>5. QED
    BY <2>2, <2>3, <2>4
<1>11. NeverBackInTime'
  BY <1>2 DEF IInv, NeverBackInTime, IsAdopt
<1>12. QED
  BY <1>5, <1>7, <1>8, <1>9, <1>10, <1>11 DEF IInv

\* A private step leaves the queues and the log alone.
LEMMA PrivateKeeps ==
    ASSUME IInv, NEW c \in Clients, Private(c)
    PROVE  IInv'
<1>1. UNCHANGED <<queue, applied, typed>>
  BY DEF Private
<1>2. TypeOK'
  <2>1. \A d \in Clients : seen'[d] \in 0 .. Len(applied) /\ late'[d] \in 0 .. seen'[d]
    BY Lengths DEF IInv, Private
  <2>2. QED
    BY <1>1, <2>1 DEF IInv, TypeOK, Private
<1>3. AreSequences' /\ MadeIsNoNewer' /\ NeverBackInTime'
  <2>1. listing' = [d \in Clients |-> listing'[d]]
    BY DEF Private, Looks, IInv, AreSequences
  <2>2. QED
    BY <1>1, <2>1 DEF IInv, AreSequences, MadeIsNoNewer, NeverBackInTime, IsAdopt
<1>4. QED
  BY <1>2, <1>3 DEF IInv

\* What is written is the newest command of its queue, which keeps it unless it
\* was alone.
LEMMA WriteCommandKeeps ==
    ASSUME IInv, NEW c \in Clients, WriteCommand(c)
    PROVE  /\ IInv'
           /\ Last(queue[c]) \in ToSet(applied')
           /\ \A d \in Clients \ {c} : queue'[d] = queue[d]
<1> DEFINE q == Last(queue[c])
<1>1. /\ queue[c] # <<>> /\ applied' = Append(applied, q)
      /\ queue' = [queue EXCEPT ![c] = Tail(@)]
      /\ UNCHANGED <<tool, colour, selected, listing, late, again, status, seen, typed>>
  BY DEF WriteCommand, handler
<1>2. /\ queue[c] \in Seq(ToSet(queue[c])) /\ applied \in Seq(ToSet(applied))
      /\ queue = [d \in Clients |-> queue[d]]
  BY DEF IInv, AreSequences
<1>3. /\ queue' = [d \in Clients |-> queue'[d]]
      /\ queue'[c] = Tail(queue[c]) /\ \A d \in Clients \ {c} : queue'[d] = queue[d]
  BY <1>1, <1>2
<1>4. /\ queue'[c] \in Seq(ToSet(queue'[c])) /\ ToSet(queue'[c]) \subseteq ToSet(queue[c])
      /\ q \in ToSet(queue[c]) /\ (queue'[c] # <<>> => Last(queue'[c]) = q)
  BY <1>1, <1>2, <1>3, TailOf
<1> HIDE DEF q
<1>5. /\ applied' \in Seq(ToSet(applied')) /\ ToSet(applied') = ToSet(applied) \cup {q}
      /\ DOMAIN applied' = DOMAIN applied \cup {Len(applied) + 1}
      /\ \A i \in DOMAIN applied : applied'[i] = applied[i]
      /\ applied'[Len(applied) + 1] = q /\ Len(applied') = Len(applied) + 1
  BY <1>1, <1>2, AppendTo
<1>6. DOMAIN applied = 1 .. Len(applied) /\ Len(applied) \in Nat
  BY <1>2, LenProperties
<1>7. /\ q.kind \in Kinds \ {"adopt"} /\ q.username = c /\ q.nr \in 1 .. typed[c]
      /\ typed[c] \in Nat
  BY <1>4 DEF IInv, TypeOK
<1>8. TypeOK'
  <2>1. \A d \in Clients : ToSet(queue'[d]) \subseteq ToSet(queue[d])
    BY <1>3, <1>4
  <2>2. \A d \in Clients : \A p \in ToSet(queue'[d]) :
            p.kind \in Kinds \ {"adopt"} /\ p.username = d /\ p.nr \in 1 .. typed[d]
    BY <2>1 DEF IInv, TypeOK
  <2>3. \A p \in ToSet(applied') : p.kind \in Kinds /\ p.username \in Clients
    BY <1>5, <1>7 DEF IInv, TypeOK
  <2>4. \A d \in Clients : seen[d] \in 0 .. Len(applied')
    BY <1>5, <1>6, Lengths DEF IInv
  <2>5. QED
    BY <1>1, <2>2, <2>3, <2>4 DEF IInv, TypeOK
<1>9. AreSequences'
  BY <1>1, <1>3, <1>4, <1>5 DEF IInv, AreSequences
<1>10. ASSUME NEW i \in DOMAIN applied, ~IsAdopt(applied[i])
       PROVE  /\ applied[i].nr \in Nat /\ applied[i].username \in Clients
              /\ applied[i].nr <= typed[applied[i].username]
              /\ queue[applied[i].username] # <<>> =>
                    applied[i].nr <= Last(queue[applied[i].username]).nr
  BY <1>10 DEF IInv, TypeOK, MadeIsNoNewer, ToSet
<1>11. MadeIsNoNewer'
  <2> SUFFICES ASSUME NEW i \in DOMAIN applied', ~IsAdopt(applied'[i])
               PROVE  /\ applied'[i].nr \in Nat
                      /\ applied'[i].nr <= typed[applied'[i].username]
                      /\ queue'[applied'[i].username] # <<>> =>
                            applied'[i].nr <= Last(queue'[applied'[i].username]).nr
    BY <1>1 DEF MadeIsNoNewer, IsAdopt
  <2>1. CASE i \in DOMAIN applied
    <3>1. CASE applied[i].username = c
      <4>1. queue'[c] # <<>> => applied[i].nr <= Last(queue'[c]).nr
        BY <2>1, <3>1, <1>1, <1>4, <1>5, <1>10 DEF q
      <4>2. QED
        BY <2>1, <3>1, <4>1, <1>5, <1>10
    <3>2. CASE applied[i].username # c
      BY <2>1, <3>2, <1>3, <1>5, <1>10
    <3>3. QED
      BY <3>1, <3>2
  <2>2. CASE i = Len(applied) + 1
    <3>1. q.nr \in Nat /\ q.nr <= typed[c]
      BY <1>7
    <3>2. QED
      BY <2>2, <3>1, <1>4, <1>5, <1>7
  <2>3. QED
    BY <2>1, <2>2, <1>5
<1>12. NeverBackInTime'
  <2> SUFFICES ASSUME NEW i \in DOMAIN applied', NEW j \in DOMAIN applied', i < j,
                      ~IsAdopt(applied'[i]), ~IsAdopt(applied'[j]),
                      applied'[i].username = applied'[j].username
               PROVE  applied'[i].nr <= applied'[j].nr
    BY DEF NeverBackInTime, IsAdopt
  <2>1. i \in DOMAIN applied
    BY <1>5, <1>6
  <2>2. CASE j \in DOMAIN applied
    BY <2>1, <2>2, <1>5 DEF IInv, NeverBackInTime
  <2>3. CASE j = Len(applied) + 1
    <3>1. applied[i].username = c
      BY <2>1, <2>3, <1>5, <1>7
    <3>2. applied[i].nr <= q.nr
      BY <2>1, <3>1, <1>1, <1>5, <1>10 DEF q
    <3>3. QED
      BY <2>1, <2>3, <3>2, <1>5
  <2>4. QED
    BY <2>2, <2>3, <1>5
<1>13. QED
  BY <1>3, <1>5, <1>8, <1>9, <1>11, <1>12 DEF IInv, q

\* A queue that is thrown away holds back nothing that was made.
LEMMA CancelWriterKeeps ==
    ASSUME IInv, NEW c \in Clients, CancelWriter(c)
    PROVE  IInv' /\ status[c] # "running" /\ \A d \in Clients \ {c} : queue'[d] = queue[d]
<1>1. /\ status[c] = "exited" /\ queue' = [queue EXCEPT ![c] = <<>>]
      /\ UNCHANGED <<tool, colour, selected, listing, late, again, status, applied, seen, typed>>
  BY DEF CancelWriter, handler
<1>2. /\ queue' = [d \in Clients |-> queue'[d]]
      /\ queue'[c] = <<>> /\ \A d \in Clients \ {c} : queue'[d] = queue[d]
  BY <1>1 DEF IInv, AreSequences
<1>3. ToSet(<<>>) = {} /\ <<>> \in Seq(ToSet(<<>>))
  BY DEF ToSet
<1>4. TypeOK'
  <2>1. \A d \in Clients : ToSet(queue'[d]) \subseteq ToSet(queue[d])
    BY <1>2, <1>3
  <2>2. \A d \in Clients : \A p \in ToSet(queue'[d]) :
            p.kind \in Kinds \ {"adopt"} /\ p.username = d /\ p.nr \in 1 .. typed[d]
    BY <2>1 DEF IInv, TypeOK
  <2>3. QED
    BY <1>1, <2>2 DEF IInv, TypeOK
<1>5. AreSequences'
  BY <1>1, <1>2, <1>3 DEF IInv, AreSequences
<1>6. MadeIsNoNewer'
  <2>1. \A i \in DOMAIN applied : applied[i].username \in Clients
    BY DEF IInv, TypeOK, ToSet
  <2>2. QED
    BY <1>1, <1>2, <2>1 DEF IInv, MadeIsNoNewer, IsAdopt
<1>7. NeverBackInTime'
  BY <1>1 DEF IInv, NeverBackInTime, IsAdopt
<1>8. QED
  BY <1>1, <1>2, <1>4, <1>5, <1>6, <1>7 DEF IInv

\* An adoption is nobody's command.
LEMMA AdoptDrawsKeeps ==
    ASSUME IInv, NEW c \in Clients, AdoptDraws(c)
    PROVE  IInv' /\ queue' = queue
<1> DEFINE q == [kind |-> "adopt", username |-> c]
<1>1. /\ status' = [status EXCEPT ![c] = "adopted"] /\ applied' = Append(applied, q)
      /\ UNCHANGED <<tool, colour, selected, listing, late, again, queue, seen, typed>>
  BY DEF AdoptDraws, handler
<1>2. q.kind = "adopt" /\ q.username = c
  OBVIOUS
<1> HIDE DEF q
<1>3. applied \in Seq(ToSet(applied))
  BY DEF IInv, AreSequences
<1>4. /\ applied' \in Seq(ToSet(applied')) /\ ToSet(applied') = ToSet(applied) \cup {q}
      /\ DOMAIN applied' = DOMAIN applied \cup {Len(applied) + 1}
      /\ \A i \in DOMAIN applied : applied'[i] = applied[i]
      /\ applied'[Len(applied) + 1] = q /\ Len(applied') = Len(applied) + 1
  BY <1>1, <1>3, AppendTo
<1>5. TypeOK'
  <2>1. \A d \in Clients : seen[d] \in 0 .. Len(applied')
    BY <1>4, Lengths DEF IInv
  <2>2. \A p \in ToSet(applied') : p.kind \in Kinds /\ p.username \in Clients
    BY <1>2, <1>4 DEF IInv, TypeOK, Kinds
  <2>3. QED
    BY <1>1, <2>1, <2>2 DEF IInv, TypeOK
<1>6. AreSequences'
  BY <1>1, <1>4 DEF IInv, AreSequences
<1>7. \A i \in DOMAIN applied' : ~IsAdopt(applied'[i]) =>
        i \in DOMAIN applied /\ applied'[i] = applied[i]
  BY <1>2, <1>4 DEF IsAdopt
<1>8. MadeIsNoNewer'
  <2>1. UNCHANGED <<queue, typed>>
    BY <1>1
  <2>2. QED
    BY <2>1, <1>7 DEF IInv, MadeIsNoNewer, IsAdopt
<1>9. NeverBackInTime'
  BY <1>7 DEF IInv, NeverBackInTime, IsAdopt
<1>10. QED
  BY <1>1, <1>5, <1>6, <1>8, <1>9 DEF IInv

\* A client that starts again has seen all that was made, and selects nothing.
LEMMA RestartKeeps ==
    ASSUME IInv, NEW c \in Clients, Restart(c)
    PROVE  Private(c)
<1>1. /\ status' = [status EXCEPT ![c] = "running"] /\ seen' = [seen EXCEPT ![c] = Len(applied)]
      /\ late' = [late EXCEPT ![c] = Len(applied)] /\ again' = [again EXCEPT ![c] = FALSE]
      /\ tool' = [tool EXCEPT ![c] = "line"] /\ colour' = [colour EXCEPT ![c] = <<0, 0, 0>>]
      /\ selected' = [selected EXCEPT ![c] = None]
      /\ UNCHANGED <<queue, applied, typed>>
  BY DEF Restart
<1>2. <<0, 0, 0>> \in [1 .. 3 -> 0 .. 255] /\ "line" \in Tools
  BY DEF Tools
<1>3. /\ seen' \in [Clients -> Nat] /\ \A d \in Clients : seen'[d] <= Len(applied)
      /\ late' \in [Clients -> Nat] /\ again' \in [Clients -> BOOLEAN]
      /\ \A d \in Clients : late'[d] <= seen'[d]
  BY <1>1, Lengths DEF IInv
<1>4. tool' \in [Clients -> Tools] /\ colour' \in [Clients -> [1 .. 3 -> 0 .. 255]]
  BY <1>1, <1>2 DEF IInv, TypeOK
<1>5. listing' = [listing EXCEPT ![c] = {}] /\ listing = [d \in Clients |-> listing[d]]
  BY DEF Restart, IInv, AreSequences
<1>6. Looks(c)
  BY <1>1, <1>5, Lengths DEF Looks, IInv
<1>7. QED
  BY <1>1, <1>3, <1>4, <1>6 DEF IInv, TypeOK, Private

\* Every step keeps the invariant.
LEMMA Inductive ==
    ASSUME IInv, [Next]_vars
    PROVE  IInv'
<1>1. CASE UNCHANGED vars
  BY <1>1 DEF vars, handler, IInv, TypeOK, AreSequences, MadeIsNoNewer, NeverBackInTime, IsAdopt
<1>2. ASSUME NEW c \in Clients,
             \/ Queues(c) \/ Private(c) \/ WriteCommand(c)
             \/ CancelWriter(c) \/ AdoptDraws(c) \/ Restart(c)
      PROVE  IInv'
  BY <1>2, QueuesKeeps, PrivateKeeps, WriteCommandKeeps, CancelWriterKeeps,
     AdoptDrawsKeeps, RestartKeeps
<1>3. QED
  BY <1>1, <1>2, NextSteps DEF IInv

\* The invariant holds throughout.
LEMMA InvariantHolds == Spec => []IInv
<1>1. Init => IInv
  BY InitIInv
<1>2. IInv /\ [Next]_vars => IInv'
  BY Inductive
<1>3. QED
  BY <1>1, <1>2, PTL DEF Spec
-----------------------------------------------------------------------------
(* The drawing that the commands make *)

\* What a log began with does not change when it grows.
LEMMA BeginningStays ==
    ASSUME NEW log, IsLog(log), NEW p, IsPayload(p), NEW n \in 0 .. Len(log)
    PROVE  Replay(SubSeq(Append(log, p), 1, n)) = Replay(SubSeq(log, 1, n))
<1> DEFINE long == Append(log, p)
           was == SubSeq(log, 1, n)
           now == SubSeq(long, 1, n)
<1>1. /\ Len(long) = Len(log) + 1 /\ Len(log) \in Nat
      /\ \A k \in 1 .. Len(log) : long[k] = log[k]
  BY AppendTo, LenProperties DEF IsLog
<1>2. IsLog(long)
  BY ReplayAppend
<1> HIDE DEF long
<1>3. IsLog(was) /\ Len(was) = n /\ \A k \in 1 .. n : was[k] = log[k]
  BY PrefixIsLog
<1>4. IsLog(now) /\ Len(now) = n /\ \A k \in 1 .. n : now[k] = long[k]
  BY <1>1, <1>2, PrefixIsLog
<1>5. n <= Len(long) /\ \A k \in 1 .. n : k \in 1 .. Len(log)
  BY <1>1
<1>6. \A k \in 1 .. n : was[k] = long[k]
  BY <1>1, <1>3, <1>5
<1>7. PICK f : Follows(f, long)
  BY <1>2, ReplayRecursion
<1> HIDE DEF was, now
<1>8. Replay(was) = f[n]
  BY <1>2, <1>3, <1>5, <1>6, <1>7, ReplayPrefix
<1>9. Replay(now) = f[n]
  BY <1>2, <1>4, <1>5, <1>7, ReplayPrefix
<1>10. QED
  BY <1>8, <1>9 DEF was, now, long

\* Before the command made last, the log was what it is without it.
LEMMA FrontOf ==
    ASSUME NEW log, IsLog(log), NEW p, IsPayload(p)
    PROVE  Replay(Front(Append(log, p))) = Replay(log)
<1> DEFINE long == Append(log, p)
           now == SubSeq(long, 1, Len(log))
<1>1. /\ Len(long) = Len(log) + 1 /\ Len(log) \in Nat
      /\ \A k \in 1 .. Len(log) : long[k] = log[k]
  BY AppendTo, LenProperties DEF IsLog
<1>2. IsLog(long)
  BY ReplayAppend
<1>3. Front(long) = now
  <2>1. Len(long) - 1 = Len(log)
    BY <1>1
  <2>2. QED
    BY <2>1 DEF Front
<1> HIDE DEF long
<1>4. IsLog(now) /\ Len(now) = Len(log) /\ \A k \in 1 .. Len(log) : now[k] = long[k]
  <2>1. Len(log) \in 0 .. Len(long)
    BY <1>1
  <2>2. QED
    BY <1>2, <2>1, PrefixIsLog
<1>5. PICK f : Follows(f, log)
  BY ReplayRecursion
<1> HIDE DEF now
<1>6. Replay(now) = f[Len(log)]
  <2>1. Len(now) <= Len(log) /\ \A k \in 1 .. Len(now) : now[k] = log[k]
    BY <1>1, <1>4
  <2>2. QED
    BY <1>4, <1>5, <2>1, ReplayPrefix
<1>7. QED
  BY <1>3, <1>5, <1>6 DEF Follows, long

\* While nothing is erased, an id stays that of its draw until it is selected.
LEMMA IdStays ==
    ASSUME NEW log, IsLog(log), NEW f, Follows(f, log), NEW n \in 0 .. Len(log), NEW id \in Int,
           InRange(f[n], id), \A k \in n + 1 .. Len(log) : ~IsErasure(log[k])
    PROVE  /\ InRange(f[Len(log)], id)
           /\ \/ f[Len(log)][id + 1].draw = f[n][id + 1].draw
              \/ \E k \in n + 1 .. Len(log) : log[k].kind = "select" /\ log[k].id = id
<1> DEFINE m == Len(log)
           Stays(j) == /\ InRange(f[j], id)
                       /\ \/ f[j][id + 1].draw = f[n][id + 1].draw
                          \/ \E k \in n + 1 .. j : log[k].kind = "select" /\ log[k].id = id
           T == {i \in 0 .. m - n : Stays(n + i)}
<1>1. m \in Nat /\ m - n \in Nat /\ n \in Nat
  BY LenProperties DEF IsLog
<1>2. 0 \in T
  <2>1. n + 0 = n /\ 0 \in 0 .. m - n
    BY <1>1
  <2>2. Stays(n + 0)
    BY <2>1
  <2> HIDE DEF Stays
  <2>3. QED
    BY <2>1, <2>2
<1>3. ASSUME NEW i \in 0 .. (m - n) - 1, i \in T PROVE i + 1 \in T
  <2> DEFINE j == n + i
  <2>1. /\ j + 1 = n + (i + 1) /\ j + 1 \in n + 1 .. m /\ j + 1 \in 1 .. m /\ (j + 1) - 1 = j
        /\ j \in 0 .. m /\ i + 1 \in 0 .. m - n /\ j \in Int
    BY <1>1
  <2>2. Stays(j)
    BY <1>3
  <2> HIDE DEF j
  <2>3. f[j] \in Vectors /\ f[j + 1] = Apply(f[j], log[j + 1])
    BY <2>1 DEF Follows
  <2>4. IsPayload(log[j + 1]) /\ ~IsErasure(log[j + 1])
    BY <2>1 DEF IsLog
  <2>5. /\ InRange(f[j + 1], id)
        /\ \/ f[j + 1][id + 1].draw = f[j][id + 1].draw
           \/ log[j + 1].kind = "select" /\ log[j + 1].id = id
    BY <2>2, <2>3, <2>4, ApplyStays
  <2>6. /\ \A k \in n + 1 .. j : k \in n + 1 .. j + 1
        /\ j + 1 \in n + 1 .. j + 1
    BY <1>1, <2>1
  <2>7. Stays(j + 1)
    BY <2>2, <2>5, <2>6
  <2> HIDE DEF Stays
  <2>8. QED
    BY <2>1, <2>7
<1> HIDE DEF T, m
<1>4. 0 .. m - n \subseteq T
  BY <1>1, <1>2, <1>3, InductionUpTo
<1>5. m - n \in T /\ n + (m - n) = m
  BY <1>1, <1>4
<1>6. Stays(m)
  <2>1. Stays(n + (m - n))
    <3> HIDE DEF Stays
    <3>1. QED
      BY <1>5 DEF T
  <2> HIDE DEF Stays
  <2>2. QED
    BY <1>5, <2>1
<1>7. QED
  BY <1>6 DEF m

\* Who clears his draws leaves those of the others.
LEMMA ClearMineSpares ==
    ASSUME NEW v \in Vectors, NEW u \in Clients
    PROVE  OthersWork(ClearMine(v, u), u) = OthersWork(v, u)
<1> DEFINE w == ClearMine(v, u)
           theirs == {i \in DOMAIN w : w[i].draw.by # u}
<1>1. /\ w \in Vectors
      /\ \A e \in ToSet(w) : e.username # u
  BY ClearMineVector
<1>2. OthersWork(v, u) = w
  <2>1. \A i \in DOMAIN v : v[i].draw.by = v[i].username
    BY VectorIs, EntryFields
  <2>2. {i \in DOMAIN v : v[i].draw.by # u} = {i \in DOMAIN v : ~IsOf(u, v[i])}
    BY <2>1 DEF IsOf
  <2>3. QED
    BY <2>2 DEF OthersWork, ClearMine
<1> HIDE DEF w
<1>3. /\ Len(w) \in Nat /\ DOMAIN w = 1 .. Len(w) /\ \A i \in 1 .. Len(w) : w[i] \in Entries
      /\ ToSet(w) = {w[i] : i \in 1 .. Len(w)}
  BY <1>1, VectorIs
<1>4. 1 .. Len(w) \subseteq theirs
  <2>1. \A i \in 1 .. Len(w) : w[i].draw.by = w[i].username /\ w[i].username # u
    BY <1>1, <1>3, EntryFields
  <2>2. QED
    BY <1>3, <2>1
<1>5. OthersWork(w, u) = Part(w, theirs)
  BY DEF OthersWork
<1> HIDE DEF theirs
<1>6. Part(w, theirs) = w
  BY <1>1, <1>4, PartOfAll DEF Vectors
<1>7. QED
  BY <1>2, <1>5, <1>6 DEF w

\* Who undoes erases at most a draw of his own.
LEMMA UndoSpares ==
    ASSUME NEW v \in Vectors, NEW u \in Clients
    PROVE  OthersWork(Undo(v, u), u) = OthersWork(v, u)
<1>1. CASE Undo(v, u) = v
  BY <1>1
<1>2. ASSUME NEW i \in 1 .. Len(v), v[i].username = u, Undo(v, u) = RemoveAt(v, i)
      PROVE  OthersWork(Undo(v, u), u) = OthersWork(v, u)
  <2> DEFINE w == RemoveAt(v, i)
             n == Len(v)
             all == {k \in DOMAIN v : v[k].draw.by # u}
             rest == {k \in DOMAIN w : w[k].draw.by # u}
  <2>1. /\ w \in Vectors /\ Len(w) = n - 1
        /\ \A k \in 1 .. n - 1 : w[k] = IF k < i THEN v[k] ELSE v[k + 1]
    BY RemoveAtProperties DEF Vectors
  <2>2. n \in Nat /\ DOMAIN v = 1 .. n /\ i \in 1 .. n /\ v[i].draw.by = u
    BY <1>2, VectorIs, EntryFields
  <2>3. OthersWork(v, u) = Part(v, all) /\ OthersWork(w, u) = Part(w, rest)
    BY DEF OthersWork
  <2> HIDE DEF w
  <2>4. DOMAIN w = 1 .. n - 1
    BY <2>1, VectorIs
  <2>5. \A k \in 1 .. n : (k \in all) = (v[k].draw.by # u)
    BY <2>2
  <2>6. \A k \in 1 .. n - 1 : (k \in rest) = (w[k].draw.by # u)
    BY <2>4
  <2> HIDE DEF all, rest
  <2>7. PICK f : Collects(f, v, all)
    BY PartRecursion DEF Vectors
  <2>8. PICK g : Collects(g, w, rest)
    BY <2>1, PartRecursion DEF Vectors
  <2>9. /\ f[0] = <<>> /\ f[n] = Part(v, all)
        /\ \A k \in 1 .. n : f[k] = IF k \in all THEN Append(f[k - 1], v[k]) ELSE f[k - 1]
    BY <2>7 DEF Collects
  <2>10. /\ g[0] = <<>> /\ g[n - 1] = Part(w, rest)
         /\ \A k \in 1 .. n - 1 : g[k] = IF k \in rest THEN Append(g[k - 1], w[k]) ELSE g[k - 1]
    BY <2>1, <2>8 DEF Collects
  <2> HIDE DEF n
  <2> DEFINE T == {k \in 0 .. n - 1 : g[k] = IF k < i THEN f[k] ELSE f[k + 1]}
  <2>11. f[i] = f[i - 1]
    BY <2>2, <2>5, <2>9
  <2>12. 0 \in T
    BY <2>2, <2>9, <2>10
  <2>13. ASSUME NEW k \in 0 .. (n - 1) - 1, k \in T PROVE k + 1 \in T
    <3>1. k + 1 \in 1 .. n - 1 /\ k + 1 \in 0 .. n - 1 /\ k + 1 \in 1 .. n /\ k + 2 \in 1 .. n
          /\ (k + 1) - 1 = k /\ (k + 2) - 1 = k + 1 /\ (k + 1) + 1 = k + 2
      BY <2>2
    <3>2. g[k + 1] = IF k + 1 \in rest THEN Append(g[k], w[k + 1]) ELSE g[k]
      BY <2>10, <3>1
    <3>3. CASE k + 1 < i
      <4>1. w[k + 1] = v[k + 1] /\ g[k] = f[k]
        BY <2>1, <2>2, <2>13, <3>1, <3>3
      <4>2. (k + 1 \in rest) = (k + 1 \in all)
        BY <2>5, <2>6, <3>1, <4>1
      <4>3. f[k + 1] = IF k + 1 \in all THEN Append(f[k], v[k + 1]) ELSE f[k]
        BY <2>9, <3>1
      <4>4. g[k + 1] = f[k + 1]
        BY <3>2, <4>1, <4>2, <4>3
      <4>5. QED
        BY <3>1, <3>3, <4>4
    <3>4. CASE ~(k + 1 < i)
      <4>1. w[k + 1] = v[k + 2]
        BY <2>1, <3>1, <3>4
      <4>2. g[k] = f[k + 1]
        <5>1. CASE k < i
          <6>1. k + 1 = i
            BY <2>2, <3>1, <3>4, <5>1
          <6>2. g[k] = f[k]
            BY <2>13, <5>1
          <6>3. QED
            BY <2>11, <3>1, <6>1, <6>2
        <5>2. CASE ~(k < i)
          BY <2>13, <5>2
        <5>3. QED
          BY <5>1, <5>2
      <4>3. (k + 1 \in rest) = (k + 2 \in all)
        BY <2>5, <2>6, <3>1, <4>1
      <4>4. f[k + 2] = IF k + 2 \in all THEN Append(f[k + 1], v[k + 2]) ELSE f[k + 1]
        BY <2>9, <3>1
      <4>5. g[k + 1] = f[(k + 1) + 1]
        BY <3>1, <3>2, <4>1, <4>2, <4>3, <4>4
      <4>6. QED
        BY <3>1, <3>4, <4>5
    <3>5. QED
      BY <3>3, <3>4
  <2> HIDE DEF T
  <2>14. n - 1 \in Nat
    BY <2>2
  <2>15. 0 .. n - 1 \subseteq T
    BY <2>12, <2>13, <2>14, InductionUpTo
  <2>16. n - 1 \in T /\ (n - 1) + 1 = n
    BY <2>14, <2>15, <2>2
  <2>17. g[n - 1] = f[n]
    <3>1. CASE n - 1 < i
      <4>1. i = n
        BY <2>2, <3>1
      <4>2. g[n - 1] = f[n - 1]
        BY <2>16, <3>1 DEF T
      <4>3. QED
        BY <2>11, <4>1, <4>2
    <3>2. CASE ~(n - 1 < i)
      BY <2>16, <3>2 DEF T
    <3>3. QED
      BY <3>1, <3>2
  <2>18. Undo(v, u) = w
    BY <1>2 DEF w
  <2>19. QED
    BY <2>3, <2>9, <2>10, <2>17, <2>18
<1>3. QED
  BY <1>1, <1>2, UndoIs

\* What the log has become when a command has been made, and was before it.
Grows(p) ==
    /\ applied \in Seq(ToSet(applied)) /\ DOMAIN applied = 1 .. Len(applied) /\ Len(applied) \in Nat
    /\ DOMAIN applied' = 1 .. Len(applied) + 1 /\ Len(applied') = Len(applied) + 1
    /\ applied' # <<>> /\ Latest' = p /\ applied'[Len(applied) + 1] = p
    /\ \A k \in 1 .. Len(applied) : applied'[k] = applied[k]
    /\ IsLog(applied) /\ IsLog(applied')
    /\ Replay(applied) \in Vectors /\ Replay(applied') = Apply(Replay(applied), p)
    /\ Before' = Replay(applied)
    /\ \A n \in 0 .. Len(applied) : Replay(SubSeq(applied', 1, n)) = Replay(SubSeq(applied, 1, n))
    /\ \A k \in 0 .. Len(applied) : RepeatShows(k)' = RepeatShows(k)

\* A command that is made is the latest of a log that is otherwise what it was.
LEMMA Growth ==
    ASSUME Sent, NEW p, IsPayload(p), applied' = Append(applied, p)
    PROVE  Grows(p)
<1>1. IsLog(applied) /\ applied \in Seq(ToSet(applied))
  BY DEF Sent, IsLog
<1>2. DOMAIN applied = 1 .. Len(applied) /\ Len(applied) \in Nat
  BY <1>1, LenProperties
<1>3. /\ applied' # <<>> /\ Last(applied') = p /\ Len(applied') = Len(applied) + 1
      /\ applied'[Len(applied) + 1] = p /\ applied' \in Seq(ToSet(applied'))
      /\ \A k \in 1 .. Len(applied) : applied'[k] = applied[k]
  BY <1>1, <1>2, AppendTo
<1>4. DOMAIN applied' = 1 .. Len(applied) + 1
  BY <1>3, LenProperties
<1>5. /\ IsLog(applied') /\ Replay(applied) \in Vectors
      /\ Replay(applied') = Apply(Replay(applied), p)
  BY <1>1, ReplayAppend
<1>6. Replay(Front(applied')) = Replay(applied)
  BY <1>1, FrontOf
<1>7. \A n \in 0 .. Len(applied) : Replay(SubSeq(applied', 1, n)) = Replay(SubSeq(applied, 1, n))
  BY <1>1, BeginningStays
<1>8. ASSUME NEW k \in 0 .. Len(applied) PROVE RepeatShows(k)' = RepeatShows(k)
  <2>1. CASE k = 0
    BY <2>1 DEF RepeatShows
  <2>2. CASE k # 0
    <3>1. k \in 1 .. Len(applied)
      BY <1>2, <2>2
    <3>2. applied'[k] = applied[k] /\ Replay(SubSeq(applied', 1, k)) = Replay(SubSeq(applied, 1, k))
      BY <1>3, <1>7, <3>1
    <3>3. QED
      BY <3>2, Zenon DEF RepeatShows
  <2>3. QED
    BY <2>1, <2>2
<1>9. QED
  BY <1>1, <1>2, <1>3, <1>4, <1>5, <1>6, <1>7, <1>8 DEF Grows, Latest, Before

\* What an id stood for, it will have stood for.
LEMMA StoodFor ==
    ASSUME NEW p, Grows(p), NEW k, NEW n, NEW id, NEW d, StandsFor(k, n, id, d)
    PROVE  StandsFor(k, n, id, d)'
<1>1. n \in 0 .. Len(applied) /\ n \in 0 .. Len(applied') /\ k \in 0 .. Len(applied)
  BY DEF StandsFor, Grows
<1>2. /\ Replay(SubSeq(applied', 1, n)) = Replay(SubSeq(applied, 1, n))
      /\ RepeatShows(k)' = RepeatShows(k)
  BY <1>1 DEF Grows
<1>3. QED
  BY <1>1, <1>2 DEF StandsFor, InRange

\* What is a user's own has been drawn since he was adopted last.
LEMMA MineKeeps ==
    ASSUME NEW p, IsPayload(p), Grows(p), Sent, MineIsSinceAdoption
    PROVE  MineIsSinceAdoption'
<1> SUFFICES ASSUME NEW k \in 1 .. Len(applied) + 1, applied'[k].kind = "adopt",
                    NEW e \in ToSet(Replay(applied')), IsMine(applied'[k].username, e)
             PROVE  \E j \in 1 .. Len(applied) + 1 :
                       j > k /\ applied'[j].kind \in {"draw", "select"} /\ applied'[j].draw = e.draw
  <2>1. DOMAIN applied' = 1 .. Len(applied) + 1
    BY DEF Grows
  <2>2. QED
    BY <2>1 DEF MineIsSinceAdoption, IsMine
<1> DEFINE u == applied'[k].username
           v == Replay(applied)
           n == Len(applied)
<1>1. n \in Nat /\ v \in Vectors /\ applied'[n + 1] = p /\ \A i \in 1 .. n : applied'[i] = applied[i]
  BY DEF Grows
<1>2. u \in Clients
  BY DEF Grows, IsLog, IsPayload
<1>3. e \in ToSet(Apply(v, p)) /\ IsMine(u, e)
  BY DEF Grows
<1> HIDE DEF u, v
<1>4. \/ p.kind \in {"draw", "select"} /\ p.draw = e.draw
      \/ /\ ~(p.kind = "adopt" /\ p.username = u)
         /\ \E d \in ToSet(v) : IsMine(u, d) /\ d.draw = e.draw
  BY <1>1, <1>2, <1>3, ApplyMine
<1>5. CASE k = n + 1
  <2>1. p.kind = "adopt" /\ p.username = u
    BY <1>1, <1>5 DEF u
  <2>2. QED
    BY <1>4, <2>1
<1>6. CASE k \in 1 .. n
  <2>1. applied'[k] = applied[k] /\ applied[k].kind = "adopt" /\ applied[k].username = u
    BY <1>1, <1>6 DEF u
  <2>2. CASE p.kind \in {"draw", "select"} /\ p.draw = e.draw
    <3>1. n + 1 > k /\ n + 1 \in 1 .. n + 1
      BY <1>1, <1>6
    <3>2. QED
      BY <1>1, <2>2, <3>1
  <2>3. CASE \E d \in ToSet(v) : IsMine(u, d) /\ d.draw = e.draw
    <3>1. PICK d \in ToSet(v) : IsMine(u, d) /\ d.draw = e.draw
      BY <2>3
    <3>2. PICK j \in 1 .. n : j > k /\ applied[j].kind \in {"draw", "select"} /\ applied[j].draw = d.draw
      BY <1>6, <2>1, <3>1 DEF MineIsSinceAdoption, Grows, v
    <3>3. j \in 1 .. n + 1 /\ applied'[j] = applied[j]
      BY <1>1, <3>2
    <3>4. QED
      BY <3>1, <3>2, <3>3
  <2>4. QED
    BY <1>4, <2>2, <2>3
<1>7. QED
  BY <1>1, <1>5, <1>6

\* What was last made erased no work of others, unless it is meant to.
LEMMA OthersKeep ==
    ASSUME NEW p, IsPayload(p), Grows(p)
    PROVE  OthersWorkSurvives'
<1> SUFFICES ASSUME p.kind \in {"undo", "clear mine"}
             PROVE  OthersWork(Replay(applied'), p.username) = OthersWork(Replay(applied), p.username)
  BY DEF OthersWorkSurvives, Grows, OthersWork
<1>1. p.username \in Clients /\ Replay(applied) \in Vectors /\ Replay(applied') = Apply(Replay(applied), p)
  BY DEF IsPayload, Grows
<1>2. CASE p.kind = "undo"
  <2>1. Replay(applied') = Undo(Replay(applied), p.username)
    BY <1>1, <1>2 DEF Apply
  <2>2. QED
    BY <1>1, <2>1, UndoSpares
<1>3. CASE p.kind = "clear mine"
  <2>1. Replay(applied') = ClearMine(Replay(applied), p.username)
    BY <1>1, <1>3 DEF Apply
  <2>2. QED
    BY <1>1, <2>1, ClearMineSpares
<1>4. QED
  BY <1>2, <1>3

\* A Select that is made hits what it was meant for.
LEMMA SelectKeeps ==
    ASSUME NEW p, IsPayload(p), Grows(p),
           p.kind = "select" /\ p.meant # None =>
              StandsFor(p.meant.repeated, p.meant.seen, p.id, p.meant.draw)
    PROVE  SelectHitsTheListed'
<1> DEFINE log == applied
           m == Len(log)
           n == p.meant.seen
           r == p.meant.repeated
           id == p.id
           d == p.meant.draw
           since == ToSet(SubSeq(applied', n + 1, Len(applied') - 1))
<1> SUFFICES ASSUME p.kind = "select", p.meant # None, \A q \in since : ~IsErasure(q),
                    ~RepeatShows(r)'
             PROVE  /\ InRange(Replay(log), id)
                    /\ \/ Replay(log)[id + 1].draw = d
                       \/ \E q \in since : q.kind = "select" /\ q.id = id
  BY DEF SelectHitsTheListed, Grows, InRange, IsErasure
<1>1. /\ m \in Nat /\ IsLog(log) /\ Len(applied') = m + 1
      /\ \A k \in 1 .. m : applied'[k] = log[k]
  BY DEF Grows
<1>2. /\ n \in 0 .. m /\ id \in Int
      /\ InRange(Replay(SubSeq(log, 1, n)), id) /\ Replay(SubSeq(log, 1, n))[id + 1].draw = d
  <2>1. StandsFor(r, n, id, d) /\ r \in 0 .. n /\ n \in 0 .. m
    BY DEF StandsFor
  <2>2. r \in 0 .. m
    BY <1>1, <2>1
  <2>3. ~RepeatShows(r)
    BY <2>2 DEF Grows
  <2>4. QED
    BY <2>1, <2>3 DEF StandsFor
<1>3. PICK f : Follows(f, log)
  BY <1>1, ReplayRecursion
<1> HIDE DEF n, id, d, m
<1>4. Replay(SubSeq(log, 1, n)) = f[n]
  <2> DEFINE short == SubSeq(log, 1, n)
  <2>1. IsLog(short) /\ Len(short) = n /\ \A k \in 1 .. n : short[k] = log[k]
    BY <1>1, <1>2, PrefixIsLog DEF m
  <2>2. n <= Len(log)
    BY <1>1, <1>2 DEF m
  <2> HIDE DEF short, log
  <2>3. Replay(short) = f[Len(short)]
    BY <1>1, <1>3, <2>1, <2>2, ReplayPrefix
  <2>4. QED
    BY <2>1, <2>3 DEF short
<1>5. f[m] = Replay(log)
  BY <1>3 DEF Follows, m
<1>6. \A k \in n + 1 .. m : log[k] \in since
  <2> DEFINE gap == SubSeq(applied', n + 1, Len(applied') - 1)
             S == ToSet(applied')
  <2>1. applied' \in Seq(S) /\ \A k \in 1 .. m + 1 : applied'[k] \in S
    BY <1>1, ElementOfSeq DEF Grows, IsLog
  <2>2. Len(applied') - 1 = m /\ n + 1 \in Int /\ m \in Int /\ \A k \in n + 1 .. m : k \in 1 .. m + 1
    BY <1>1, <1>2
  <2> HIDE DEF S
  <2>3. /\ gap \in Seq(S) /\ Len(gap) = IF n + 1 <= m THEN m - (n + 1) + 1 ELSE 0
        /\ \A k \in 1 .. m - (n + 1) + 1 : gap[k] = applied'[(n + 1) + k - 1]
    BY <2>1, <2>2, SubSeqProperties
  <2> HIDE DEF gap
  <2>4. ASSUME NEW k \in n + 1 .. m PROVE log[k] \in ToSet(gap)
    <3>1. /\ k - n \in 1 .. m - (n + 1) + 1 /\ (n + 1) + (k - n) - 1 = k /\ k \in 1 .. m
          /\ Len(gap) = m - (n + 1) + 1
      BY <1>1, <1>2, <2>3
    <3>2. gap[k - n] = applied'[k] /\ applied'[k] = log[k]
      BY <1>1, <2>3, <3>1
    <3>3. k - n \in DOMAIN gap
      BY <2>3, <3>1, LenProperties
    <3>4. QED
      BY <3>2, <3>3 DEF ToSet
  <2>5. QED
    BY <2>4 DEF gap
<1> HIDE DEF since, log
<1>7. \A k \in n + 1 .. m : ~IsErasure(log[k])
  BY <1>6
<1>8. /\ InRange(f[m], id)
      /\ \/ f[m][id + 1].draw = f[n][id + 1].draw
         \/ \E k \in n + 1 .. m : log[k].kind = "select" /\ log[k].id = id
  BY <1>1, <1>2, <1>3, <1>4, <1>7, IdStays DEF m
<1>9. QED
  BY <1>2, <1>4, <1>5, <1>6, <1>8

\* A log with a command repeated is a log.
LEMMA CopyIsLog ==
    ASSUME IsLog(applied), NEW n \in 0 .. Len(applied), NEW k \in 1 .. n
    PROVE  /\ IsLog(MadeBy(k, n)) /\ Len(MadeBy(k, n)) = n + 1
           /\ \A i \in 1 .. k : MadeBy(k, n)[i] = applied[i]
           /\ \A i \in k + 1 .. n + 1 : MadeBy(k, n)[i] = applied[i - 1]
<1> DEFINE S == ToSet(applied)
           a == SubSeq(applied, 1, k)
           b == SubSeq(applied, k, n)
<1>1. /\ applied \in Seq(S) /\ Len(applied) \in Nat /\ n \in Nat /\ k \in Nat /\ k # 0
      /\ k <= n /\ n <= Len(applied)
  BY LenProperties DEF IsLog
<1>2. \A i \in 1 .. Len(applied) : applied[i] \in S
  BY <1>1, ElementOfSeq
<1> HIDE DEF S
<1>3. (\A i \in 1 .. k : applied[i] \in S) /\ (\A i \in k .. n : applied[i] \in S)
  <2>1. (\A i \in 1 .. k : i \in 1 .. Len(applied)) /\ (\A i \in k .. n : i \in 1 .. Len(applied))
    BY <1>1
  <2>2. QED
    BY <1>2, <2>1
<1>4. a \in Seq(S) /\ Len(a) = k /\ \A i \in 1 .. k : a[i] = applied[i]
  BY <1>1, <1>3, SubSeqProperties
<1>5. /\ b \in Seq(S) /\ Len(b) = n - k + 1
      /\ \A i \in 1 .. n - k + 1 : b[i] = applied[k + i - 1]
  BY <1>1, <1>3, SubSeqProperties
<1>6. MadeBy(k, n) = a \o b
  BY <1>1 DEF MadeBy
<1> HIDE DEF a, b
<1> DEFINE log == MadeBy(k, n)
<1> HIDE DEF log
<1>7. /\ log \in Seq(S) /\ Len(log) = n + 1
      /\ \A i \in 1 .. n + 1 : log[i] = IF i <= k THEN a[i] ELSE b[i - k]
  <2>1. log = a \o b
    BY <1>6 DEF log
  <2>2. /\ a \o b \in Seq(S) /\ Len(a \o b) = Len(a) + Len(b)
        /\ \A i \in 1 .. Len(a) + Len(b) : (a \o b)[i] = IF i <= Len(a) THEN a[i] ELSE b[i - Len(a)]
    BY <1>4, <1>5, ConcatProperties
  <2>3. Len(a) + Len(b) = n + 1
    BY <1>1, <1>4, <1>5
  <2>4. QED
    BY <1>4, <2>1, <2>2, <2>3
<1>8. \A i \in 1 .. k : log[i] = applied[i]
  BY <1>1, <1>4, <1>7
<1>9. ASSUME NEW i \in k + 1 .. n + 1 PROVE log[i] = applied[i - 1]
  <2>1. i \in 1 .. n + 1 /\ ~(i <= k) /\ i - k \in 1 .. n - k + 1 /\ k + (i - k) - 1 = i - 1
    BY <1>1
  <2>2. QED
    BY <1>5, <1>7, <2>1
<1>10. ASSUME NEW i \in 1 .. Len(log) PROVE IsPayload(log[i])
  <2>1. \A j \in 1 .. Len(applied) : IsPayload(applied[j])
    BY DEF IsLog
  <2>2. CASE i \in 1 .. k
    BY <1>1, <1>8, <2>1, <2>2
  <2>3. CASE i \in k + 1 .. n + 1
    <3>1. i - 1 \in 1 .. Len(applied)
      BY <1>1, <2>3
    <3>2. QED
      BY <1>9, <2>1, <2>3, <3>1
  <2>4. QED
    BY <1>1, <1>7, <2>2, <2>3
<1>11. IsLog(log)
  BY <1>7, <1>10, OfItsElements DEF IsLog
<1>12. QED
  BY <1>7, <1>8, <1>9, <1>11 DEF log

\* A repeat that does not show in the drawing then does not show later.
LEMMA RepeatUnseen ==
    ASSUME IsLog(applied), NEW n \in 0 .. Len(applied), NEW k \in 1 .. n, ~RepeatShows(k)
    PROVE  Replay(MadeBy(k, n)) = Replay(SubSeq(applied, 1, n))
<1> DEFINE log == applied
           copy == MadeBy(k, n)
           Short(i) == SubSeq(log, 1, i)
<1>1. /\ IsLog(copy) /\ Len(copy) = n + 1
      /\ \A i \in 1 .. k : copy[i] = log[i]
      /\ \A i \in k + 1 .. n + 1 : copy[i] = log[i - 1]
  BY CopyIsLog
<1>2. Len(log) \in Nat /\ n \in Nat /\ k \in Nat /\ k # 0 /\ k <= n /\ n <= Len(log)
  BY LenProperties DEF IsLog
<1>3. \A i \in 0 .. n : IsLog(Short(i)) /\ Len(Short(i)) = i /\ \A j \in 1 .. i : Short(i)[j] = log[j]
  BY <1>2, PrefixIsLog
<1>4. Apply(Replay(Short(k)), log[k]) = Replay(Short(k))
  BY <1>2 DEF RepeatShows
<1>5. PICK f : Follows(f, log)
  BY ReplayRecursion
<1> HIDE DEF copy
<1>6. PICK g : Follows(g, copy)
  BY <1>1, ReplayRecursion
<1>7. IsLog(log)
  OBVIOUS
<1> HIDE DEF log, Short
<1>8. \A i \in 0 .. n : Replay(Short(i)) = f[i]
  <2>1. ASSUME NEW i \in 0 .. n PROVE Replay(Short(i)) = f[i]
    <3>1. i <= Len(log) /\ IsLog(Short(i)) /\ Len(Short(i)) = i /\ \A j \in 1 .. i : Short(i)[j] = log[j]
      BY <1>2, <1>3
    <3>2. QED
      BY <1>5, <1>7, <3>1, ReplayPrefix
  <2>2. QED
    BY <2>1
<1>9. g[k] = f[k]
  <2>1. IsLog(Short(k)) /\ Len(Short(k)) = k /\ k <= Len(copy) /\ \A j \in 1 .. k : Short(k)[j] = copy[j]
    BY <1>1, <1>2, <1>3
  <2>2. Replay(Short(k)) = g[k]
    BY <1>1, <1>6, <2>1, ReplayPrefix
  <2>3. QED
    BY <1>2, <1>8, <2>2
<1>10. g[k + 1] = f[k]
  <2>1. k + 1 \in 1 .. Len(copy) /\ k + 1 \in k + 1 .. n + 1 /\ (k + 1) - 1 = k
    BY <1>1, <1>2
  <2>2. g[k + 1] = Apply(g[k], copy[k + 1]) /\ copy[k + 1] = log[k]
    BY <1>1, <1>6, <2>1 DEF Follows
  <2>3. QED
    BY <1>2, <1>4, <1>8, <1>9, <2>2
<1> DEFINE T == {i \in 0 .. n : i >= k => g[i + 1] = f[i]}
<1>11. 0 \in T
  BY <1>2
<1>12. ASSUME NEW i \in 0 .. n - 1, i \in T PROVE i + 1 \in T
  <2>1. i + 1 \in 0 .. n /\ i \in Nat
    BY <1>2
  <2>2. CASE i + 1 = k
    BY <1>10, <2>1, <2>2
  <2>3. CASE i >= k
    <3>1. /\ (i + 1) + 1 \in 1 .. Len(copy) /\ ((i + 1) + 1) - 1 = i + 1 /\ (i + 1) + 1 \in k + 1 .. n + 1
          /\ i + 1 \in 1 .. Len(log) /\ (i + 1) - 1 = i
      BY <1>1, <1>2, <2>1, <2>3
    <3>2. g[(i + 1) + 1] = Apply(g[i + 1], log[i + 1])
      BY <1>1, <1>6, <3>1 DEF Follows
    <3>3. f[i + 1] = Apply(f[i], log[i + 1])
      BY <1>5, <3>1 DEF Follows
    <3>4. QED
      BY <1>12, <2>1, <2>3, <3>2, <3>3
  <2>4. QED
    BY <1>2, <2>1, <2>2, <2>3
<1> HIDE DEF T
<1>13. 0 .. n \subseteq T
  BY <1>2, <1>11, <1>12, InductionUpTo
<1>14. g[n + 1] = f[n]
  BY <1>2, <1>13 DEF T
<1>15. Replay(copy) = g[n + 1]
  BY <1>1, <1>6 DEF Follows
<1>16. n \in 0 .. n
  BY <1>2
<1>17. QED
  BY <1>8, <1>14, <1>15, <1>16 DEF copy, Short, log

\* Each line of a listing is of the drawing that is listed.
LEMMA ListingStands ==
    ASSUME Sent, NEW c, NEW toolQual, NEW userQual,
           NEW n \in 0 .. Len(applied), NEW k \in 0 .. n,
           NEW l \in ListDraws(c, toolQual, userQual, Replay(MadeBy(k, n)))
    PROVE  StandsFor(k, n, l.id, l.draw)
<1> DEFINE copy == MadeBy(k, n)
           v == Replay(copy)
<1>0. Len(applied) \in Nat /\ n \in Nat /\ (k = 0 \/ k \in 1 .. n)
  BY LenProperties DEF Sent, IsLog
<1>1. v \in Vectors
  <2>1. IsLog(copy)
    BY <1>0, PrefixIsLog, CopyIsLog DEF Sent, MadeBy
  <2> HIDE DEF copy
  <2>2. PICK f : Follows(f, copy)
    BY <2>1, ReplayRecursion
  <2>3. Len(copy) \in Nat
    BY <2>1, LenProperties DEF IsLog
  <2>4. QED
    BY <2>2, <2>3 DEF Follows
<1> HIDE DEF v
<1>2. PICK i \in DOMAIN v : l = [id |-> i - 1, draw |-> v[i].draw]
  BY DEF ListDraws, v
<1>3. i \in Int /\ (i - 1) + 1 = i
  BY <1>1, VectorIs
<1>4. l.id \in Int /\ l.id + 1 = i /\ l.draw = v[i].draw
  BY <1>2, <1>3
<1>5. InRange(v, l.id) /\ v[l.id + 1].draw = l.draw
  BY <1>4 DEF InRange
<1>6. RepeatShows(k) \/ v = Replay(SubSeq(applied, 1, n))
  BY <1>0, RepeatUnseen DEF Sent, v, MadeBy
<1>7. QED
  BY <1>4, <1>5, <1>6, Zenon DEF StandsFor

\* A step that makes no command changes nothing of what was made.
LEMMA NothingMade ==
    ASSUME UNCHANGED applied
    PROVE  /\ \A k, n, id, d : StandsFor(k, n, id, d)' = StandsFor(k, n, id, d)
           /\ SelectHitsTheListed => SelectHitsTheListed'
           /\ OthersWorkSurvives => OthersWorkSurvives'
           /\ MineIsSinceAdoption => MineIsSinceAdoption'
<1>1. \A k, n, id, d : StandsFor(k, n, id, d)' = StandsFor(k, n, id, d)
  <2>1. \A k : RepeatShows(k)' = RepeatShows(k)
    BY Zenon DEF RepeatShows
  <2>2. QED
    BY <2>1, Zenon DEF StandsFor, InRange
<1>2. SelectHitsTheListed => SelectHitsTheListed'
  BY Zenon DEF SelectHitsTheListed, IsErasure, InRange, RepeatShows, Latest, Before
<1>3. OthersWorkSurvives => OthersWorkSurvives'
  BY Zenon DEF OthersWorkSurvives, OthersWork, Latest, Before
<1>4. MineIsSinceAdoption => MineIsSinceAdoption'
  BY DEF MineIsSinceAdoption, IsMine
<1>5. QED
  BY <1>1, <1>2, <1>3, <1>4

\* What is queued was meant for a line of the listing.
LEMMA QueuesDraws ==
    ASSUME DrawingInv, NEW c \in Clients, Queues(c)
    PROVE  (Sent /\ Listed /\ MeantWasListed)'
<1>1. PICK p : /\ Push(c, p) /\ IsPayload(p)
               /\ p.kind = "select" => p.id = selected[c] /\ p.meant = Meant(c)
  BY DEF Queues
<1>2. /\ queue' = [queue EXCEPT ![c] = Append(@, p)]
      /\ UNCHANGED <<listing, applied, seen, late, again>>
  BY <1>1 DEF Push, handler
<1>3. queue = [d \in Clients |-> queue[d]] /\ queue[c] \in Seq(ToSet(queue[c]))
  BY DEF DrawingInv, IInv, AreSequences
<1>4. ToSet(queue'[c]) = ToSet(queue[c]) \cup {p} /\ \A d \in Clients \ {c} : queue'[d] = queue[d]
  BY <1>2, <1>3, AppendTo
<1>5. Sent'
  BY <1>1, <1>2, <1>4 DEF DrawingInv, Sent, IsLog, IsPayload
<1>6. \A k, n, id, d : StandsFor(k, n, id, d)' = StandsFor(k, n, id, d)
  BY <1>2, NothingMade
<1>7. Listed'
  BY <1>2, <1>6 DEF DrawingInv, Listed, Repeated
<1>8. p.kind = "select" /\ p.meant # None => StandsFor(p.meant.repeated, p.meant.seen, p.id, p.meant.draw)
  <2> SUFFICES ASSUME p.kind = "select", p.meant # None
               PROVE  StandsFor(p.meant.repeated, p.meant.seen, p.id, p.meant.draw)
    OBVIOUS
  <2> DEFINE lines == {l \in listing[c] : l.id = selected[c]}
             line == CHOOSE l \in lines : TRUE
  <2>1. p.id = selected[c] /\ p.meant = Meant(c)
    BY <1>1
  <2>2. lines # {} /\ p.meant = [seen |-> seen[c], repeated |-> Repeated(c), draw |-> line.draw]
    BY <2>1 DEF Meant
  <2>3. line \in listing[c] /\ line.id = selected[c]
    BY <2>2
  <2> HIDE DEF line, lines
  <2>4. StandsFor(Repeated(c), seen[c], line.id, line.draw)
    BY <2>3 DEF DrawingInv, Listed
  <2>5. QED
    BY <2>1, <2>2, <2>3, <2>4
<1>9. MeantWasListed'
  <2> SUFFICES ASSUME NEW d \in Clients, NEW q \in ToSet(queue'[d]), q.kind = "select", q.meant # None
               PROVE  StandsFor(q.meant.repeated, q.meant.seen, q.id, q.meant.draw)
    BY <1>6 DEF MeantWasListed
  <2>1. q = p \/ q \in ToSet(queue[d])
    BY <1>4
  <2>2. QED
    BY <1>8, <2>1 DEF DrawingInv, MeantWasListed
<1>10. QED
  BY <1>5, <1>7, <1>9

\* What a client lists it has made.
LEMMA PrivateDraws ==
    ASSUME DrawingInv, NEW c \in Clients, Private(c)
    PROVE  (Sent /\ Listed /\ MeantWasListed)'
<1>1. /\ UNCHANGED <<queue, applied>>
      /\ seen' \in [Clients -> Nat] /\ late' \in [Clients -> Nat]
      /\ \A d \in Clients : seen'[d] <= Len(applied) /\ late'[d] <= seen'[d]
  BY DEF Private
<1>2. \A k, n, id, d : StandsFor(k, n, id, d)' = StandsFor(k, n, id, d)
  BY <1>1, NothingMade
<1>3. Sent' /\ MeantWasListed'
  BY <1>1, <1>2 DEF DrawingInv, Sent, MeantWasListed, IsLog, IsPayload
<1>4. ASSUME NEW d \in Clients, NEW l \in listing'[d] 
      PROVE  StandsFor(RepeatedNext(d), seen'[d], l.id, l.draw)
  <2>1. CASE /\ listing'[d] = listing[d] /\ seen'[d] = seen[d]
             /\ late'[d] = late[d] /\ again'[d] = again[d]
    <3>1. RepeatedNext(d) = Repeated(d)
      BY <2>1 DEF Repeated, RepeatedNext
    <3>2. QED
      BY <1>4, <2>1, <3>1 DEF DrawingInv, Listed
  <2>2. ASSUME NEW toolQual, NEW userQual, d = c,
               listing'[c] = ListDraws(c, toolQual, userQual, Replay(MadeBy(RepeatedNext(c), seen'[c])))
        PROVE  StandsFor(RepeatedNext(d), seen'[d], l.id, l.draw)
    <3>1. seen'[c] \in 0 .. Len(applied) /\ RepeatedNext(c) \in 0 .. seen'[c]
      BY <1>1, Lengths DEF DrawingInv, IInv, RepeatedNext
    <3>2. QED
      BY <1>4, <2>2, <3>1, ListingStands DEF DrawingInv
  <2>3. CASE d = c /\ listing'[c] = {}
    BY <1>4, <2>3
  <2>4. QED
    BY <2>1, <2>2, <2>3 DEF Private, Looks
<1>5. Listed'
  <2>1. \A d \in Clients : Repeated(d)' = RepeatedNext(d)
    BY DEF Repeated, RepeatedNext
  <2>2. QED
    BY <1>2, <1>4, <2>1 DEF Listed
<1>6. QED
  BY <1>3, <1>5

\* Nothing that is made changes what was listed, and what it hits is what it was
\* meant for.
LEMMA MadeDraws ==
    ASSUME DrawingInv, NEW p, IsPayload(p), applied' = Append(applied, p), 
           UNCHANGED <<listing, seen, late, again>>,
           \A c \in Clients : ToSet(queue'[c]) \subseteq ToSet(queue[c]),
           p.kind = "select" /\ p.meant # None =>
              StandsFor(p.meant.repeated, p.meant.seen, p.id, p.meant.draw)
    PROVE  (/\ Sent /\ Listed /\ MeantWasListed
            /\ SelectHitsTheListed /\ OthersWorkSurvives /\ MineIsSinceAdoption)'
<1>1. Grows(p)
  BY Growth DEF DrawingInv
<1>2. \A k, n, id, d : StandsFor(k, n, id, d) => StandsFor(k, n, id, d)'
  BY <1>1, StoodFor
<1>3. IsLog(applied')
  BY <1>1 DEF Grows
<1>4. Sent'
  BY <1>3 DEF DrawingInv, Sent, IsPayload
<1>5. Listed'
  BY <1>2 DEF DrawingInv, Listed, Repeated
<1>6. MeantWasListed'
  BY <1>2 DEF DrawingInv, MeantWasListed
<1>7. QED
  BY <1>1, <1>4, <1>5, <1>6, MineKeeps, OthersKeep, SelectKeeps DEF DrawingInv

\* Nor does one that only empties queues change what was listed.
LEMMA NothingDrawn ==
    ASSUME Sent, Listed, MeantWasListed, UNCHANGED <<applied, listing, seen, late, again>>,
           \A c \in Clients : ToSet(queue'[c]) \subseteq ToSet(queue[c])
    PROVE  (Sent /\ Listed /\ MeantWasListed)'
<1>1. \A k, n, id, d : StandsFor(k, n, id, d)' = StandsFor(k, n, id, d)
  BY NothingMade
<1>2. Sent'
  BY DEF Sent, IsLog, IsPayload
<1>3. Listed'
  BY <1>1 DEF Listed, Repeated
<1>4. MeantWasListed'
  BY <1>1 DEF MeantWasListed
<1>5. QED
  BY <1>2, <1>3, <1>4

\* Every step keeps the invariant.
LEMMA DrawingInductive ==
    ASSUME DrawingInv, [Next]_vars
    PROVE  DrawingInv'
<1> DEFINE Drawn == /\ Sent /\ Listed /\ MeantWasListed
                    /\ SelectHitsTheListed /\ OthersWorkSurvives /\ MineIsSinceAdoption
<1>1. IInv'
  BY Inductive DEF DrawingInv
<1>2. ASSUME UNCHANGED vars PROVE Drawn'
  <2>1. UNCHANGED <<queue, applied, listing, seen, late, again>>
    BY <1>2 DEF vars, handler
  <2>2. \A d \in Clients : ToSet(queue'[d]) = ToSet(queue[d])
    BY <2>1
  <2>3. (Sent /\ Listed /\ MeantWasListed)'
    BY <2>1, <2>2, NothingDrawn DEF DrawingInv
  <2>4. QED
    BY <2>1, <2>3, NothingMade DEF DrawingInv
<1>3. ASSUME NEW c \in Clients, Queues(c) PROVE Drawn'
  <2>1. UNCHANGED applied
    BY <1>3 DEF Queues, Push
  <2>2. QED
    BY <1>3, <2>1, QueuesDraws, NothingMade DEF DrawingInv
<1>4. ASSUME NEW c \in Clients, Private(c) \/ Restart(c) PROVE Drawn'
  <2>1. Private(c)
    BY <1>4, RestartKeeps DEF DrawingInv
  <2>2. UNCHANGED applied
    BY <2>1 DEF Private
  <2>3. QED
    BY <2>1, <2>2, PrivateDraws, NothingMade DEF DrawingInv
<1>5. ASSUME NEW c \in Clients, WriteCommand(c) PROVE Drawn'
  <2> DEFINE p == Last(queue[c])
  <2>1. /\ queue[c] # <<>> /\ applied' = Append(applied, p)
        /\ queue' = [queue EXCEPT ![c] = Tail(@)]
        /\ UNCHANGED <<listing, seen, late, again>>
    BY <1>5 DEF WriteCommand, handler
  <2>2. /\ queue[c] \in Seq(ToSet(queue[c])) /\ queue = [d \in Clients |-> queue[d]]
    BY DEF DrawingInv, IInv, AreSequences
  <2>3. p \in ToSet(queue[c]) /\ \A d \in Clients : ToSet(queue'[d]) \subseteq ToSet(queue[d])
    BY <2>1, <2>2, TailOf
  <2> HIDE DEF p
  <2>4. /\ IsPayload(p)
        /\ p.kind = "select" /\ p.meant # None =>
              StandsFor(p.meant.repeated, p.meant.seen, p.id, p.meant.draw)
    BY <2>3 DEF DrawingInv, Sent, MeantWasListed
  <2>5. QED
    BY <2>1, <2>3, <2>4, MadeDraws
<1>6. ASSUME NEW c \in Clients, CancelWriter(c) PROVE Drawn'
  <2>1. /\ queue' = [queue EXCEPT ![c] = <<>>] /\ UNCHANGED <<listing, applied, seen, late, again>>
    BY <1>6 DEF CancelWriter, handler
  <2>2. ToSet(<<>>) = {}
    BY DEF ToSet
  <2>3. \A d \in Clients : ToSet(queue'[d]) \subseteq ToSet(queue[d])
    BY <2>1, <2>2 DEF DrawingInv, IInv, AreSequences
  <2>4. (Sent /\ Listed /\ MeantWasListed)'
    BY <2>1, <2>3, NothingDrawn DEF DrawingInv
  <2>5. QED
    BY <2>1, <2>4, NothingMade DEF DrawingInv
<1>7. ASSUME NEW c \in Clients, AdoptDraws(c) PROVE Drawn'
  <2> DEFINE p == [kind |-> "adopt", username |-> c]
  <2>1. applied' = Append(applied, p) /\ UNCHANGED <<queue, listing, seen, late, again>>
    BY <1>7 DEF AdoptDraws, handler
  <2>2. IsPayload(p) /\ p.kind # "select"
    BY DEF IsPayload, Kinds
  <2> HIDE DEF p
  <2>3. QED
    BY <2>1, <2>2, MadeDraws
<1>8. Drawn'
  BY <1>2, <1>3, <1>4, <1>5, <1>6, <1>7, NextSteps DEF DrawingInv, IInv
<1>9. QED
  BY <1>1, <1>8 DEF DrawingInv

\* Nothing is drawn, listed or queued at the start.
LEMMA InitDrawing ==
    ASSUME Init
    PROVE  DrawingInv
<1>1. ToSet(<<>>) = {} /\ <<>> \in Seq(ToSet(<<>>)) /\ Len(<<>>) = 0 /\ DOMAIN <<>> = {}
  BY DEF ToSet
<1>2. /\ applied = <<>> /\ \A c \in Clients : queue[c] = <<>> /\ listing[c] = {}
  BY DEF Init
<1>3. Sent /\ Listed /\ MeantWasListed
  BY <1>1, <1>2 DEF Sent, Listed, MeantWasListed, IsLog
<1>4. SelectHitsTheListed /\ OthersWorkSurvives /\ MineIsSinceAdoption
  BY <1>1, <1>2 DEF SelectHitsTheListed, OthersWorkSurvives, MineIsSinceAdoption
<1>5. QED
  BY <1>3, <1>4, InitIInv DEF DrawingInv

\* The invariant about the drawing holds throughout.
LEMMA DrawingHolds == Spec => []DrawingInv
<1>1. Init => DrawingInv
  BY InitDrawing
<1>2. DrawingInv /\ [Next]_vars => DrawingInv'
  BY DrawingInductive
<1>3. QED
  BY <1>1, <1>2, PTL DEF Spec
-----------------------------------------------------------------------------
(* What the hash tells *)

\* Where an entry occurs in a vector.
Places(v, x) == {i \in DOMAIN v : v[i] = x}

\* They can be counted, and an entry is in the hash if the count is odd.
LEMMA HashCounts ==
    ASSUME NEW v \in Vectors, NEW x
    PROVE  /\ IsFiniteSet(Places(v, x)) /\ Cardinality(Places(v, x)) \in Nat
           /\ x \in Hash(v) <=> Cardinality(Places(v, x)) % 2 = 1
<1>1. Len(v) \in Nat /\ DOMAIN v = 1 .. Len(v)
  BY VectorIs
<1>2. IsFiniteSet(1 .. Len(v)) /\ Places(v, x) \in SUBSET (1 .. Len(v))
  BY <1>1, FS_Interval DEF Places
<1>3. IsFiniteSet(Places(v, x)) /\ Cardinality(Places(v, x)) \in Nat
  BY <1>2, FS_Subset, FS_CardinalityType
<1>4. Hash(v) = {entry \in ToSet(v) : Cardinality(Places(v, entry)) % 2 = 1}
  BY DEF Hash, Places
<1>5. ASSUME x \notin ToSet(v) PROVE Cardinality(Places(v, x)) = 0
  <2>1. Places(v, x) = {}
    BY <1>5 DEF Places, ToSet
  <2>2. QED
    BY <2>1, FS_EmptySet
<1>6. x \notin ToSet(v) => Cardinality(Places(v, x)) % 2 # 1
  BY <1>5
<1>7. QED
  BY <1>3, <1>4, <1>6

\* An entry that occurs once more changes the hash.
LEMMA OnceMore ==
    ASSUME NEW v \in Vectors, NEW w \in Vectors, NEW x,
           Cardinality(Places(w, x)) = Cardinality(Places(v, x)) + 1
    PROVE  Hash(w) # Hash(v)
<1> DEFINE n == Cardinality(Places(v, x))
           m == Cardinality(Places(w, x))
<1>1. n \in Nat /\ (x \in Hash(v) <=> n % 2 = 1) /\ (x \in Hash(w) <=> m % 2 = 1) /\ m = n + 1
  BY HashCounts
<1> HIDE DEF n, m
<1>2. ~(n % 2 = 1 <=> (n + 1) % 2 = 1)
  BY <1>1
<1>3. QED
  BY <1>1, <1>2

\* So does a new draw.
LEMMA DrawIsTold ==
    ASSUME NEW v \in Vectors, NEW d \in Drawings, NEW u, d.by = u
    PROVE  Hash(Draw(v, u, d)) # Hash(v)
<1> DEFINE w == Draw(v, u, d)
           n == Len(v)
           x == TaggedDraw(u, d)
<1>1. /\ w \in Vectors /\ Len(w) = n + 1 /\ w[n + 1] = x
      /\ \A i \in 1 .. n : w[i] = v[i]
  BY DrawVector
<1>2. n \in Nat /\ DOMAIN v = 1 .. n /\ DOMAIN w = 1 .. n + 1
  BY <1>1, VectorIs
<1> HIDE DEF w, n, x
<1>3. Places(w, x) = Places(v, x) \cup {n + 1} /\ n + 1 \notin Places(v, x)
  <2>1. 1 .. n + 1 = (1 .. n) \cup {n + 1} /\ n + 1 \notin 1 .. n
    BY <1>2
  <2>2. QED
    BY <1>1, <1>2, <2>1 DEF Places
<1>4. Cardinality(Places(w, x)) = Cardinality(Places(v, x)) + 1
  BY <1>3, HashCounts, FS_AddElement
<1>5. QED
  BY <1>1, <1>4, OnceMore DEF w

\* And an entry that is erased.
LEMMA RemovalIsTold ==
    ASSUME NEW v \in Vectors, NEW i \in 1 .. Len(v)
    PROVE  Hash(RemoveAt(v, i)) # Hash(v)
<1> DEFINE w == RemoveAt(v, i)
           n == Len(v)
           x == v[i]
           others == Places(v, x) \ {i}
           f == [k \in others |-> IF k < i THEN k ELSE k - 1]
<1>1. /\ w \in Vectors /\ Len(w) = n - 1
      /\ \A k \in 1 .. n - 1 : w[k] = IF k < i THEN v[k] ELSE v[k + 1]
  BY RemoveAtProperties, RemoveVector DEF Vectors
<1>2. n \in Nat /\ DOMAIN v = 1 .. n /\ DOMAIN w = 1 .. n - 1 /\ i \in 1 .. n
  BY <1>1, VectorIs
<1> HIDE DEF w, n
<1>3. /\ \A k : k \in others <=> k \in 1 .. n /\ v[k] = x /\ k # i
      /\ \A k : k \in Places(w, x) <=> k \in 1 .. n - 1 /\ w[k] = x
  BY <1>2 DEF Places
<1> HIDE DEF x, others
<1>4. f \in [others -> Places(w, x)]
  <2>1. ASSUME NEW k \in others PROVE (IF k < i THEN k ELSE k - 1) \in Places(w, x)
    <3>1. k \in 1 .. n /\ v[k] = x /\ k # i
      BY <1>3
    <3>2. CASE k < i
      <4>1. k \in 1 .. n - 1 /\ w[k] = v[k]
        BY <1>1, <1>2, <3>1, <3>2
      <4>2. QED
        BY <1>3, <3>1, <3>2, <4>1
    <3>3. CASE ~(k < i)
      <4>1. k - 1 \in 1 .. n - 1 /\ ~(k - 1 < i) /\ (k - 1) + 1 = k
        BY <1>2, <3>1, <3>3
      <4>2. w[k - 1] = v[k]
        BY <1>1, <4>1
      <4>3. QED
        BY <1>3, <3>1, <3>3, <4>1, <4>2
    <3>4. QED
      BY <3>2, <3>3
  <2>2. QED
    BY <2>1
<1>5. \A k, j \in others : f[k] = f[j] => k = j
  BY <1>2, <1>3
<1>6. \A m \in Places(w, x) : \E k \in others : f[k] = m
  <2> SUFFICES ASSUME NEW m \in Places(w, x) PROVE \E k \in others : f[k] = m
    OBVIOUS
  <2>1. m \in 1 .. n - 1 /\ w[m] = x
    BY <1>3
  <2>2. CASE m < i
    <3>1. m \in others
      BY <1>1, <1>2, <1>3, <2>1, <2>2
    <3>2. QED
      BY <2>2, <3>1
  <2>3. CASE ~(m < i)
    <3>1. m + 1 \in 1 .. n /\ m + 1 # i /\ ~(m + 1 < i) /\ (m + 1) - 1 = m
      BY <1>2, <2>1, <2>3
    <3>2. v[m + 1] = x
      BY <1>1, <2>1, <2>3
    <3>3. m + 1 \in others
      BY <1>3, <3>1, <3>2
    <3>4. QED
      BY <3>1, <3>3
  <2>4. QED
    BY <2>2, <2>3
<1>7. f \in Bijection(others, Places(w, x))
  <2> HIDE DEF f
  <2>1. QED
    BY <1>4, <1>5, <1>6 DEF Bijection, Injection, Surjection, IsInjective
<1>8. Cardinality(Places(v, x)) = Cardinality(Places(w, x)) + 1
  <2>1. /\ IsFiniteSet(Places(v, x)) /\ Cardinality(Places(v, x)) \in Nat
        /\ i \in Places(v, x)
    BY <1>2, HashCounts DEF Places, x
  <2>2. IsFiniteSet(others) /\ Cardinality(others) = Cardinality(Places(v, x)) - 1
    BY <2>1, FS_RemoveElement DEF others
  <2>3. ExistsBijection(others, Places(w, x))
    BY <1>7 DEF ExistsBijection
  <2>4. Cardinality(Places(w, x)) = Cardinality(others)
    BY <2>2, <2>3, FS_Bijection
  <2>5. QED
    BY <2>1, <2>2, <2>4
<1>9. Hash(v) # Hash(w)
  BY <1>1, <1>8, OnceMore
<1>10. QED
  BY <1>9 DEF w

\* To adopt what is adopted, to select by an id what it has just become, or to
\* clear what is cleared changes nothing.
LEMMA TwiceIsOnce ==
    ASSUME NEW v \in Vectors, NEW u \in Clients
    PROVE  /\ Adopt(Adopt(v, u), u) = Adopt(v, u)
           /\ ClearMine(ClearMine(v, u), u) = ClearMine(v, u)
           /\ \A id \in Int, d \in Drawings : d.by = u =>
                 Select(Select(v, u, id, d), u, id, d) = Select(v, u, id, d)
<1>1. Adopt(Adopt(v, u), u) = Adopt(v, u)
  <2> DEFINE once == Adopt(v, u)
             twice == Adopt(once, u)
  <2>1. /\ once \in Vectors /\ Len(once) = Len(v)
        /\ \A i \in 1 .. Len(v) :
              once[i].adopted = (v[i].username = u \/ v[i].adopted) /\ once[i].username = v[i].username
    BY AdoptVector
  <2> HIDE DEF once
  <2>2. /\ twice \in Vectors /\ Len(twice) = Len(once)
        /\ \A i \in 1 .. Len(once) :
              /\ twice[i].draw = once[i].draw /\ twice[i].username = once[i].username
              /\ twice[i].adopted = (once[i].username = u \/ once[i].adopted)
    BY <2>1, AdoptVector
  <2> HIDE DEF twice
  <2>3. ASSUME NEW i \in 1 .. Len(once) PROVE twice[i] = once[i]
    <3>1. once[i] \in Entries /\ twice[i] \in Entries /\ v[i] \in Entries /\ i \in 1 .. Len(v)
      BY <2>1, <2>2, VectorIs
    <3>2. v[i].adopted \in BOOLEAN
      BY <3>1, EntryFields
    <3>3. twice[i].adopted = once[i].adopted
      <4>1. once[i].adopted = (v[i].username = u \/ v[i].adopted) /\ once[i].username = v[i].username
        BY <2>1, <3>1
      <4>2. twice[i].adopted = (once[i].username = u \/ once[i].adopted)
        BY <2>2
      <4>3. (v[i].username = u \/ (v[i].username = u \/ v[i].adopted))
               = (v[i].username = u \/ v[i].adopted)
        BY <3>2
      <4>4. QED
        BY <4>1, <4>2, <4>3
    <3>4. twice[i].draw = once[i].draw /\ twice[i].username = once[i].username
      BY <2>2
    <3>5. /\ once[i] = [adopted |-> once[i].adopted, username |-> once[i].username,
                        draw |-> once[i].draw]
          /\ twice[i] = [adopted |-> twice[i].adopted, username |-> twice[i].username,
                         draw |-> twice[i].draw]
      BY <3>1, EntryFields
    <3>6. QED
      BY <3>3, <3>4, <3>5
  <2>4. twice = once
    BY <2>1, <2>2, <2>3, SeqEqual DEF Vectors
  <2>5. QED
    BY <2>4 DEF once, twice
<1>2. ClearMine(ClearMine(v, u), u) = ClearMine(v, u)
  <2> DEFINE once == ClearMine(v, u)
             kept == {i \in DOMAIN once : ~IsOf(u, once[i])}
  <2>1. once \in Vectors /\ \A e \in ToSet(once) : e.username # u
    BY ClearMineVector
  <2> HIDE DEF once
  <2>2. 1 .. Len(once) \subseteq kept
    BY <2>1, VectorIs DEF IsOf
  <2>3. Part(once, kept) = once
    <3> HIDE DEF kept
    <3>1. QED
      BY <2>1, <2>2, PartOfAll DEF Vectors
  <2>4. ClearMine(once, u) = once
    BY <2>3 DEF ClearMine
  <2>5. QED
    BY <2>4 DEF once
<1>3. ASSUME NEW id \in Int, NEW d \in Drawings, d.by = u
      PROVE  Select(Select(v, u, id, d), u, id, d) = Select(v, u, id, d)
  <2> DEFINE once == Select(v, u, id, d)
             twice == Select(once, u, id, d)
  <2>1. /\ once \in Vectors /\ Len(once) = Len(v)
        /\ \A i \in 1 .. Len(v) : i = id + 1 => once[i] = TaggedDraw(u, d)
    BY <1>3, SelectVector
  <2> HIDE DEF once
  <2>2. /\ twice \in Vectors /\ Len(twice) = Len(once)
        /\ \A i \in 1 .. Len(once) :
              (i = id + 1 => twice[i] = TaggedDraw(u, d)) /\ (i # id + 1 => twice[i] = once[i])
    BY <1>3, <2>1, SelectVector
  <2> HIDE DEF twice
  <2>3. \A i \in 1 .. Len(once) : twice[i] = once[i]
    BY <2>1, <2>2
  <2>4. twice = once
    BY <2>2, <2>1, <2>3, SeqEqual DEF Vectors
  <2>5. QED
    BY <2>4 DEF once, twice
<1>4. QED
  BY <1>1, <1>2, <1>3

\* A payload that is made to a vector once more changes its hash, or nothing.
LEMMA RepeatIsTold ==
    ASSUME NEW v \in Vectors, NEW p, IsPayload(p)
    PROVE  LET once == Apply(v, p)
               twice == Apply(once, p)
           IN  twice = once \/ Hash(twice) # Hash(once)
<1> DEFINE once == Apply(v, p)
           twice == Apply(once, p)
<1>1. once \in Vectors /\ p.username \in Clients
  BY ApplyVector DEF IsPayload
<1>2. CASE p.kind = "adopt"
  <2>1. once = Adopt(v, p.username) /\ twice = Adopt(once, p.username)
    BY <1>2 DEF Apply
  <2>2. QED
    BY <1>1, <2>1, TwiceIsOnce
<1>3. CASE p.kind = "select"
  <2>1. /\ once = Select(v, p.username, p.id, p.draw)
        /\ twice = Select(once, p.username, p.id, p.draw)
    BY <1>3 DEF Apply
  <2>2. p.id \in Int /\ p.draw \in Drawings /\ p.draw.by = p.username
    BY <1>3 DEF IsPayload
  <2>3. QED
    BY <1>1, <2>1, <2>2, TwiceIsOnce
<1>4. CASE p.kind = "clear mine"
  <2>1. once = ClearMine(v, p.username) /\ twice = ClearMine(once, p.username)
    BY <1>4 DEF Apply
  <2>2. QED
    BY <1>1, <2>1, TwiceIsOnce
<1>5. CASE p.kind = "clear all"
  BY <1>5 DEF Apply
<1> HIDE DEF once
<1>6. CASE p.kind = "draw"
  <2>1. p.draw \in Drawings /\ p.draw.by = p.username
    BY <1>6 DEF IsPayload
  <2>2. twice = Draw(once, p.username, p.draw)
    BY <1>6 DEF Apply
  <2>3. Hash(Draw(once, p.username, p.draw)) # Hash(once)
    BY <1>1, <2>1, DrawIsTold
  <2>4. QED
    BY <2>2, <2>3 DEF once
<1>7. CASE p.kind = "delete"
  <2>1. p.id \in Int /\ twice = Delete(once, p.id)
    BY <1>7 DEF IsPayload, Apply
  <2>2. twice = once \/ \E i \in 1 .. Len(once) : twice = RemoveAt(once, i)
    BY <1>1, <2>1, DeleteIs
  <2>3. twice = once \/ Hash(twice) # Hash(once)
    BY <1>1, <2>2, RemovalIsTold
  <2>4. QED
    BY <2>3 DEF once
<1>8. CASE p.kind = "undo"
  <2>1. twice = Undo(once, p.username)
    BY <1>8 DEF Apply
  <2>2. twice = once \/ \E i \in 1 .. Len(once) : twice = RemoveAt(once, i)
    BY <1>1, <2>1, UndoIs
  <2>3. twice = once \/ Hash(twice) # Hash(once)
    BY <1>1, <2>2, RemovalIsTold
  <2>4. QED
    BY <2>3 DEF once
<1>9. QED
  BY <1>2, <1>3, <1>4, <1>5, <1>6, <1>7, <1>8 DEF IsPayload, Kinds

\* The drawing is what the latest command made of the one before it.
LEMMA LatestIsMade ==
    ASSUME IsLog(applied), applied # <<>>
    PROVE  IsPayload(Latest) /\ Before \in Vectors /\ Replay(applied) = Apply(Before, Latest)
<1> DEFINE n == Len(applied)
           front == SubSeq(applied, 1, n - 1)
<1>1. applied \in Seq(ToSet(applied)) /\ n \in Nat /\ n # 0
  BY EmptySeq, LenProperties DEF IsLog
<1>2. IsPayload(Latest) /\ Latest = applied[n]
  BY <1>1 DEF IsLog, Latest, Last
<1>3. IsLog(front) /\ Len(front) = n - 1 /\ \A k \in 1 .. n - 1 : front[k] = applied[k]
  <2>1. n - 1 \in 0 .. n
    BY <1>1
  <2>2. QED
    BY <2>1, PrefixIsLog
<1>4. Front(applied) = front
  BY DEF Front
<1> HIDE DEF n, front
<1>5. Append(front, Latest) = applied
  <2> DEFINE S == ToSet(front) \cup ToSet(applied) \cup {Latest}
  <2>1. applied \in Seq(S) /\ front \in Seq(S) /\ Latest \in S /\ n = Len(applied)
    BY <1>1, <1>3 DEF IsLog, n
  <2> HIDE DEF S
  <2>2. /\ Append(front, Latest) \in Seq(S) /\ Len(Append(front, Latest)) = n
        /\ Append(front, Latest)[n] = Latest
        /\ \A k \in 1 .. n - 1 : Append(front, Latest)[k] = front[k]
    BY <1>1, <1>3, <2>1, AppendProperties
  <2>3. \A k \in 1 .. n : k = n \/ k \in 1 .. n - 1
    BY <1>1
  <2>4. \A k \in 1 .. n : Append(front, Latest)[k] = applied[k]
    BY <1>2, <1>3, <2>2, <2>3
  <2>5. QED
    BY <2>1, <2>2, <2>4, SeqEqual
<1>6. QED
  BY <1>2, <1>3, <1>4, <1>5, ReplayAppend DEF Before
-----------------------------------------------------------------------------
(* Theorems *)

\* Every variable keeps its type: whatever is typed, the tools, the colours and
\* the ids are ones that the code can send.
THEOREM TypeCorrect == Spec => []TypeOK
<1>1. IInv => TypeOK
  BY DEF IInv
<1>2. QED
  BY <1>1, InvariantHolds, PTL

\* A user's commands are made in the order in which he typed them, however many
\* the writer's queue holds back, repeats or drops.
THEOREM InOrder == Spec => []NeverBackInTime
<1>1. IInv => NeverBackInTime
  BY DEF IInv
<1>2. QED
  BY <1>1, InvariantHolds, PTL

\* The command typed last leaves the queue of a running client only to be written
\* to the server.
THEOREM NewestIsMade == Spec => NewestIsNeverLost
<1>1. ASSUME IInv, [Next]_vars, NEW c \in Clients, status[c] = "running", queue[c] # <<>>
      PROVE  Last(queue[c]) \in ToSet(queue'[c]) \cup ToSet(applied')
  <2>1. Last(queue[c]) \in ToSet(queue[c])
    BY <1>1, TailOf DEF IInv, AreSequences
  <2>2. CASE queue' = queue
    BY <2>1, <2>2
  <2>3. ASSUME NEW d \in Clients, Queues(d) PROVE ToSet(queue[c]) \subseteq ToSet(queue'[c])
    BY <1>1, <2>3, QueuesKeeps
  <2>4. ASSUME NEW d \in Clients, WriteCommand(d)
        PROVE  Last(queue[c]) \in ToSet(applied') \/ queue'[c] = queue[c]
    BY <1>1, <2>4, WriteCommandKeeps
  <2>5. ASSUME NEW d \in Clients, CancelWriter(d) PROVE queue'[c] = queue[c]
    BY <1>1, <2>5, CancelWriterKeeps
  <2>6. ASSUME NEW d \in Clients, Private(d) \/ AdoptDraws(d) \/ Restart(d)
        PROVE  queue' = queue
    BY <1>1, <2>6, AdoptDrawsKeeps DEF Private, Restart
  <2>7. UNCHANGED vars => queue' = queue
    BY DEF vars
  <2>8. QED
    BY <1>1, <2>1, <2>2, <2>3, <2>4, <2>5, <2>6, <2>7, NextSteps DEF IInv
<1>2. IInv /\ [Next]_vars =>
        [\A c \in Clients : status[c] = "running" /\ queue[c] # <<>> =>
            Last(queue[c]) \in ToSet(queue'[c]) \cup ToSet(applied')]_vars
  BY <1>1
<1>3. QED
  BY <1>2, InvariantHolds, PTL DEF Spec, NewestIsNeverLost

\* Whatever others do meanwhile, the id that a user took from a listing still is
\* that of the draw he saw there when his Select is made, unless a draw has been
\* erased or selected by that id since - or his client had a command twice, in the
\* broadcast of which he joined, and that command leaves another drawing so.
THEOREM SelectHits == Spec => []SelectHitsTheListed
<1>1. DrawingInv => SelectHitsTheListed
  BY DEF DrawingInv
<1>2. QED
  BY <1>1, DrawingHolds, PTL

\* Undo and clear mine leave the draws of others as they were, and in their order.
THEOREM OthersSurvive == Spec => []OthersWorkSurvives
<1>1. DrawingInv => OthersWorkSurvives
  BY DEF DrawingInv
<1>2. QED
  BY <1>1, DrawingHolds, PTL

\* A draw that is a user's own was drawn or modified by him after his last adoption.
THEOREM MineSinceAdoption == Spec => []MineIsSinceAdoption
<1>1. DrawingInv => MineIsSinceAdoption
  BY DEF DrawingInv
<1>2. QED
  BY <1>1, DrawingHolds, PTL

\* Of a drawing to which the latest command is made once more the hash is another,
\* unless the drawing is the same.
THEOREM RepeatsAreTold == Spec => []HashTellsARepeat
<1>1. DrawingInv => HashTellsARepeat
  BY LatestIsMade, RepeatIsTold DEF DrawingInv, Sent, HashTellsARepeat
<1>2. QED
  BY <1>1, DrawingHolds, PTL
-----------------------------------------------------------------------------
(* What the parser reads (InputParser), of lines of any length *)

\* What Scan says of position i, given what f says of the positions behind it.
TokensAt(line, f, i) ==
    IF i > Len(line) THEN <<>>
    ELSE IF line[i] \in Blanks THEN f[i + 1]
    ELSE IF line[i] = Quote THEN
         LET end == Position(line, {Quote}, i + 1)
         IN  IF end > Len(line) THEN <<Unterminated>>
             ELSE <<SubSeq(line, i + 1, end - 1)>> \o f[end + 1]
    ELSE LET end == Position(line, Blanks, i + 1)
         IN  <<SubSeq(line, i, end - 1)>> \o f[end]

\* f says what the tokens from each position on are.
IsScan(f, line) == f = [i \in 1 .. Len(line) + 1 |-> TokensAt(line, f, i)]

\* What may come out of a line of these characters: strings of them, and the mark.
Read(S) == Seq(S) \cup {Unterminated}
TokenLists(S) == Seq(Read(S))
TokenFunctions(S, line) == [1 .. Len(line) + 1 -> TokenLists(S)]

\* A position lies behind all that is skipped, and on the character it looks for.
LEMMA PositionProperties ==
    ASSUME NEW line, Len(line) \in Nat, NEW chars, NEW i \in 1 .. Len(line) + 1
    PROVE  LET p == Position(line, chars, i)
           IN  /\ p \in i .. Len(line) + 1
               /\ \A j \in i .. p - 1 : line[j] \notin chars
               /\ p <= Len(line) => line[p] \in chars
<1> DEFINE N == Len(line)
           T == {j \in i .. N : line[j] \in chars} \cup {N + 1}
           p == Position(line, chars, i)
<1>1. T \subseteq Nat /\ T # {}
  OBVIOUS
<1>2. \E x \in T : \A y \in T : x <= y
  BY <1>1, LeastNatural
<1>3. p = CHOOSE x \in T : \A y \in T : x <= y
  BY DEF Position, Min
<1>4. p \in T /\ \A y \in T : p <= y
  <2> HIDE DEF T, p
  <2>1. QED
    BY <1>2, <1>3
<1> HIDE DEF p
<1>5. \A j \in i .. p - 1 : line[j] \notin chars
  <2> SUFFICES ASSUME NEW j \in i .. p - 1, line[j] \in chars PROVE FALSE
    OBVIOUS
  <2>1. j \in i .. N
    BY <1>4
  <2>2. QED
    BY <2>1, <1>4
<1>6. QED
  BY <1>4, <1>5 DEF p

\* Scan looks ahead only.
LEMMA LooksAhead ==
    ASSUME NEW line, Len(line) \in Nat, NEW i \in 1 .. Len(line) + 1, NEW f, NEW g,
           \A j \in i + 1 .. Len(line) + 1 : f[j] = g[j]
    PROVE  TokensAt(line, f, i) = TokensAt(line, g, i)
<1>1. CASE i > Len(line)
  BY <1>1 DEF TokensAt
<1>2. CASE i <= Len(line) /\ line[i] \in Blanks
  BY <1>2 DEF TokensAt
<1>3. CASE i <= Len(line) /\ line[i] \notin Blanks /\ line[i] = Quote
  <2> DEFINE end == Position(line, {Quote}, i + 1)
  <2>1. end \in i + 1 .. Len(line) + 1
    BY <1>3, PositionProperties
  <2> HIDE DEF end
  <2>2. end <= Len(line) => f[end + 1] = g[end + 1]
    BY <2>1
  <2>3. ASSUME NEW h
        PROVE  TokensAt(line, h, i) = IF end > Len(line) THEN <<Unterminated>>
                                      ELSE <<SubSeq(line, i + 1, end - 1)>> \o h[end + 1]
    BY <1>3 DEF TokensAt, end
  <2>4. CASE end > Len(line)
    BY <2>3, <2>4
  <2>5. CASE end <= Len(line)
    <3>1. ~(end > Len(line))
      BY <2>1, <2>5
    <3>2. TokensAt(line, f, i) = <<SubSeq(line, i + 1, end - 1)>> \o f[end + 1]
      BY <2>3, <3>1
    <3>3. TokensAt(line, g, i) = <<SubSeq(line, i + 1, end - 1)>> \o g[end + 1]
      BY <2>3, <3>1
    <3>4. QED
      BY <2>2, <2>5, <3>2, <3>3
  <2>6. QED
    BY <2>1, <2>4, <2>5
<1>4. CASE i <= Len(line) /\ line[i] \notin Blanks /\ line[i] # Quote
  <2> DEFINE end == Position(line, Blanks, i + 1)
  <2>1. end \in i + 1 .. Len(line) + 1
    BY <1>4, PositionProperties
  <2> HIDE DEF end
  <2>2. ASSUME NEW h
        PROVE  TokensAt(line, h, i) = <<SubSeq(line, i, end - 1)>> \o h[end]
    BY <1>4 DEF TokensAt, end
  <2>3. QED
    BY <2>1, <2>2
<1>5. QED
  BY <1>1, <1>2, <1>3, <1>4

\* What it says is a list of tokens when what it looks at are such lists.
LEMMA TokensAtType ==
    ASSUME NEW S, NEW line \in Seq(S), NEW i \in 1 .. Len(line) + 1, NEW f,
           \A j \in i + 1 .. Len(line) + 1 : f[j] \in TokenLists(S)
    PROVE  TokensAt(line, f, i) \in TokenLists(S)
<1> DEFINE N == Len(line)
<1>1. N \in Nat /\ \A j \in 1 .. N : line[j] \in S
  BY LenProperties, ElementOfSeq
<1>2. ASSUME NEW a \in 1 .. N + 1, NEW b \in 0 .. N PROVE SubSeq(line, a, b) \in Read(S)
  <2>1. a \in Int /\ b \in Int /\ \A j \in a .. b : line[j] \in S
    BY <1>1
  <2>2. QED
    BY <2>1, SubSeqProperties DEF Read
<1>3. Unterminated \in Read(S)
  BY DEF Read
<1>4. ASSUME NEW t \in Read(S), NEW rest \in TokenLists(S) PROVE <<t>> \o rest \in TokenLists(S)
  BY <1>4, ConcatProperties DEF TokenLists
<1>5. CASE i > N
  BY <1>5 DEF TokensAt, TokenLists
<1>6. CASE i <= N /\ line[i] \in Blanks
  BY <1>1, <1>6 DEF TokensAt
<1>7. CASE i <= N /\ line[i] \notin Blanks /\ line[i] = Quote
  <2> DEFINE end == Position(line, {Quote}, i + 1)
  <2>1. end \in i + 1 .. N + 1
    BY <1>1, <1>7, PositionProperties
  <2>2. TokensAt(line, f, i) = IF end > N THEN <<Unterminated>>
                               ELSE <<SubSeq(line, i + 1, end - 1)>> \o f[end + 1]
    BY <1>7 DEF TokensAt
  <2> HIDE DEF end
  <2>3. CASE end > N
    BY <1>3, <2>2, <2>3 DEF TokenLists
  <2>4. CASE end <= N
    <3>1. f[end + 1] \in TokenLists(S) /\ SubSeq(line, i + 1, end - 1) \in Read(S)
      BY <1>1, <1>2, <2>1, <2>4
    <3>2. ~(end > N)
      BY <1>1, <2>1, <2>4
    <3>3. TokensAt(line, f, i) = <<SubSeq(line, i + 1, end - 1)>> \o f[end + 1]
      BY <2>2, <3>2
    <3>4. QED
      BY <1>4, <3>1, <3>3
  <2>5. QED
    BY <2>1, <2>3, <2>4, <1>1
<1>8. CASE i <= N /\ line[i] \notin Blanks /\ line[i] # Quote
  <2> DEFINE end == Position(line, Blanks, i + 1)
  <2>1. end \in i + 1 .. N + 1
    BY <1>1, <1>8, PositionProperties
  <2>2. TokensAt(line, f, i) = <<SubSeq(line, i, end - 1)>> \o f[end]
    BY <1>8 DEF TokensAt
  <2> HIDE DEF end
  <2>3. f[end] \in TokenLists(S) /\ SubSeq(line, i, end - 1) \in Read(S)
    BY <1>1, <1>2, <2>1
  <2>4. QED
    BY <1>4, <2>2, <2>3
<1>9. QED
  BY <1>1, <1>5, <1>6, <1>7, <1>8

\* The function of Scan exists: it is found from the end of the line on.
LEMMA ScanRecursion ==
    ASSUME NEW S, NEW line \in Seq(S)
    PROVE  \E f \in TokenFunctions(S, line) : IsScan(f, line) /\ Scan(line) = f[1]
<1> DEFINE N == Len(line)
           From(k) == N + 1 - k .. N + 1
           Scans(f, k) == f = [i \in From(k) |-> TokensAt(line, f, i)]
           Found == {k \in 0 .. N : \E f \in [From(k) -> TokenLists(S)] : Scans(f, k)}
<1>1. N \in Nat
  BY LenProperties
<1>2. 0 \in Found
  <2> DEFINE f == [i \in From(0) |-> <<>>]
  <2>1. \A i \in From(0) : TokensAt(line, f, i) = <<>>
    BY <1>1 DEF TokensAt
  <2>2. <<>> \in TokenLists(S)
    BY DEF TokenLists
  <2>3. f \in [From(0) -> TokenLists(S)]
    BY <2>2
  <2>4. Scans(f, 0)
    BY <2>1
  <2> HIDE DEF f
  <2>5. QED
    BY <1>1, <2>3, <2>4
<1>3. ASSUME NEW k \in 0 .. N - 1, k \in Found PROVE k + 1 \in Found
  <2>1. PICK f \in [From(k) -> TokenLists(S)] : Scans(f, k)
    BY <1>3
  <2> DEFINE m == N - k
             g == [i \in From(k + 1) |-> IF i = m THEN TokensAt(line, f, m) ELSE f[i]]
  <2>2. m \in 1 .. N /\ From(k) = m + 1 .. N + 1 /\ From(k + 1) = m .. N + 1
    BY <1>1
  <2>3. TokensAt(line, f, m) \in TokenLists(S)
    <3>1. m \in 1 .. N + 1 /\ \A j \in m + 1 .. N + 1 : f[j] \in TokenLists(S)
      BY <1>1, <2>1, <2>2
    <3> HIDE DEF m
    <3>2. QED
      BY <3>1, TokensAtType
  <2>4. g \in [From(k + 1) -> TokenLists(S)]
    BY <2>2, <2>3
  <2>5. ASSUME NEW i \in From(k + 1) PROVE g[i] = TokensAt(line, g, i)
    <3>1. \A j \in i + 1 .. N + 1 : f[j] = g[j]
      BY <1>1, <2>2
    <3>2. i \in 1 .. N + 1
      BY <2>2
    <3> HIDE DEF g
    <3>3. TokensAt(line, f, i) = TokensAt(line, g, i)
      BY <1>1, <3>1, <3>2, LooksAhead
    <3>4. CASE i = m
      BY <3>3, <3>4 DEF g
    <3>5. CASE i # m
      <4>1. i \in From(k) /\ g[i] = f[i]
        BY <2>2, <3>5 DEF g
      <4>2. f[i] = TokensAt(line, f, i)
        BY <2>1, <4>1
      <4>3. QED
        BY <3>3, <4>1, <4>2
    <3>6. QED
      BY <3>4, <3>5
  <2> HIDE DEF g
  <2>6. Scans(g, k + 1)
    BY <2>4, <2>5
  <2>7. QED
    BY <1>1, <2>4, <2>6
<1>4. 0 .. N \subseteq Found
  <2> HIDE DEF Found
  <2>1. QED
    BY <1>1, <1>2, <1>3, InductionUpTo
<1>5. PICK f \in [1 .. N + 1 -> TokenLists(S)] : IsScan(f, line)
  <2>1. N \in Found /\ From(N) = 1 .. N + 1
    BY <1>1, <1>4
  <2>2. QED
    BY <2>1 DEF IsScan
<1> DEFINE g == CHOOSE h : IsScan(h, line)
<1>6. IsScan(g, line)
  BY <1>5
<1>7. Scan(line) = g[1]
  BY DEF Scan, IsScan, TokensAt
<1>8. g \in [1 .. N + 1 -> TokenLists(S)]
  <2> DEFINE Same == {k \in 0 .. N : \A i \in From(k) : g[i] = f[i]}
  <2>1. \A i \in 1 .. N + 1 : g[i] = TokensAt(line, g, i) /\ f[i] = TokensAt(line, f, i)
    BY <1>5, <1>6 DEF IsScan
  <2> HIDE DEF g
  <2>2. 0 \in Same
    <3>1. N + 1 \in 1 .. N + 1 /\ From(0) = {N + 1}
      BY <1>1
    <3>2. TokensAt(line, g, N + 1) = TokensAt(line, f, N + 1)
      BY <1>1, <3>1, LooksAhead
    <3>3. QED
      BY <1>1, <2>1, <3>1, <3>2
  <2>3. ASSUME NEW k \in 0 .. N - 1, k \in Same PROVE k + 1 \in Same
    <3>1. N - k \in 1 .. N + 1 /\ From(k + 1) = From(k) \cup {N - k} /\ From(k) = (N - k) + 1 .. N + 1
      BY <1>1
    <3>2. TokensAt(line, g, N - k) = TokensAt(line, f, N - k)
      BY <1>1, <2>3, <3>1, LooksAhead
    <3>3. QED
      BY <1>1, <2>1, <2>3, <3>1, <3>2
  <2>4. 0 .. N \subseteq Same
    <3> HIDE DEF Same
    <3>1. QED
      BY <1>1, <2>2, <2>3, InductionUpTo
  <2>5. \A i \in 1 .. N + 1 : g[i] = f[i]
    <3>1. N \in Same /\ From(N) = 1 .. N + 1
      BY <1>1, <2>4
    <3>2. QED
      BY <3>1
  <2>6. g = [i \in 1 .. N + 1 |-> TokensAt(line, g, i)]
    BY <1>6 DEF IsScan
  <2>7. QED
    BY <2>1, <2>5, <2>6
<1>9. QED
  BY <1>6, <1>7, <1>8 DEF TokenFunctions

\* A quote is no blank.
LEMMA QuoteIsNoBlank == Quote \notin Blanks
  BY DEF Quote, Blanks

\* Blanks between two positions make no difference.
LEMMA BlanksAreSkipped ==
    ASSUME NEW line, Len(line) \in Nat, NEW f, IsScan(f, line),
           NEW i \in 1 .. Len(line) + 1, NEW j \in i .. Len(line) + 1,
           BlankBetween(line, i, j - 1)
    PROVE  f[i] = f[j]
<1> DEFINE Same == {k \in 0 .. j - i : f[i + k] = f[i]}
<1>1. i \in Nat /\ j \in Nat /\ j - i \in Nat
  OBVIOUS
<1>2. 0 \in Same
  BY <1>1
<1>3. ASSUME NEW k \in 0 .. (j - i) - 1, k \in Same PROVE k + 1 \in Same
  <2>1. i + k \in i .. j - 1 /\ i + k \in 1 .. Len(line) + 1 /\ i + k <= Len(line)
    BY <1>1
  <2>2. f[i + k] = TokensAt(line, f, i + k) /\ line[i + k] \in Blanks
    BY <2>1 DEF IsScan, BlankBetween
  <2>3. f[i + k] = f[(i + k) + 1]
    BY <1>1, <2>1, <2>2 DEF TokensAt
  <2>4. QED
    BY <1>1, <1>3, <2>3
<1>4. 0 .. j - i \subseteq Same
  <2> HIDE DEF Same
  <2>1. QED
    BY <1>1, <1>2, <1>3, InductionUpTo
<1>5. QED
  BY <1>1, <1>4

\* A string, and a word, are read where they begin, and reading goes on behind.
LEMMA TokenIsRead ==
    ASSUME NEW line, Len(line) \in Nat, NEW f, IsScan(f, line),
           NEW i \in 1 .. Len(line), NEW j \in 1 .. Len(line), NEW t, IsToken(line, i, j, t)
    PROVE  f[i] = <<t>> \o f[j + 1]
<1> DEFINE N == Len(line)
<1>1. f[i] = TokensAt(line, f, i) /\ i + 1 \in 1 .. N + 1
  BY DEF IsScan
<1>2. ASSUME InQuotes(line, i, j) PROVE f[i] = <<SubSeq(line, i + 1, j - 1)>> \o f[j + 1]
  <2> DEFINE end == Position(line, {Quote}, i + 1)
  <2>1. /\ end \in i + 1 .. N + 1
        /\ \A p \in i + 1 .. end - 1 : line[p] \notin {Quote}
        /\ end <= N => line[end] \in {Quote}
    BY <1>1, PositionProperties
  <2> HIDE DEF end
  <2>2. end = j
    <3>1. i < j /\ line[j] = Quote /\ \A p \in i + 1 .. j - 1 : line[p] # Quote
      BY <1>2 DEF InQuotes
    <3>2. ~(end < j)
      BY <2>1, <3>1
    <3>3. ~(j < end)
      BY <2>1, <3>1
    <3>4. QED
      BY <2>1, <3>2, <3>3
  <2>3. line[i] = Quote /\ line[i] \notin Blanks /\ ~(i > N) /\ ~(j > N)
    BY <1>2, QuoteIsNoBlank DEF InQuotes
  <2>4. QED
    BY <1>1, <2>2, <2>3 DEF TokensAt, end
<1>3. ASSUME IsWord(line, i, j) PROVE f[i] = <<SubSeq(line, i, j)>> \o f[j + 1]
  <2> DEFINE end == Position(line, Blanks, i + 1)
  <2>1. /\ end \in i + 1 .. N + 1
        /\ \A p \in i + 1 .. end - 1 : line[p] \notin Blanks
        /\ end <= N => line[end] \in Blanks
    BY <1>1, PositionProperties
  <2> HIDE DEF end
  <2>2. /\ i <= j /\ line[i] # Quote /\ \A p \in i .. j : line[p] \notin Blanks
        /\ j < N => line[j + 1] \in Blanks
    BY <1>3 DEF IsWord
  <2>3. end = j + 1
    <3>1. ~(end < j + 1)
      BY <2>1, <2>2
    <3>2. ~(j + 1 < end)
      BY <2>1, <2>2
    <3>3. QED
      BY <2>1, <3>1, <3>2
  <2>4. line[i] # Quote /\ line[i] \notin Blanks /\ ~(i > N) /\ end - 1 = j
    BY <2>2, <2>3
  <2>5. QED
    BY <1>1, <2>3, <2>4 DEF TokensAt, end
<1>4. QED
  BY <1>2, <1>3 DEF IsToken

\* Blanks are skipped, and then the token behind them is read.
LEMMA NextIsRead ==
    ASSUME NEW line, Len(line) \in Nat, NEW f, IsScan(f, line),
           NEW a \in 1 .. Len(line) + 1, NEW i \in 1 .. Len(line), NEW j \in 1 .. Len(line),
           a <= i, BlankBetween(line, a, i - 1), NEW t, IsToken(line, i, j, t)
    PROVE  f[a] = <<t>> \o f[j + 1]
<1>1. i \in a .. Len(line) + 1
  OBVIOUS
<1>2. f[a] = f[i]
  BY <1>1, BlanksAreSkipped
<1>3. f[i] = <<t>> \o f[j + 1]
  BY TokenIsRead
<1>4. QED
  BY <1>2, <1>3

\* Token l and what follows may be put behind the tokens before it, or l be taken
\* with these.
LEMMA OneMore ==
    ASSUME NEW S, NEW tokens \in TokenLists(S), NEW rest \in TokenLists(S),
           NEW l \in 1 .. Len(tokens)
    PROVE  SubSeq(tokens, 1, l - 1) \o (<<tokens[l]>> \o rest) = SubSeq(tokens, 1, l) \o rest
<1> DEFINE before == SubSeq(tokens, 1, l - 1)
           token == <<tokens[l]>>
<1>1. Len(tokens) \in Nat /\ \A j \in 1 .. Len(tokens) : tokens[j] \in Read(S)
  BY LenProperties, ElementOfSeq DEF TokenLists
<1>2. SubSeq(tokens, 1, l) = before \o token
  BY <1>1, SubSeqRecursiveSecond DEF TokenLists
<1>3. before \in Seq(Read(S))
  <2>1. l - 1 \in Int /\ 1 \in Int /\ \A j \in 1 .. l - 1 : tokens[j] \in Read(S)
    BY <1>1
  <2>2. QED
    BY <2>1, SubSeqProperties
<1>4. token \in Seq(Read(S)) /\ rest \in Seq(Read(S))
  BY <1>1 DEF TokenLists
<1> HIDE DEF before, token
<1>5. (before \o token) \o rest = before \o (token \o rest)
  BY <1>3, <1>4, ConcatAssociative
<1>6. QED
  BY <1>2, <1>5 DEF before, token

\* Up to m, what is written is read, and reading goes on behind it.
LEMMA WritingIsRead ==
    ASSUME NEW S, NEW line \in Seq(S), NEW tokens \in TokenLists(S), NEW m \in 0 .. Len(line),
           NEW first \in Positions(line, tokens), NEW last \in Positions(line, tokens),
           IsWriting(line, m, tokens, first, last),
           NEW f \in TokenFunctions(S, line), IsScan(f, line)
    PROVE  f[1] = tokens \o f[m + 1]
<1> DEFINE N == Len(line)
           n == Len(tokens)
           after(k) == IF k = 0 THEN 1 ELSE last[k] + 1
           Done == {k \in 0 .. n : f[1] = SubSeq(tokens, 1, k) \o f[after(k)]}
<1>1. N \in Nat /\ n \in Nat
  BY LenProperties DEF TokenLists
<1>2. /\ \A k \in 1 .. n : first[k] \in 1 .. N /\ last[k] \in 1 .. N
      /\ \A i \in 1 .. N + 1 : f[i] \in TokenLists(S)
  <2>1. \A k \in 1 .. n : first[k] \in 1 .. N /\ last[k] \in 1 .. N
    <3>1. first \in [1 .. n -> 1 .. N] /\ last \in [1 .. n -> 1 .. N]
      BY DEF Positions
    <3> HIDE DEF n, N
    <3>2. QED
      BY <3>1
  <2>2. \A i \in 1 .. N + 1 : f[i] \in TokenLists(S)
    BY DEF TokenFunctions
  <2>3. QED
    BY <2>1, <2>2
<1>3. \A k \in 0 .. n : after(k) \in 1 .. N + 1
  <2> SUFFICES ASSUME NEW k \in 0 .. n PROVE after(k) \in 1 .. N + 1
    OBVIOUS
  <2>1. CASE k = 0
    BY <1>1, <2>1
  <2>2. CASE k # 0
    <3>1. k \in 1 .. n
      BY <1>1, <2>2
    <3>2. QED
      BY <1>1, <1>2, <2>2, <3>1
  <2>3. QED
    BY <2>1, <2>2
<1>4. /\ \A k \in 1 .. n :
            /\ after(k - 1) <= first[k] /\ last[k] <= m
            /\ BlankBetween(line, after(k - 1), first[k] - 1)
            /\ IsToken(line, first[k], last[k], tokens[k])
      /\ BlankBetween(line, after(n), m)
  BY DEF IsWriting
<1>5. after(0) = 1 /\ \A k \in 1 .. n : after(k) = last[k] + 1
  OBVIOUS
<1> HIDE DEF N, n, after
<1>6. 0 \in Done
  <2>1. SubSeq(tokens, 1, 0) = <<>>
    BY SubSeqEmpty
  <2>2. f[1] \in TokenLists(S)
    BY <1>1, <1>2
  <2>3. <<>> \o f[1] = f[1]
    BY <2>2, ConcatEmptySeq DEF TokenLists
  <2>4. f[1] = SubSeq(tokens, 1, 0) \o f[after(0)]
    BY <1>5, <2>1, <2>3
  <2>5. QED
    BY <1>1, <2>4
<1>7. ASSUME NEW k \in 0 .. n - 1, k \in Done PROVE k + 1 \in Done
  <2> DEFINE l == k + 1
  <2>1. l \in 1 .. n /\ l \in 0 .. n /\ k \in 0 .. n /\ l - 1 = k
    BY <1>1
  <2> HIDE DEF l
  <2>2. f[after(k)] = <<tokens[l]>> \o f[after(l)]
    <3> DEFINE i == first[l]
               j == last[l]
               a == after(k)
               t == tokens[l]
    <3>1. i \in 1 .. N /\ j \in 1 .. N /\ a \in 1 .. N + 1 /\ after(l) = j + 1
      BY <1>2, <1>3, <1>5, <2>1
    <3>2. a <= i /\ BlankBetween(line, a, i - 1) /\ IsToken(line, i, j, t)
      BY <1>4, <2>1
    <3> HIDE DEF i, j, a, t
    <3>3. /\ Len(line) \in Nat /\ a \in 1 .. Len(line) + 1
          /\ i \in 1 .. Len(line) /\ j \in 1 .. Len(line)
      BY <1>1, <3>1 DEF N
    <3>4. f[a] = <<t>> \o f[j + 1]
      BY <3>2, <3>3, NextIsRead
    <3>5. QED
      BY <3>1, <3>4 DEF a, t
  <2>3. SubSeq(tokens, 1, l - 1) \o (<<tokens[l]>> \o f[after(l)]) = SubSeq(tokens, 1, l) \o f[after(l)]
    <3> DEFINE rest == f[after(l)]
    <3>1. rest \in TokenLists(S) /\ l \in 1 .. Len(tokens)
      BY <1>2, <1>3, <2>1 DEF n
    <3> HIDE DEF rest
    <3>2. SubSeq(tokens, 1, l - 1) \o (<<tokens[l]>> \o rest) = SubSeq(tokens, 1, l) \o rest
      BY <3>1, OneMore
    <3>3. QED
      BY <3>2 DEF rest
  <2>4. f[1] = SubSeq(tokens, 1, k) \o f[after(k)]
    BY <1>7
  <2>5. f[1] = SubSeq(tokens, 1, l) \o f[after(l)]
    BY <2>1, <2>2, <2>3, <2>4
  <2>6. QED
    BY <2>1, <2>5 DEF l
<1>8. 0 .. n \subseteq Done
  <2> HIDE DEF Done
  <2>1. QED
    BY <1>1, <1>6, <1>7, InductionUpTo
<1>9. f[1] = tokens \o f[after(n)]
  <2>1. n \in 0 .. n
    BY <1>1
  <2>2. SubSeq(tokens, 1, n) = tokens
    BY SubSeqFull DEF n, TokenLists
  <2>3. QED
    BY <1>8, <2>1, <2>2
<1>10. f[after(n)] = f[m + 1]
  <2>1. after(n) \in 1 .. N + 1 /\ after(n) <= m + 1 /\ m + 1 \in after(n) .. N + 1
    <3>1. m \in 0 .. N
      BY DEF N
    <3>2. CASE n = 0
      BY <1>1, <1>5, <3>1, <3>2
    <3>3. CASE n # 0
      <4>1. n \in 1 .. n
        BY <1>1, <3>3
      <4>2. last[n] <= m /\ after(n) = last[n] + 1 /\ last[n] \in 1 .. N
        BY <1>2, <1>4, <1>5, <4>1
      <4>3. QED
        BY <1>1, <3>1, <4>2
    <3>4. QED
      BY <3>2, <3>3
  <2>2. BlankBetween(line, after(n), (m + 1) - 1)
    BY <1>4
  <2> DEFINE a == after(n)
  <2> HIDE DEF a
  <2>3. QED
    BY <1>1, <2>1, <2>2, BlanksAreSkipped DEF N
<1>11. QED
  BY <1>9, <1>10

\* So it is with the function of Scan.
LEMMA ReadUpTo ==
    ASSUME NEW S, NEW line \in Seq(S), NEW tokens \in TokenLists(S), NEW m \in 0 .. Len(line),
           NEW first \in Positions(line, tokens), NEW last \in Positions(line, tokens),
           IsWriting(line, m, tokens, first, last)
    PROVE  \E f : IsScan(f, line) /\ Scan(line) = tokens \o f[m + 1]
<1>1. PICK f \in TokenFunctions(S, line) : IsScan(f, line) /\ Scan(line) = f[1]
  BY ScanRecursion
<1>2. f[1] = tokens \o f[m + 1]
  BY <1>1, WritingIsRead
<1>3. QED
  BY <1>1, <1>2

\* A line that is a writing is read as its tokens.
LEMMA LineIsRead ==
    ASSUME NEW S, NEW line \in Seq(S), NEW tokens \in TokenLists(S),
           NEW first \in Positions(line, tokens), NEW last \in Positions(line, tokens),
           IsWriting(line, Len(line), tokens, first, last)
    PROVE  Scan(line) = tokens
<1> DEFINE N == Len(line)
<1>1. N \in Nat
  BY LenProperties
<1>2. N \in 0 .. N /\ N + 1 \in 1 .. N + 1 /\ N + 1 > N
  BY <1>1
<1>3. PICK f : IsScan(f, line) /\ Scan(line) = tokens \o f[N + 1]
  BY <1>2, ReadUpTo
<1>4. f[N + 1] = <<>>
  <2>1. f[N + 1] = TokensAt(line, f, N + 1)
    BY <1>2, <1>3 DEF IsScan
  <2>2. QED
    BY <1>2, <2>1 DEF TokensAt
<1>5. tokens \o <<>> = tokens
  BY ConcatEmptySeq DEF TokenLists
<1>6. QED
  BY <1>3, <1>4, <1>5

\* Where a string begins that has no end, the function of Scan has the mark.
LEMMA MarkIsRead ==
    ASSUME NEW line, Len(line) \in Nat, NEW f, IsScan(f, line), NEW q \in 1 .. Len(line),
           line[q] = Quote, \A p \in q + 1 .. Len(line) : line[p] # Quote
    PROVE  f[q] = <<Unterminated>>
<1> DEFINE N == Len(line)
           end == Position(line, {Quote}, q + 1)
<1>1. q \in 1 .. N + 1 /\ q + 1 \in 1 .. N + 1 /\ ~(q > N)
  OBVIOUS
<1>2. end \in q + 1 .. N + 1 /\ (end <= N => line[end] \in {Quote})
  BY <1>1, PositionProperties
<1> HIDE DEF end
<1>3. end > N
  BY <1>2
<1>4. f[q] = TokensAt(line, f, q)
  BY <1>1 DEF IsScan
<1>5. QED
  BY <1>1, <1>3, <1>4, QuoteIsNoBlank DEF TokensAt, end

\* Strings of a line's characters are token lists, none of which holds the mark.
LEMMA StringsAreTokens ==
    ASSUME NEW S, Unterminated \notin Seq(S), NEW tokens \in Seq(Seq(S))
    PROVE  tokens \in TokenLists(S) /\ Unterminated \notin ToSet(tokens)
<1>1. tokens \in TokenLists(S)
  BY SeqMonotonic DEF TokenLists, Read
<1>2. ASSUME Unterminated \in ToSet(tokens) PROVE FALSE
  <2>1. PICK k \in 1 .. Len(tokens) : tokens[k] = Unterminated
    BY <1>2, LenProperties DEF ToSet
  <2>2. QED
    BY <2>1, ElementOfSeq
<1>3. QED
  BY <1>1, <1>2

\* The parser reads what is written (InputParser::scan_tokens): a line of any
\* length in which tokens stand as words or in quotes, with blanks around them and
\* behind every word, is read as these tokens, and so has no other reading.
THEOREM ReadsWhatIsWritten ==
    ASSUME NEW S, Unterminated \notin Seq(S),
           NEW line \in Seq(S), NEW tokens \in Seq(Seq(S)),
           NEW first \in Positions(line, tokens), NEW last \in Positions(line, tokens),
           IsWriting(line, Len(line), tokens, first, last)
    PROVE  Tokens(line) = tokens
<1>1. tokens \in TokenLists(S) /\ Unterminated \notin ToSet(tokens)
  BY StringsAreTokens
<1>2. Scan(line) = tokens
  BY <1>1, LineIsRead
<1>3. QED
  BY <1>1, <1>2 DEF Tokens

\* A line in which a string begins, where a token could, that has no end is dropped
\* as a whole (InputParser::string throws), whatever was read before it.
THEOREM DropsWhatHasNoEnd ==
    ASSUME NEW S, Unterminated \notin Seq(S),
           NEW line \in Seq(S), NEW tokens \in Seq(Seq(S)), NEW m \in 0 .. Len(line) - 1,
           NEW first \in Positions(line, tokens), NEW last \in Positions(line, tokens),
           IsWriting(line, m, tokens, first, last),
           line[m + 1] = Quote, \A p \in m + 2 .. Len(line) : line[p] # Quote
    PROVE  Tokens(line) = <<>>
<1>1. tokens \in TokenLists(S)
  BY StringsAreTokens
<1> DEFINE q == m + 1
<1>2. Len(line) \in Nat
  BY LenProperties
<1>3. m \in 0 .. Len(line) /\ q \in 1 .. Len(line) /\ m + 2 = q + 1
  BY <1>2
<1>4. PICK f : IsScan(f, line) /\ Scan(line) = tokens \o f[q]
  BY <1>1, <1>3, ReadUpTo
<1>5. line[q] = Quote /\ \A p \in q + 1 .. Len(line) : line[p] # Quote
  BY <1>3
<1> HIDE DEF q
<1>6. f[q] = <<Unterminated>>
  BY <1>2, <1>3, <1>4, <1>5, MarkIsRead
<1>7. Unterminated \in ToSet(Scan(line))
  <2> DEFINE all == tokens \o <<Unterminated>>
             n == Len(tokens)
  <2>1. n \in Nat /\ <<Unterminated>> \in TokenLists(S)
    BY LenProperties DEF TokenLists, Read
  <2>2. all \in TokenLists(S) /\ Len(all) = n + 1 /\ all[n + 1] = Unterminated
    BY <1>1, <2>1, ConcatProperties DEF TokenLists
  <2> HIDE DEF all, n
  <2>3. n + 1 \in DOMAIN all
    BY <2>1, <2>2, LenProperties DEF TokenLists
  <2>4. QED
    BY <1>4, <1>6, <2>2, <2>3 DEF ToSet, all
<1>8. QED
  BY <1>7 DEF Tokens

\* The line up to m is a writing of some tokens.
IsWrittenUpTo(S, line, m) ==
    \E tokens \in Seq(Seq(S)) : \E first, last \in Positions(line, tokens) :
        IsWriting(line, m, tokens, first, last)

\* A writing goes on with a blank.
LEMMA OneBlankMore ==
    ASSUME NEW S, NEW line \in Seq(S), NEW m \in 0 .. Len(line) - 1,
           IsWrittenUpTo(S, line, m), line[m + 1] \in Blanks
    PROVE  IsWrittenUpTo(S, line, m + 1)
<1>0. PICK tokens \in Seq(Seq(S)) : \E first, last \in Positions(line, tokens) :
         IsWriting(line, m, tokens, first, last)
  BY DEF IsWrittenUpTo
<1>1. PICK first \in Positions(line, tokens), last \in Positions(line, tokens) :
         IsWriting(line, m, tokens, first, last)
  BY <1>0
<1> DEFINE n == Len(tokens)
           after(k) == IF k = 0 THEN 1 ELSE last[k] + 1
<1>2. n \in Nat /\ Len(line) \in Nat /\ m \in Nat
  BY LenProperties
<1>3. \A k \in 1 .. n : last[k] \in 1 .. Len(line)
  BY DEF Positions
<1>4. /\ \A k \in 1 .. n :
            /\ after(k - 1) <= first[k] /\ last[k] <= m
            /\ BlankBetween(line, after(k - 1), first[k] - 1)
            /\ IsToken(line, first[k], last[k], tokens[k])
      /\ BlankBetween(line, after(n), m)
  BY <1>1 DEF IsWriting
<1>5. \A k \in 1 .. n : last[k] <= m + 1
  BY <1>2, <1>3, <1>4
<1>6. after(n) \in Nat
  <2>1. CASE n = 0
    BY <2>1
  <2>2. CASE n # 0
    <3>1. n \in 1 .. n
      BY <1>2, <2>2
    <3>2. QED
      BY <1>2, <1>3, <2>2, <3>1
  <2>3. QED
    BY <2>1, <2>2
<1> HIDE DEF n, after
<1>7. BlankBetween(line, after(n), m + 1)
  <2> SUFFICES ASSUME NEW p \in after(n) .. m + 1 PROVE line[p] \in Blanks
    BY DEF BlankBetween
  <2>1. p = m + 1 \/ p \in after(n) .. m
    BY <1>2, <1>6
  <2>2. QED
    BY <1>4, <2>1 DEF BlankBetween
<1>8. IsWriting(line, m + 1, tokens, first, last)
  BY <1>4, <1>5, <1>7 DEF IsWriting, n, after
<1>9. QED
  BY <1>8 DEF IsWrittenUpTo

\* A writing goes on with a token behind it.
LEMMA OneTokenMore ==
    ASSUME NEW S, NEW line \in Seq(S), NEW m \in 0 .. Len(line) - 1,
           IsWrittenUpTo(S, line, m),
           NEW e \in m + 1 .. Len(line), NEW t \in Seq(S), IsToken(line, m + 1, e, t)
    PROVE  IsWrittenUpTo(S, line, e)
<1>0. PICK tokens \in Seq(Seq(S)) : \E first, last \in Positions(line, tokens) :
         IsWriting(line, m, tokens, first, last)
  BY DEF IsWrittenUpTo
<1>1. PICK first \in Positions(line, tokens), last \in Positions(line, tokens) :
         IsWriting(line, m, tokens, first, last)
  BY <1>0
<1> DEFINE N == Len(line)
           n == Len(tokens)
           after(k) == IF k = 0 THEN 1 ELSE last[k] + 1
           tokens2 == Append(tokens, t)
           first2 == [k \in 1 .. n + 1 |-> IF k = n + 1 THEN m + 1 ELSE first[k]]
           last2 == [k \in 1 .. n + 1 |-> IF k = n + 1 THEN e ELSE last[k]]
           after2(k) == IF k = 0 THEN 1 ELSE last2[k] + 1
<1>2. n \in Nat /\ N \in Nat /\ m \in Nat /\ e \in Nat /\ m + 1 <= e /\ e <= N
  <2>1. n \in Nat /\ N \in Nat
    BY LenProperties
  <2>2. QED
    BY <2>1
<1>3. /\ \A k \in 1 .. n : first[k] \in 1 .. N /\ last[k] \in 1 .. N
  <2>1. first \in [1 .. n -> 1 .. N] /\ last \in [1 .. n -> 1 .. N]
    BY DEF Positions
  <2> HIDE DEF n, N
  <2>2. QED
    BY <2>1
<1>4. /\ \A k \in 1 .. n :
            /\ after(k - 1) <= first[k] /\ last[k] <= m
            /\ BlankBetween(line, after(k - 1), first[k] - 1)
            /\ IsToken(line, first[k], last[k], tokens[k])
      /\ BlankBetween(line, after(n), m)
  BY <1>1 DEF IsWriting
<1>5. /\ tokens2 \in Seq(Seq(S)) /\ Len(tokens2) = n + 1
      /\ tokens2[n + 1] = t /\ \A k \in 1 .. n : tokens2[k] = tokens[k]
  BY AppendProperties
<1>6. /\ first2[n + 1] = m + 1 /\ last2[n + 1] = e
      /\ \A k \in 1 .. n : first2[k] = first[k] /\ last2[k] = last[k]
  BY <1>2
<1>7. first2 \in [1 .. n + 1 -> 1 .. N] /\ last2 \in [1 .. n + 1 -> 1 .. N]
  <2> HIDE DEF n, N
  <2>1. m + 1 \in 1 .. N /\ e \in 1 .. N /\ \A k \in 1 .. n + 1 : k = n + 1 \/ k \in 1 .. n
    BY <1>2
  <2>2. QED
    BY <1>3, <2>1
<1>8. after(0) = 1 /\ after2(0) = 1 /\ after2(n + 1) = e + 1
  BY <1>2, <1>6
<1>9. \A k \in 0 .. n : after2(k) = after(k)
  BY <1>2, <1>6
<1>10. after(n) \in Nat /\ after(n) <= m + 1
  <2>1. CASE n = 0
    BY <1>2, <2>1
  <2>2. CASE n # 0
    <3>1. n \in 1 .. n
      BY <1>2, <2>2
    <3>2. last[n] <= m /\ last[n] \in 1 .. N /\ after(n) = last[n] + 1
      BY <1>3, <1>4, <2>2, <3>1
    <3> HIDE DEF after, n, N
    <3>3. QED
      BY <1>2, <3>2
  <2>3. QED
    BY <2>1, <2>2
<1> HIDE DEF N, n, after, after2, first2, last2, tokens2
<1>11. ASSUME NEW k \in 1 .. n + 1
       PROVE  /\ after2(k - 1) <= first2[k] /\ last2[k] <= e
              /\ BlankBetween(line, after2(k - 1), first2[k] - 1)
              /\ IsToken(line, first2[k], last2[k], tokens2[k])
  <2>1. CASE k = n + 1
    <3>1. k - 1 = n /\ (m + 1) - 1 = m /\ n \in 0 .. n
      BY <1>2, <2>1
    <3>2. after2(k - 1) = after(n) /\ first2[k] = m + 1 /\ last2[k] = e /\ tokens2[k] = t
      BY <1>5, <1>6, <1>9, <2>1, <3>1
    <3>3. first2[k] - 1 = m /\ last2[k] <= e
      BY <1>2, <3>1, <3>2
    <3>4. QED
      BY <1>4, <1>10, <3>2, <3>3
  <2>2. CASE k # n + 1
    <3>1. k \in 1 .. n /\ k - 1 \in 0 .. n
      BY <1>2, <2>2
    <3>2. after2(k - 1) = after(k - 1) /\ first2[k] = first[k] /\ last2[k] = last[k] /\ tokens2[k] = tokens[k]
      BY <1>5, <1>6, <1>9, <3>1
    <3>3. last[k] <= m /\ last[k] \in Nat
      BY <1>2, <1>3, <1>4, <3>1
    <3>4. last[k] <= e
      BY <1>2, <3>3
    <3>5. QED
      BY <1>4, <3>1, <3>2, <3>4
  <2>3. QED
    BY <2>1, <2>2
<1>12. BlankBetween(line, after2(n + 1), e)
  BY <1>2, <1>8 DEF BlankBetween
<1>13. IsWriting(line, e, tokens2, first2, last2)
  BY <1>5, <1>11, <1>12 DEF IsWriting, after2
<1>14. first2 \in Positions(line, tokens2) /\ last2 \in Positions(line, tokens2)
  BY <1>5, <1>7 DEF Positions, N
<1>15. QED
  BY <1>5, <1>13, <1>14 DEF IsWrittenUpTo

\* Behind a writing that is not the whole line there is a blank, a token, or a
\* string that has no end.
LEMMA WritingGoesOn ==
    ASSUME NEW S, NEW line \in Seq(S), NEW m \in 0 .. Len(line) - 1
    PROVE  \/ line[m + 1] \in Blanks
           \/ line[m + 1] = Quote /\ \A p \in m + 2 .. Len(line) : line[p] # Quote
           \/ \E e \in m + 1 .. Len(line), t \in Seq(S) : IsToken(line, m + 1, e, t)
<1> DEFINE N == Len(line)
           i == m + 1
<1>1. N \in Nat /\ \A j \in 1 .. N : line[j] \in S
  BY LenProperties, ElementOfSeq
<1>2. i \in 1 .. N /\ i + 1 \in 1 .. N + 1 /\ m + 2 = i + 1
  BY <1>1
<1>3. ASSUME NEW a \in 1 .. N + 1, NEW b \in 0 .. N PROVE SubSeq(line, a, b) \in Seq(S)
  <2>1. a \in Int /\ b \in Int /\ \A j \in a .. b : line[j] \in S
    BY <1>1
  <2>2. QED
    BY <2>1, SubSeqProperties
<1> HIDE DEF i
<1>4. CASE line[i] = Quote
  <2> DEFINE e == Position(line, {Quote}, i + 1)
  <2>1. /\ e \in i + 1 .. N + 1
        /\ \A p \in i + 1 .. e - 1 : line[p] \notin {Quote}
        /\ e <= N => line[e] \in {Quote}
    BY <1>1, <1>2, PositionProperties
  <2> HIDE DEF e
  <2>2. CASE e > N
    <3>1. \A p \in i + 1 .. N : p \in i + 1 .. e - 1
      BY <1>1, <2>1, <2>2
    <3>2. QED
      BY <1>2, <1>4, <2>1, <3>1 DEF i
  <2>3. CASE e <= N
    <3>1. InQuotes(line, i, e)
      BY <1>2, <1>4, <2>1, <2>3 DEF InQuotes
    <3>2. SubSeq(line, i + 1, e - 1) \in Seq(S)
      BY <1>1, <1>2, <1>3, <2>1, <2>3
    <3>3. IsToken(line, i, e, SubSeq(line, i + 1, e - 1)) /\ e \in i .. N
      BY <1>2, <2>1, <2>3, <3>1 DEF IsToken
    <3>4. QED
      BY <3>2, <3>3 DEF i
  <2>4. QED
    BY <1>1, <2>1, <2>2, <2>3
<1>5. CASE line[i] # Quote /\ line[i] \notin Blanks
  <2> DEFINE end == Position(line, Blanks, i + 1)
             e == end - 1
  <2>1. /\ end \in i + 1 .. N + 1
        /\ \A p \in i + 1 .. end - 1 : line[p] \notin Blanks
        /\ end <= N => line[end] \in Blanks
    BY <1>1, <1>2, PositionProperties
  <2> HIDE DEF end
  <2>2. e \in i .. N /\ end = e + 1 /\ (e < N => end <= N)
    BY <1>1, <1>2, <2>1
  <2>3. \A p \in i .. e : line[p] \notin Blanks
    <3>1. \A p \in i .. e : p = i \/ p \in i + 1 .. end - 1
      BY <1>2, <2>1
    <3>2. QED
      BY <1>5, <2>1, <3>1
  <2> HIDE DEF e
  <2>4. IsWord(line, i, e)
    BY <1>2, <1>5, <2>1, <2>2, <2>3 DEF IsWord
  <2>5. SubSeq(line, i, e) \in Seq(S)
    BY <1>1, <1>2, <1>3, <2>2
  <2>6. IsToken(line, i, e, SubSeq(line, i, e))
    BY <2>4 DEF IsToken
  <2>7. QED
    BY <2>2, <2>5, <2>6 DEF i
<1>6. QED
  BY <1>4, <1>5 DEF i

\* Every line, of any length, is a writing of its tokens, or is one up to a string
\* that has no end and has no tokens: with the two theorems before, the parser's
\* answer is what IsWriting says, for every line (InputParser::scan_tokens).
THEOREM EveryLineIsRead ==
    ASSUME NEW S, Unterminated \notin Seq(S), NEW line \in Seq(S)
    PROVE  \/ /\ Tokens(line) \in Seq(Seq(S))
              /\ \E first, last \in Positions(line, Tokens(line)) :
                    IsWriting(line, Len(line), Tokens(line), first, last)
           \/ /\ Tokens(line) = <<>>
              /\ \E m \in 0 .. Len(line) - 1 :
                    /\ IsWrittenUpTo(S, line, m)
                    /\ line[m + 1] = Quote
                    /\ \A p \in m + 2 .. Len(line) : line[p] # Quote
<1> DEFINE N == Len(line)
           T == {m \in 0 .. N : IsWrittenUpTo(S, line, m)}
<1>1. N \in Nat
  BY LenProperties
<1>2. 0 \in T
  <2> DEFINE none == <<>>
  <2>1. none \in Seq(Seq(S)) /\ Len(none) = 0
    BY EmptySeq
  <2>2. none \in Positions(line, none)
    BY <2>1 DEF Positions
  <2>3. IsWriting(line, 0, none, none, none)
    BY <2>1 DEF IsWriting, BlankBetween
  <2> HIDE DEF none
  <2>4. IsWrittenUpTo(S, line, 0)
    BY <2>1, <2>2, <2>3 DEF IsWrittenUpTo
  <2>5. QED
    BY <1>1, <2>4
<1>3. PICK m \in T : \A x \in T : m >= x
  <2>1. T \subseteq 0 .. N /\ T # {}
    BY <1>2
  <2> HIDE DEF T
  <2>2. QED
    BY <1>1, <2>1, GreatestNatural
<1>4. CASE m = N
  <2>0. PICK tokens \in Seq(Seq(S)) : \E first, last \in Positions(line, tokens) :
           IsWriting(line, N, tokens, first, last)
    BY <1>3, <1>4 DEF IsWrittenUpTo
  <2>1. PICK first \in Positions(line, tokens), last \in Positions(line, tokens) :
           IsWriting(line, N, tokens, first, last)
    BY <2>0
  <2>2. Tokens(line) = tokens
    BY <2>1, ReadsWhatIsWritten
  <2>3. QED
    BY <2>1, <2>2
<1>5. CASE m # N
  <2>1. m \in 0 .. N - 1 /\ IsWrittenUpTo(S, line, m)
    BY <1>1, <1>3, <1>5
  <2>2. CASE line[m + 1] \in Blanks
    <3>1. IsWrittenUpTo(S, line, m + 1)
      BY <2>1, <2>2, OneBlankMore
    <3>2. m + 1 \in T /\ ~(m >= m + 1)
      BY <1>1, <2>1, <3>1
    <3>3. QED
      BY <1>3, <3>2
  <2>3. ASSUME NEW e \in m + 1 .. N, NEW t \in Seq(S), IsToken(line, m + 1, e, t)
        PROVE  FALSE
    <3>1. IsWrittenUpTo(S, line, e)
      BY <2>1, <2>3, OneTokenMore
    <3>2. e \in T /\ ~(m >= e)
      BY <1>1, <2>1, <3>1
    <3>3. QED
      BY <1>3, <3>2
  <2>4. CASE line[m + 1] = Quote /\ \A p \in m + 2 .. N : line[p] # Quote
    <3>0. PICK tokens \in Seq(Seq(S)) : \E first, last \in Positions(line, tokens) :
             IsWriting(line, m, tokens, first, last)
      BY <2>1 DEF IsWrittenUpTo
    <3>1. PICK first \in Positions(line, tokens), last \in Positions(line, tokens) :
             IsWriting(line, m, tokens, first, last)
      BY <3>0
    <3>2. Tokens(line) = <<>>
      BY <2>1, <2>4, <3>1, DropsWhatHasNoEnd
    <3>3. QED
      BY <2>1, <2>4, <3>2
  <2>5. QED
    BY <2>1, <2>2, <2>3, <2>4, WritingGoesOn
<1>6. QED
  BY <1>4, <1>5
=============================================================================
