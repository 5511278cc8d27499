--------------------------- MODULE ChannelProofs ----------------------------
(***************************************************************************)
(* Proofs about one direction of a connection, for any writers, messages   *)
(* of any sizes and any room of the buffers.                               *)
(***************************************************************************)
EXTENDS Channel, NaturalSets, SequenceTheorems, TLAPS

\* A writer that is past its poll has a message, and one that has put a part of
\* it is in write(2) and met full buffers.
AtWork ==
    \A w \in Writers :
        /\ wpc[w] \in {"polled", "writing"} => wnext[w] <= Len(Program[w])
        /\ wput[w] > 0 => wpc[w] = "writing" /\ Len(stream) >= Capacity

\* The stream begins with a message, and within a message goes on to the next cell.
Consecutive ==
    /\ Len(stream) > 0 => Begins(1)
    /\ \A i \in 1 .. Len(stream) - 1 :
         stream[i].msg = stream[i + 1].msg => stream[i + 1].at = stream[i].at + 1

\* If the last cell is of the message that a writer is at, it is the last that
\* the writer put.
LeftOff ==
    conn = "open" /\ ~reset /\ Len(stream) > 0 =>
        \A w \in Writers :
            stream[Len(stream)].msg = Writing(w) => stream[Len(stream)].at = wput[w]

\* A stream that ends within a message has met full buffers.
CutShortWhenFull ==
    Len(stream) > 0 /\ ~Ends(Len(stream)) => Len(stream) >= Capacity

\* A message ends, or the first is yet to begin, after the first k cells.
Boundary(k) == k = 0 \/ Ends(k)

\* Where the read began that `bytes' is of.
Start == taken - Len(bytes)

\* In a stream that is not torn, headers are read where messages begin, and
\* payload is read where one does that is as long as what is asked for.
InPlace ==
    ~Torn =>
        /\ rpc = "idle" => bytes = <<>> /\ Boundary(taken)
        /\ rpc = "header" => Boundary(Start)
        /\ rpc = "payload" =>
             /\ Start > 0 /\ stream[Start].at = HeaderSize
             /\ Len(bytes) + need = Size(stream[Start].msg)

IInv ==
    /\ TypeOK /\ AtWork /\ Consecutive /\ LeftOff /\ CutShortWhenFull
    /\ TornOnlyWhenFull /\ InPlace /\ KeepsItsPlace

\* As many messages end before the place where the read began as were read, in
\* their order.
Counted ==
    ~Torn =>
        /\ rpc # "ended" => Cardinality(EndsUpTo(Start)) = Len(received)
        /\ \A k \in 1 .. Len(received) :
             k \in DOMAIN Whole /\ MessageOf(received[k]) = Whole[k]

\* The end of the stream is only found when nothing more will be written.
AtEnd == rpc = "ended" /\ status = "end_of_file" => conn = "closed"

PipeInv == Counted /\ AtEnd
-----------------------------------------------------------------------------
(* Messages and cells *)

\* Each writer has finitely many messages to send.
LEMMA ProgramLengths == \A w \in Writers : Len(Program[w]) \in Nat
<1>1. \A w \in Writers : Program[w] \in Seq(Nat \ {0})
  BY ChannelAssumption
<1>2. QED
  BY <1>1

\* What is known of a message: it is of a writer, and its size is positive.
LEMMA MessageFacts ==
    ASSUME NEW m \in Messages
    PROVE  /\ m[1] \in Writers /\ m[2] \in 1 .. Len(Program[m[1]]) /\ m = <<m[1], m[2]>>
           /\ Size(m) \in Nat \ {0} /\ Length(m) = HeaderSize + Size(m)
           /\ Length(m) \in Nat /\ Length(m) > HeaderSize
<1>1. PICK w \in Writers : \E n \in DOMAIN Program[w] : m = <<w, n>>
  BY DEF Messages
<1>2. PICK n \in DOMAIN Program[w] : m = <<w, n>>
  BY <1>1
<1>3. Program[w] \in Seq(Nat \ {0})
  BY ChannelAssumption
<1>4. n \in 1 .. Len(Program[w]) /\ Program[w][n] \in Nat \ {0}
  BY <1>2, <1>3
<1>5. QED
  BY <1>2, <1>4 DEF Size, Length, HeaderSize

\* The message that a writer is at, when it has one left.
LEMMA WritingIsAMessage ==
    ASSUME NEW w \in Writers, wnext[w] \in 1 .. Len(Program[w])
    PROVE  Writing(w) \in Messages
<1>1. Program[w] \in Seq(Nat \ {0})
  BY ChannelAssumption
<1>2. wnext[w] \in DOMAIN Program[w]
  BY <1>1
<1>3. QED
  BY <1>2 DEF Writing, Messages

\* A cell is one of those that its message has.
LEMMA CellFacts ==
    ASSUME NEW c \in Cells
    PROVE  c.msg \in Messages /\ c.at \in 1 .. Length(c.msg) /\ c = [msg |-> c.msg, at |-> c.at]
BY DEF Cells, CellsOf

\* Each byte of a message can be in the stream.
LEMMA CellOfMessage ==
    ASSUME NEW m \in Messages, NEW i \in 1 .. Length(m)
    PROVE  [msg |-> m, at |-> i] \in Cells
BY DEF Cells, CellsOf

\* There are finitely many messages.
LEMMA FinitelyManyMessages == IsFiniteSet(Messages)
<1> DEFINE of(w) == {<<w, n>> : n \in DOMAIN Program[w]}
           all == {of(w) : w \in Writers}
<1>1. ASSUME NEW w \in Writers PROVE IsFiniteSet(of(w))
  <2> DEFINE f == [n \in DOMAIN Program[w] |-> <<w, n>>]
  <2>1. DOMAIN Program[w] = 1 .. Len(Program[w]) /\ Len(Program[w]) \in Nat
    BY ChannelAssumption
  <2>2. IsFiniteSet(DOMAIN Program[w])
    <3>1. IsFiniteSet(1 .. Len(Program[w]))
      BY <2>1, FS_Interval
    <3>2. QED
      BY <2>1, <3>1
  <2>3. f \in Surjection(DOMAIN Program[w], of(w))
    BY DEF Surjection
  <2> HIDE DEF f, of
  <2>4. QED
    BY <2>2, <2>3, FS_Surjection
<1>2. IsFiniteSet(all)
  <2> DEFINE f == [w \in Writers |-> of(w)]
  <2>1. f \in Surjection(Writers, all)
    BY DEF Surjection
  <2>2. IsFiniteSet(Writers)
    BY ChannelAssumption
  <2> HIDE DEF f, all
  <2>3. QED
    BY <2>1, <2>2, FS_Surjection
<1>3. \A S \in all : IsFiniteSet(S)
  BY <1>1
<1>4. Messages = UNION all
  BY DEF Messages
<1> HIDE DEF all
<1>5. QED
  BY <1>2, <1>3, <1>4, FS_UNION

\* So one of them is the largest.
LEMMA MaxSizeIsNat ==
    ASSUME Messages # {}
    PROVE  MaxSize \in Nat
<1> DEFINE sizes == {Size(m) : m \in Messages}
           f == [m \in Messages |-> Size(m)]
<1>1. f \in Surjection(Messages, sizes)
  BY DEF Surjection
<1>2. sizes \subseteq Nat /\ sizes # {}
  BY MessageFacts
<1> HIDE DEF f
<1>3. IsFiniteSet(sizes)
  <2> HIDE DEF sizes
  <2>1. QED
    BY <1>1, FinitelyManyMessages, FS_Surjection
<1>4. MaxSize = Max(sizes)
  BY DEF MaxSize
<1> HIDE DEF sizes
<1>5. \E x \in sizes : \A y \in sizes : x >= y
  BY <1>2, <1>3, GreatestOfFinite
<1>6. QED
  BY <1>2, <1>4, <1>5 DEF Max

\* The smaller of two numbers.
LEMMA MinOfTwo ==
    ASSUME NEW a \in Int, NEW b \in Int
    PROVE  Min({a, b}) = IF a <= b THEN a ELSE b
<1>1. \E x \in {a, b} : \A y \in {a, b} : x <= y
  OBVIOUS
<1>2. Min({a, b}) \in {a, b} /\ \A y \in {a, b} : Min({a, b}) <= y
  BY <1>1 DEF Min
<1>3. QED
  BY <1>2

-----------------------------------------------------------------------------
(* The initial states, and the steps that leave the stream alone *)

\* The invariant holds at the start.
LEMMA InitIInv == Init => IInv
<1> SUFFICES ASSUME Init PROVE IInv
  OBVIOUS
<1>1. TypeOK
  <2>1. bytes = SubSeq(stream, taken - Len(bytes) + 1, taken)
    BY SubSeqEmpty DEF Init
  <2>2. \A w \in Writers : wnext[w] \in 1 .. Len(Program[w]) + 1
    BY ChannelAssumption DEF Init
  <2>3. /\ stream \in Seq(Cells) /\ taken \in 0 .. Len(stream)
        /\ bytes \in Seq(Cells) /\ Len(bytes) <= taken
        /\ Len(stream) - taken \in 0 .. Capacity
    BY ChannelAssumption DEF Init
  <2>4. /\ wpc \in [Writers -> {"idle", "polled", "writing", "ended", "killed"}]
        /\ wnext \in [Writers -> Nat] /\ wput \in [Writers -> Nat]
        /\ \A w \in Writers : wput[w] = 0
        /\ need \in Nat /\ received \in Seq(Seq(Cells))
    BY DEF Init
  <2>5. conn = "open" /\ reset \in BOOLEAN /\ rpc = "idle" /\ status = "ok"
    BY DEF Init
  <2>6. QED
    BY <2>1, <2>2, <2>3, <2>4, <2>5 DEF TypeOK
<1>2. ~Torn
  BY DEF Init, Torn
<1>3. AtWork /\ Consecutive /\ LeftOff /\ CutShortWhenFull
  BY DEF Init, AtWork, Consecutive, LeftOff, CutShortWhenFull
<1>4. InPlace /\ KeepsItsPlace
  BY DEF Init, InPlace, KeepsItsPlace, Boundary
<1>5. QED
  BY <1>1, <1>2, <1>3, <1>4 DEF IInv, TornOnlyWhenFull

\* What is said of the stream alone stays true as long as the stream does.
LEMMA StreamStays ==
    ASSUME IInv, UNCHANGED stream
    PROVE  /\ Torn' <=> Torn
           /\ Consecutive' /\ CutShortWhenFull' /\ TornOnlyWhenFull'
BY DEF IInv, Torn, Consecutive, CutShortWhenFull, TornOnlyWhenFull, Begins, Ends

\* And so does what is said of the reader, while it does nothing.
LEMMA ReaderStays ==
    ASSUME IInv, UNCHANGED <<stream, taken, rvars>>
    PROVE  InPlace' /\ KeepsItsPlace'
BY StreamStays DEF IInv, InPlace, KeepsItsPlace, Boundary, Start, Ends, Begins, rvars

\* A writer that polls, or takes its buffer to write(2).
LEMMA StartsToWrite ==
    ASSUME IInv, NEW w \in Writers, PollOut(w) \/ BeginWrite(w)
    PROVE  IInv'
<1>1. UNCHANGED <<stream, taken, conn, reset, wnext, wput, rvars>>
  BY DEF PollOut, BeginWrite
<1>2. /\ wpc' \in [Writers -> {"idle", "polled", "writing", "ended", "killed"}]
      /\ \A v \in Writers : v # w => wpc'[v] = wpc[v]
      /\ wpc'[w] = "writing" \/ (wpc'[w] = "polled" /\ wpc[w] = "idle")
      /\ wnext[w] <= Len(Program[w])
  BY DEF PollOut, BeginWrite, IInv, TypeOK, AtWork
<1>3. TypeOK'
  BY <1>1, <1>2 DEF IInv, TypeOK, rvars, Length
<1>4. AtWork'
  BY <1>1, <1>2 DEF IInv, AtWork
<1>5. LeftOff'
  BY <1>1 DEF IInv, LeftOff, Writing
<1>6. QED
  BY <1>1, <1>3, <1>4, <1>5, StreamStays, ReaderStays DEF IInv

\* A message that is not written, or not to its end.
LEMMA GivesUpMessage ==
    ASSUME IInv, NEW w \in Writers, WriteHungUp(w) \/ WriteFallsShort(w)
    PROVE  IInv'
<1>1. UNCHANGED <<stream, taken, conn, reset, rvars>> /\ reset
  BY DEF WriteHungUp, WriteFallsShort
<1>2. /\ wpc' \in [Writers -> {"idle", "polled", "writing", "ended", "killed"}]
      /\ wnext' = [wnext EXCEPT ![w] = @ + 1] /\ wput' \in [Writers -> Nat]
      /\ wnext[w] <= Len(Program[w]) /\ wpc'[w] = "idle" /\ wput'[w] = 0
      /\ \A v \in Writers : v # w => wpc'[v] = wpc[v] /\ wput'[v] = wput[v]
  <2>1. /\ wpc \in [Writers -> {"idle", "polled", "writing", "ended", "killed"}]
        /\ wnext \in [Writers -> Nat] /\ wput \in [Writers -> Nat]
        /\ wnext[w] \in 1 .. Len(Program[w]) + 1
        /\ wpc[w] = "writing" => wnext[w] <= Len(Program[w])
        /\ wput[w] > 0 => wpc[w] = "writing"
    BY DEF IInv, TypeOK, AtWork
  <2>2. CASE WriteHungUp(w)
    <3>1. /\ wpc[w] = "idle" /\ wnext[w] <= Len(Program[w])
          /\ wnext' = [wnext EXCEPT ![w] = @ + 1] /\ wpc' = wpc /\ wput' = wput
      BY <2>2, Zenon DEF WriteHungUp
    <3>2. QED
      BY <2>1, <3>1
  <2>3. CASE WriteFallsShort(w)
    <3>1. /\ wpc[w] = "writing" /\ wput' = [wput EXCEPT ![w] = 0]
          /\ wnext' = [wnext EXCEPT ![w] = @ + 1]
          /\ wpc' = [wpc EXCEPT ![w] = "idle"]
      BY <2>3, Zenon DEF WriteFallsShort
    <3>2. QED
      BY <2>1, <3>1
  <2>4. QED
    BY <2>2, <2>3
<1>3. TypeOK'
  <2>1. /\ wnext' \in [Writers -> Nat]
        /\ \A v \in Writers : wnext'[v] \in 1 .. Len(Program[v]) + 1
        /\ \A v \in Writers : v # w => wnext'[v] = wnext[v]
    <3>1. wnext \in [Writers -> Nat] /\ \A v \in Writers : wnext[v] \in 1 .. Len(Program[v]) + 1
      BY DEF IInv, TypeOK
    <3>2. wnext' = [wnext EXCEPT ![w] = @ + 1] /\ wnext[w] <= Len(Program[w])
      BY <1>2
    <3>3. QED
      BY <3>1, <3>2, ProgramLengths
  <2>2. QED
    BY <1>1, <1>2, <2>1 DEF IInv, TypeOK, rvars, Length
<1>4. AtWork'
  BY <1>1, <1>2 DEF IInv, AtWork, TypeOK
<1>5. LeftOff'
  BY <1>1 DEF LeftOff
<1>6. QED
  BY <1>1, <1>3, <1>4, <1>5, StreamStays, ReaderStays DEF IInv

\* The writers' process ends, or the other end is found to be closed.
LEMMA WritersEnd ==
    ASSUME IInv, CloseWriters \/ (\E w \in Writers : WriteRaisesSigpipe(w)) \/ ResetArrives
    PROVE  IInv'
<1>1. UNCHANGED <<stream, taken, wnext, rvars>> /\ conn' \in {"open", "closed", "reset"}
  BY DEF CloseWriters, WriteRaisesSigpipe, ResetArrives, wvars, IInv, TypeOK
<1>2. (conn' # "open" \/ reset') /\ reset' \in BOOLEAN
  BY DEF CloseWriters, WriteRaisesSigpipe, ResetArrives, IInv, TypeOK
<1>3. /\ wpc' \in [Writers -> {"idle", "polled", "writing", "ended", "killed"}]
      /\ wput' \in [Writers -> Nat]
      /\ \/ wpc' = wpc /\ wput' = wput
         \/ \A v \in Writers : wpc'[v] \in {"ended", "killed"} /\ wput'[v] = 0
  BY DEF CloseWriters, WriteRaisesSigpipe, ResetArrives, wvars, IInv, TypeOK
<1>4. TypeOK'
  BY <1>1, <1>2, <1>3 DEF IInv, TypeOK, rvars, Length
<1>5. AtWork'
  BY <1>1, <1>3 DEF IInv, AtWork
<1>6. LeftOff'
  BY <1>2 DEF LeftOff
<1>7. QED
  BY <1>1, <1>4, <1>5, <1>6, StreamStays, ReaderStays DEF IInv

-----------------------------------------------------------------------------
(* Writing *)

\* A part of a sequence is the same part of one that continues it.
LEMMA SubSeqOfLonger ==
    ASSUME NEW S, NEW s \in Seq(S), NEW t \in Seq(S), Len(s) <= Len(t),
           \A i \in 1 .. Len(s) : t[i] = s[i],
           NEW a \in Nat \ {0}, NEW b \in 0 .. Len(s)
    PROVE  SubSeq(t, a, b) = SubSeq(s, a, b)
<1>1. \A i \in a .. b : s[i] \in S /\ t[i] = s[i] /\ t[i] \in S
  OBVIOUS
<1>2. /\ SubSeq(s, a, b) \in Seq(S)
      /\ Len(SubSeq(s, a, b)) = IF a <= b THEN b - a + 1 ELSE 0
      /\ \A i \in 1 .. b - a + 1 : SubSeq(s, a, b)[i] = s[a + i - 1]
  BY <1>1, SubSeqProperties
<1>3. /\ SubSeq(t, a, b) \in Seq(S)
      /\ Len(SubSeq(t, a, b)) = IF a <= b THEN b - a + 1 ELSE 0
      /\ \A i \in 1 .. b - a + 1 : SubSeq(t, a, b)[i] = t[a + i - 1]
  BY <1>1, SubSeqProperties
<1>4. \A i \in 1 .. Len(SubSeq(s, a, b)) : SubSeq(t, a, b)[i] = SubSeq(s, a, b)[i]
  <2> SUFFICES ASSUME NEW i \in 1 .. Len(SubSeq(s, a, b))
               PROVE  SubSeq(t, a, b)[i] = SubSeq(s, a, b)[i]
    OBVIOUS
  <2>1. i \in 1 .. b - a + 1 /\ a + i - 1 \in a .. b
    BY <1>2
  <2>2. QED
    BY <2>1, <1>1, <1>2, <1>3
<1>5. QED
  BY <1>2, <1>3, <1>4, SeqEqual

\* A stream that continues a torn one is torn.
LEMMA TornStays ==
    ASSUME stream \in Seq(Cells), stream' \in Seq(Cells), Len(stream) <= Len(stream'),
           \A i \in 1 .. Len(stream) : stream'[i] = stream[i], Torn
    PROVE  Torn'
<1>1. PICK i \in 1 .. Len(stream) - 1 :
         /\ stream[i].msg # stream[i + 1].msg
         /\ ~(stream[i].at = Length(stream[i].msg) /\ stream[i + 1].at = 1)
  BY DEF Torn, Ends, Begins
<1>2. /\ i \in 1 .. Len(stream') - 1 /\ i \in 1 .. Len(stream) /\ i + 1 \in 1 .. Len(stream)
  OBVIOUS
<1>3. stream'[i] = stream[i] /\ stream'[i + 1] = stream[i + 1]
  BY <1>2
<1>4. QED
  BY <1>1, <1>2, <1>3 DEF Torn, Ends, Begins

\* A write that goes on puts the next cells of its message.
LEMMA PutsNextCells ==
    ASSUME IInv, NEW w \in Writers, PutCells(w)
    PROVE  /\ Writing(w) \in Messages /\ wnext[w] \in 1 .. Len(Program[w])
           /\ wput[w] \in Nat
           /\ Room \in 1 .. Capacity /\ Copied(w) \in 1 .. Room
           /\ wput[w] + Copied(w) <= Length(Writing(w))
           /\ wput[w] + Copied(w) # Length(Writing(w)) => Copied(w) = Room
           /\ stream' \in Seq(Cells) /\ Len(stream') = Len(stream) + Copied(w)
           /\ \A i \in 1 .. Len(stream) : stream'[i] = stream[i]
           /\ \A i \in 1 .. Copied(w) :
                stream'[Len(stream) + i] = [msg |-> Writing(w), at |-> wput[w] + i]
<1> DEFINE m == Writing(w)
           k == Copied(w)
           n == Len(stream)
           at == wput[w]
           new == [i \in 1 .. k |-> [msg |-> m, at |-> at + i]]
<1>0. conn = "open" /\ ~reset /\ UNCHANGED <<conn, reset>>
  BY DEF PutCells
<1>1. /\ wpc[w] = "writing" /\ Room > 0
      /\ stream' = stream \o new
      /\ wput' = [wput EXCEPT ![w] = IF at + k = Length(m) THEN 0 ELSE at + k]
      /\ wnext' = [wnext EXCEPT ![w] = IF at + k = Length(m) THEN @ + 1 ELSE @]
      /\ wpc' = [wpc EXCEPT ![w] = IF at + k = Length(m) THEN "idle" ELSE @]
      /\ UNCHANGED <<taken, rvars>>
  BY DEF PutCells
<1>2. /\ wpc[w] = "writing" /\ Room > 0
      /\ wput \in [Writers -> Nat] /\ wnext \in [Writers -> Nat]
      /\ wnext[w] \in 1 .. Len(Program[w]) + 1 /\ wnext[w] <= Len(Program[w])
  BY <1>1 DEF IInv, TypeOK, AtWork
<1>3. m \in Messages /\ wnext[w] \in 1 .. Len(Program[w])
  BY <1>2, WritingIsAMessage, ProgramLengths
<1>4. Length(m) \in Nat /\ Length(m) > HeaderSize
  BY <1>3, MessageFacts
<1>5. at \in Nat /\ at < Length(m)
  <2>1. wput[w] # 0 => wput[w] < Length(m)
    BY DEF IInv, TypeOK, Writing
  <2>2. QED
    BY <1>2, <1>4, <2>1 DEF HeaderSize
<1>6. /\ stream \in Seq(Cells) /\ n \in Nat /\ taken \in 0 .. n /\ n - taken \in 0 .. Capacity
      /\ Capacity \in Nat \ {0} /\ Room = Capacity - (n - taken) /\ Room \in 1 .. Capacity
  BY <1>2, ChannelAssumption DEF IInv, TypeOK, Room, Available
<1>7. k \in 1 .. Room /\ at + k <= Length(m) /\ (at + k # Length(m) => k = Room)
  <2>1. k = IF Room <= Length(m) - at THEN Room ELSE Length(m) - at
    BY <1>4, <1>5, <1>6, MinOfTwo DEF Copied
  <2>2. QED
    BY <2>1, <1>4, <1>5, <1>6
<1> HIDE DEF m, k, n, at
<1>8. /\ stream' \in Seq(Cells) /\ Len(stream') = n + k
      /\ \A i \in 1 .. n : stream'[i] = stream[i]
      /\ \A i \in 1 .. k : stream'[n + i] = [msg |-> m, at |-> at + i]
  <2>1. \A i \in 1 .. k : at + i \in 1 .. Length(m)
    BY <1>4, <1>5, <1>7
  <2>2. \A i \in 1 .. k : [msg |-> m, at |-> at + i] \in Cells
    BY <2>1, <1>3, CellOfMessage
  <2>3. k \in Nat
    BY <1>6, <1>7
  <2>4. new \in Seq(Cells) /\ Len(new) = k /\ \A i \in 1 .. k : new[i] = [msg |-> m, at |-> at + i]
    BY <2>2, <2>3
  <2> HIDE DEF new
  <2>5. QED
    <3>1. /\ stream \o new \in Seq(Cells) /\ Len(stream \o new) = n + k
          /\ \A i \in 1 .. n + k : (stream \o new)[i] = IF i <= n THEN stream[i] ELSE new[i - n]
      BY <2>4, <1>6, ConcatProperties DEF n
    <3>2. stream' = stream \o new
      BY <1>1
    <3>3. \A i \in 1 .. k : n + i \in 1 .. n + k /\ ~(n + i <= n) /\ (n + i) - n = i
      BY <1>6, <2>3
    <3>4. QED
      BY <3>1, <3>2, <3>3, <2>4, <1>6, <2>3
<1> HIDE DEF new
<1>9. QED
  BY <1>3, <1>5, <1>6, <1>7, <1>8 DEF m, k, n, at

\* What it leaves behind is in order.
LEMMA WritesSome ==
    ASSUME IInv, NEW w \in Writers, PutCells(w)
    PROVE  IInv'
<1> DEFINE m == Writing(w)
           k == Copied(w)
           n == Len(stream)
           at == wput[w]
<1>0. conn = "open" /\ ~reset /\ UNCHANGED <<conn, reset>>
  BY DEF PutCells
<1>1. /\ wpc[w] = "writing"
      /\ wput' = [wput EXCEPT ![w] = IF at + k = Length(m) THEN 0 ELSE at + k]
      /\ wnext' = [wnext EXCEPT ![w] = IF at + k = Length(m) THEN @ + 1 ELSE @]
      /\ wpc' = [wpc EXCEPT ![w] = IF at + k = Length(m) THEN "idle" ELSE @]
      /\ UNCHANGED <<taken, rvars>>
  BY DEF PutCells
<1>2. /\ wpc[w] = "writing"
      /\ wput \in [Writers -> Nat] /\ wnext \in [Writers -> Nat]
      /\ wnext[w] \in 1 .. Len(Program[w]) + 1 /\ wnext[w] <= Len(Program[w])
  BY <1>1 DEF IInv, TypeOK, AtWork
<1>3. m \in Messages /\ wnext[w] \in 1 .. Len(Program[w])
  BY PutsNextCells
<1>4. Length(m) \in Nat /\ Length(m) > HeaderSize
  BY <1>3, MessageFacts
<1>5. at \in Nat
  BY PutsNextCells
<1>6. /\ stream \in Seq(Cells) /\ n \in Nat /\ taken \in 0 .. n /\ n - taken \in 0 .. Capacity
      /\ Capacity \in Nat \ {0} /\ Room = Capacity - (n - taken) /\ Room \in 1 .. Capacity
  <2>1. Room \in 1 .. Capacity
    BY PutsNextCells
  <2>2. QED
    BY <2>1, ChannelAssumption DEF IInv, TypeOK, Room, Available
<1>7. k \in 1 .. Room /\ at + k <= Length(m) /\ (at + k # Length(m) => k = Room)
  BY PutsNextCells
<1>8. /\ stream' \in Seq(Cells) /\ Len(stream') = n + k
      /\ \A i \in 1 .. n : stream'[i] = stream[i]
      /\ \A i \in 1 .. k : stream'[n + i] = [msg |-> m, at |-> at + i]
  BY PutsNextCells
<1> HIDE DEF m, k, n, at
<1>8a. Len(stream') = n + k
  BY <1>8
<1>9. n > 0 /\ stream[n].msg = m => stream[n].at = at /\ at > 0
  <2>1. n > 0 => (stream[n].msg = m => stream[n].at = at)
    BY <1>0, Zenon DEF IInv, LeftOff, m, n, at
  <2>2. n > 0 => stream[n].at \in Nat \ {0}
    <3>1. n > 0 => stream[n] \in Cells
      BY <1>6 DEF n
    <3>2. \A c \in Cells : c.at \in Nat \ {0}
      BY CellFacts, MessageFacts
    <3>3. QED
      BY <3>1, <3>2
  <2>3. QED
    BY <2>1, <2>2
<1>10. at > 0 => n >= Capacity
  BY DEF IInv, AtWork, at, n
<1>11. Consecutive'
  <2>1. n > 0 => Begins(1)
    BY DEF IInv, Consecutive, n
  <2>2. Begins(1)'
    <3>1. CASE n > 0
      BY <3>1, <2>1, <1>6, <1>8 DEF Begins
    <3>2. CASE n = 0
      <4>1. at = 0
        BY <3>2, <1>5, <1>6, <1>10
      <4>2. stream'[1] = [msg |-> m, at |-> 1]
        BY <3>2, <4>1, <1>7, <1>8, <1>6
      <4>3. QED
        BY <4>2 DEF Begins
    <3>3. QED
      BY <3>1, <3>2, <1>6
  <2>3. ASSUME NEW i \in 1 .. n + k - 1, stream'[i].msg = stream'[i + 1].msg
        PROVE  stream'[i + 1].at = stream'[i].at + 1
    <3>1. CASE i < n
      <4>1. i \in 1 .. n - 1 /\ stream'[i] = stream[i] /\ stream'[i + 1] = stream[i + 1]
        BY <3>1, <1>6, <1>8
      <4>2. QED
        BY <4>1, <2>3 DEF IInv, Consecutive, n
    <3>2. CASE i = n
      <4>1. stream'[i] = stream[n] /\ stream'[i + 1] = [msg |-> m, at |-> at + 1] /\ n > 0
        BY <3>2, <1>6, <1>7, <1>8
      <4>2. QED
        BY <4>1, <2>3, <1>9
    <3>3. CASE i > n
      <4>1. i - n \in 1 .. k /\ i + 1 - n \in 1 .. k /\ n + (i - n) = i /\ n + (i + 1 - n) = i + 1
        BY <3>3, <1>6, <1>7
      <4>2. /\ stream'[i] = [msg |-> m, at |-> at + (i - n)]
            /\ stream'[i + 1] = [msg |-> m, at |-> at + (i + 1 - n)]
        BY <4>1, <1>8
      <4>3. QED
        BY <4>2, <1>5, <1>6
    <3>4. QED
      BY <3>1, <3>2, <3>3, <1>6
  <2>4. stream'[1].at = 1
    BY <2>2 DEF Begins
  <2>5. Len(stream') - 1 = n + k - 1
    BY <1>6, <1>7, <1>8a
  <2>6. QED
    BY <2>3, <2>4, <2>5 DEF Consecutive, Begins
<1>12. Torn' => Torn \/ n >= Capacity
  <2> SUFFICES ASSUME NEW i \in 1 .. n + k - 1, stream'[i].msg # stream'[i + 1].msg,
                      ~(stream'[i].at = Length(stream'[i].msg) /\ stream'[i + 1].at = 1),
                      ~(n >= Capacity)
               PROVE  Torn
    <3>1. Len(stream') - 1 = n + k - 1
      BY <1>6, <1>7, <1>8a
    <3>2. QED
      BY <3>1 DEF Torn, Ends, Begins
  <2>1. CASE i < n
    <3>1. i \in 1 .. n - 1 /\ stream'[i] = stream[i] /\ stream'[i + 1] = stream[i + 1]
      BY <2>1, <1>6, <1>8
    <3>2. QED
      BY <3>1 DEF Torn, Ends, Begins, n
  <2>2. CASE i = n
    <3>1. at = 0
      BY <1>5, <1>6, <1>10
    <3>2. stream'[i] = stream[n] /\ stream'[i + 1] = [msg |-> m, at |-> 1] /\ n > 0
      <4>1. n > 0 /\ k \in Nat \ {0}
        <5>1. n \in Nat /\ Room \in Nat
          BY <1>6
        <5>2. k \in 1 .. Room
          BY <1>7
        <5>3. k \in Nat \ {0}
          BY <5>1, <5>2
        <5>4. QED
          BY <2>2, <5>1, <5>3
      <4>2. stream'[n] = stream[n]
        BY <4>1, <1>6, <1>8
      <4>3. stream'[n + 1] = [msg |-> m, at |-> at + 1]
        BY <4>1, <1>8
      <4>4. QED
        BY <2>2, <3>1, <4>1, <4>2, <4>3
    <3>3. Ends(n)
      BY <3>2 DEF IInv, CutShortWhenFull, n
    <3>4. QED
      BY <2>2, <3>2, <3>3 DEF Ends, Begins
  <2>3. CASE i > n
    <3>1. i - n \in 1 .. k /\ i + 1 - n \in 1 .. k /\ n + (i - n) = i /\ n + (i + 1 - n) = i + 1
      BY <2>3, <1>6, <1>7
    <3>2. ASSUME NEW j \in 1 .. k PROVE stream'[n + j].msg = m
      <4>1. stream'[n + j] = [msg |-> m, at |-> at + j]
        BY <1>8
      <4>2. QED
        BY <4>1
    <3>3. stream'[i].msg = m /\ stream'[i + 1].msg = m
      BY <3>1, <3>2
    <3>4. QED
      BY <3>3
  <2>4. QED
    BY <2>1, <2>2, <2>3, <1>6
<1>13. TornOnlyWhenFull'
  <2>1. Torn => n > Capacity
    BY DEF IInv, TornOnlyWhenFull, n
  <2>2. Torn' => n + k > Capacity
    BY <2>1, <1>12, <1>6, <1>7
  <2>3. QED
    BY <2>2, <1>8 DEF TornOnlyWhenFull
<1>14. Torn => Torn'
  <2>1. \A i \in 1 .. Len(stream) : stream'[i] = stream[i]
    BY <1>8 DEF n
  <2>2. Len(stream) <= Len(stream')
    BY <1>6, <1>7, <1>8a DEF n
  <2>3. QED
    BY <1>6, <1>8, <2>1, <2>2, TornStays
<1>15. KeepsItsPlace'
  BY <1>1, <1>14 DEF IInv, KeepsItsPlace, rvars
<1>16. InPlace'
  <2> SUFFICES ASSUME ~Torn' PROVE InPlace'
    BY DEF InPlace
  <2>1. /\ rpc = "idle" => bytes = <<>> /\ Boundary(taken)
        /\ rpc = "header" => Boundary(Start)
        /\ rpc = "payload" => /\ Start > 0 /\ stream[Start].at = HeaderSize
                              /\ Len(bytes) + need = Size(stream[Start].msg)
    BY <1>14 DEF IInv, InPlace
  <2>2. UNCHANGED <<taken, rpc, need, bytes, Start>> /\ Start \in 0 .. n
    BY <1>1, <1>6 DEF rvars, Start, IInv, TypeOK
  <2>3. \A j \in 1 .. n : stream'[j] = stream[j]
    BY <1>8
  <2>4. QED
    BY <2>1, <2>2, <2>3, <1>6 DEF InPlace, Boundary, Ends
<1>17. stream'[n + k] = [msg |-> m, at |-> at + k] /\ n + k > 0
  <2>1. k \in 1 .. k /\ n + k > 0
    BY <1>6, <1>7
  <2>2. QED
    BY <2>1, <1>8
<1>18. CutShortWhenFull'
  <2>1. stream'[n + k].at # Length(stream'[n + k].msg) => k = Room
    BY <1>7, <1>17
  <2>2. stream'[n + k].at # Length(stream'[n + k].msg) => n + k >= Capacity
    BY <2>1, <1>6
  <2>3. QED
    BY <2>2, <1>8 DEF CutShortWhenFull, Ends
<1>19. LeftOff'
  <2> SUFFICES ASSUME NEW v \in Writers, m = Writing(v)'
               PROVE  at + k = wput'[v]
    BY <1>8, <1>17 DEF LeftOff
  <2>1. v = w /\ wnext'[w] = wnext[w]
    BY DEF m, Writing
  <2>2. QED
    BY <2>1, <1>1, <1>2
<1>20. AtWork'
  <2> SUFFICES ASSUME NEW v \in Writers
               PROVE  /\ wpc'[v] \in {"polled", "writing"} => wnext'[v] <= Len(Program[v])
                      /\ wput'[v] > 0 => wpc'[v] = "writing" /\ n + k >= Capacity
    BY <1>8 DEF AtWork
  <2>1. /\ wpc[v] \in {"polled", "writing"} => wnext[v] <= Len(Program[v])
        /\ wput[v] > 0 => wpc[v] = "writing" /\ n >= Capacity
    BY DEF IInv, AtWork, n
  <2>2. wpc \in [Writers -> {"idle", "polled", "writing", "ended", "killed"}]
    BY DEF IInv, TypeOK
  <2>3. CASE v # w
    BY <2>1, <2>2, <2>3, <1>1, <1>2, <1>6, <1>7
  <2>4. CASE v = w
    BY <2>1, <2>2, <2>4, <1>1, <1>2, <1>6, <1>7
  <2>5. QED
    BY <2>3, <2>4
<1>21. TypeOK'
  <2>1. /\ wpc' \in [Writers -> {"idle", "polled", "writing", "ended", "killed"}]
        /\ wnext' \in [Writers -> Nat] /\ wput' \in [Writers -> Nat]
    <3>1. wpc \in [Writers -> {"idle", "polled", "writing", "ended", "killed"}]
      BY DEF IInv, TypeOK
    <3>2. at + k \in Nat /\ wnext[w] + 1 \in Nat
      BY <1>2, <1>5, <1>6, <1>7
    <3>3. QED
      BY <3>1, <3>2, <1>1, <1>2
  <2>2. ASSUME NEW v \in Writers
        PROVE  /\ wnext'[v] \in 1 .. Len(Program[v]) + 1
               /\ wput'[v] # 0 => wput'[v] < Length(<<v, wnext'[v]>>)
    <3>1. /\ wnext[v] \in 1 .. Len(Program[v]) + 1
          /\ wput[v] # 0 => wput[v] < Length(<<v, wnext[v]>>)
      BY DEF IInv, TypeOK
    <3>2. CASE v # w
      BY <3>1, <3>2, <1>1, <1>2
    <3>3. CASE v = w /\ at + k = Length(m)
      BY <3>1, <3>3, <1>1, <1>2, <1>3, ProgramLengths
    <3>4. CASE v = w /\ at + k # Length(m)
      <4>1. wnext'[v] = wnext[v] /\ wput'[v] = at + k
        BY <3>4, <1>1, <1>2
      <4>2. at + k < Length(m)
        BY <3>4, <1>4, <1>5, <1>6, <1>7
      <4>3. m = <<v, wnext[v]>>
        BY <3>4 DEF m, Writing
      <4>4. QED
        BY <4>1, <4>2, <4>3, <3>1
    <3>5. QED
      BY <3>2, <3>3, <3>4
  <2>3. /\ taken' \in 0 .. Len(stream') /\ Len(stream') - taken' \in 0 .. Capacity
    BY <1>1, <1>6, <1>7, <1>8
  <2>4. /\ UNCHANGED <<taken, rpc, need, bytes, received, status>>
        /\ rpc \in {"idle", "header", "payload", "ended"} /\ need \in Nat
        /\ bytes \in Seq(Cells) /\ Len(bytes) <= taken
        /\ bytes = SubSeq(stream, taken - Len(bytes) + 1, taken)
        /\ rpc = "header" => Len(bytes) + need = HeaderSize
        /\ received \in Seq(Seq(Cells))
        /\ status \in {"ok", "time_out", "hung_up", "end_of_file", "errno",
                       "invalid_header", "closed"}
    BY <1>1 DEF IInv, TypeOK, rvars
  <2>5. bytes = SubSeq(stream', taken - Len(bytes) + 1, taken)
    <3>1. taken - Len(bytes) + 1 \in Nat \ {0} /\ taken \in 0 .. n
      BY <2>4, <1>6
    <3>2. \A i \in 1 .. Len(stream) : stream'[i] = stream[i]
      BY <1>8 DEF n
    <3>3. Len(stream) <= Len(stream') /\ taken \in 0 .. Len(stream)
      BY <1>6, <1>7, <1>8 DEF n
    <3>4. SubSeq(stream', taken - Len(bytes) + 1, taken) = SubSeq(stream, taken - Len(bytes) + 1, taken)
      BY <1>6, <1>8, <3>1, <3>2, <3>3, SubSeqOfLonger
    <3>5. QED
      BY <2>4, <3>4
  <2>6. conn' = "open" /\ reset' \in BOOLEAN
    BY <1>0, Zenon DEF IInv, TypeOK
  <2>7. QED
    BY <1>8, <2>1, <2>2, <2>3, <2>4, <2>5, <2>6 DEF TypeOK
<1>22. QED
  BY <1>11, <1>13, <1>15, <1>16, <1>18, <1>19, <1>20, <1>21 DEF IInv

-----------------------------------------------------------------------------
(* Streams that are not torn *)

\* A message that has begun goes on cell by cell up to its end.
LEMMA Run ==
    ASSUME IInv, ~Torn, NEW p \in 1 .. Len(stream), NEW d \in Nat, p + d <= Len(stream),
           stream[p].at + d <= Length(stream[p].msg)
    PROVE  \A e \in 0 .. d : stream[p + e].msg = stream[p].msg /\ stream[p + e].at = stream[p].at + e
<1> DEFINE m == stream[p].msg
           at == stream[p].at
           S == {e \in 0 .. d : stream[p + e].msg = m /\ stream[p + e].at = at + e}
<1>1. /\ stream \in Seq(Cells) /\ Len(stream) \in Nat
      /\ at \in Nat /\ Length(m) \in Nat
  <2>1. stream \in Seq(Cells)
    BY DEF IInv, TypeOK
  <2>2. stream[p] \in Cells
    BY <2>1
  <2>3. m \in Messages /\ at \in 1 .. Length(m)
    BY <2>2, CellFacts
  <2>4. Length(m) \in Nat
    BY <2>3, MessageFacts
  <2>5. QED
    BY <2>1, <2>3, <2>4
<1>2. 0 \in S
  BY <1>1
<1>3. ASSUME NEW e \in 0 .. d - 1, e \in S PROVE e + 1 \in S
  <2>1. p + e \in 1 .. Len(stream) - 1 /\ p + (e + 1) = (p + e) + 1 /\ e + 1 \in 0 .. d
    BY <1>1
  <2>2. stream[p + e].msg = m /\ stream[p + e].at = at + e
    BY <1>3
  <2>3. at + e # Length(m)
    BY <1>1
  <2>4. stream[p + e].msg = stream[(p + e) + 1].msg
    <3> HIDE DEF m, at
    <3>1. QED
      BY <2>1, <2>2, <2>3 DEF Torn, Ends
  <2>5. stream[(p + e) + 1].at = stream[p + e].at + 1
    BY <2>1, <2>4 DEF IInv, Consecutive
  <2> HIDE DEF m, at
  <2>6. stream[p + (e + 1)].msg = m /\ stream[p + (e + 1)].at = at + (e + 1)
    BY <2>1, <2>2, <2>4, <2>5, <1>1
  <2>7. QED
    BY <2>1, <2>6
<1>4. 0 .. d \subseteq S
  <2> HIDE DEF S
  <2>1. QED
    BY <1>2, <1>3, InductionUpTo
<1>5. QED
  BY <1>4

\* What comes after the end of a message is the beginning of one.
LEMMA BeginsAfterBoundary ==
    ASSUME IInv, ~Torn, NEW b \in 0 .. Len(stream) - 1, Boundary(b)
    PROVE  stream[b + 1].at = 1
<1>1. stream \in Seq(Cells) /\ Len(stream) \in Nat
  BY DEF IInv, TypeOK
<1>2. CASE b = 0
  BY <1>1, <1>2 DEF IInv, Consecutive, Begins
<1>3. CASE b > 0
  <2>1. b \in 1 .. Len(stream) - 1 /\ b \in 1 .. Len(stream) /\ b + 1 \in 1 .. Len(stream)
    BY <1>1, <1>3
  <2>2. stream[b].at = Length(stream[b].msg)
    BY <1>3 DEF Boundary, Ends
  <2>3. stream[b].msg # stream[b + 1].msg
    <3>1. stream[b + 1] \in Cells
      BY <1>1, <2>1
    <3>2. stream[b + 1].at <= Length(stream[b + 1].msg) /\ Length(stream[b + 1].msg) \in Nat
      BY <3>1, CellFacts, MessageFacts
    <3>3. stream[b].msg = stream[b + 1].msg => stream[b + 1].at = stream[b].at + 1
      BY <2>1 DEF IInv, Consecutive
    <3>4. QED
      BY <2>2, <3>2, <3>3
  <2>4. QED
    BY <2>1, <2>3 DEF Torn, Begins
<1>4. QED
  BY <1>2, <1>3

-----------------------------------------------------------------------------
(* Reading *)

\* What is in `bytes' is the cells behind Start.
LEMMA BytesFacts ==
    ASSUME IInv
    PROVE  /\ Len(bytes) \in Nat /\ Len(bytes) <= taken /\ Start \in 0 .. taken
           /\ taken \in 0 .. Len(stream) /\ Len(stream) \in Nat /\ taken = Start + Len(bytes)
           /\ bytes \in Seq(Cells)
           /\ \A i \in 1 .. Len(bytes) : bytes[i] = stream[Start + i]
<1>1. /\ stream \in Seq(Cells) /\ Len(stream) \in Nat /\ taken \in 0 .. Len(stream)
      /\ bytes \in Seq(Cells) /\ Len(bytes) \in Nat /\ Len(bytes) <= taken
      /\ bytes = SubSeq(stream, taken - Len(bytes) + 1, taken)
  BY DEF IInv, TypeOK
<1>2. Start \in 0 .. taken /\ taken = Start + Len(bytes)
  BY <1>1 DEF Start
<1>3. ASSUME NEW i \in 1 .. Len(bytes) PROVE bytes[i] = stream[Start + i]
  <2>1. \A j \in taken - Len(bytes) + 1 .. taken : stream[j] \in Cells
    BY <1>1
  <2>2. /\ taken - Len(bytes) + 1 \in Int /\ taken \in Int
        /\ taken - (taken - Len(bytes) + 1) + 1 = Len(bytes)
        /\ taken - Len(bytes) + 1 + i - 1 = Start + i
    BY <1>1 DEF Start
  <2>3. \A j \in 1 .. Len(bytes) :
           SubSeq(stream, taken - Len(bytes) + 1, taken)[j] = stream[taken - Len(bytes) + 1 + j - 1]
    BY <2>1, <2>2, SubSeqProperties
  <2>4. SubSeq(stream, taken - Len(bytes) + 1, taken)[i] = bytes[i]
    BY <1>1
  <2>5. QED
    BY <2>2, <2>3, <2>4
<1>4. QED
  BY <1>1, <1>2, <1>3

\* While the reader is at work, the writers are where they were.
LEMMA WritersStay ==
    ASSUME IInv, UNCHANGED <<stream, conn, reset, wvars>>
    PROVE  AtWork' /\ LeftOff'
BY DEF IInv, AtWork, LeftOff, Writing, wvars

\* What the reader's steps have to show of TypeOK.
ReaderTypeOK ==
    /\ taken \in 0 .. Len(stream) /\ Len(stream) - taken \in 0 .. Capacity
    /\ rpc \in {"idle", "header", "payload", "ended"} /\ need \in Nat
    /\ bytes \in Seq(Cells) /\ Len(bytes) <= taken
    /\ bytes = SubSeq(stream, taken - Len(bytes) + 1, taken)
    /\ rpc = "header" => Len(bytes) + need = HeaderSize
    /\ received \in Seq(Seq(Cells))
    /\ status \in {"ok", "time_out", "hung_up", "end_of_file", "errno",
                  "invalid_header", "closed"}

\* What the reader does leaves the stream and the writers as they are: only its own
\* part of the invariant is at stake.
LEMMA ReaderSteps ==
    ASSUME IInv, UNCHANGED <<stream, conn, reset, wvars>>,
           ReaderTypeOK', InPlace', KeepsItsPlace'
    PROVE  IInv'
<1>1. TypeOK'
  <2>1. UNCHANGED <<stream, wpc, wnext, wput>>
    BY DEF wvars
  <2>2. /\ stream \in Seq(Cells)
        /\ wpc \in [Writers -> {"idle", "polled", "writing", "ended", "killed"}]
        /\ wnext \in [Writers -> Nat] /\ wput \in [Writers -> Nat]
        /\ \A w \in Writers :
            /\ wnext[w] \in 1 .. Len(Program[w]) + 1
            /\ wput[w] # 0 => wput[w] < Length(<<w, wnext[w]>>)
    BY DEF IInv, TypeOK
  <2>3. conn' \in {"open", "closed", "reset"} /\ reset' \in BOOLEAN
    BY DEF IInv, TypeOK
  <2>4. QED
    BY <2>1, <2>2, <2>3 DEF TypeOK, ReaderTypeOK, Length, Size
<1>2. QED
  BY <1>1, StreamStays, WritersStay DEF IInv

\* A read that fails ends the reader's session.  It is only told of an invalid
\* header when messages are torn.
LEMMA ReadFails ==
    ASSUME IInv, NEW why, EndRead(why), why = "invalid_header" => Torn,
           why \in {"time_out", "hung_up", "end_of_file", "errno", "invalid_header", "closed"}
    PROVE  IInv'
<1>1. /\ status' = why /\ rpc' = "ended" /\ need' = 0 /\ bytes' = <<>>
      /\ UNCHANGED <<stream, taken, conn, reset, wvars, received>>
  BY DEF EndRead
<1>2. ReaderTypeOK'
  <2>1. /\ taken \in 0 .. Len(stream) /\ Len(stream) - taken \in 0 .. Capacity
        /\ received \in Seq(Seq(Cells)) /\ taken \in Nat
    BY DEF IInv, TypeOK
  <2>2. <<>> = SubSeq(stream, taken - 0 + 1, taken) /\ <<>> \in Seq(Cells) /\ Len(<<>>) = 0
    BY <2>1, SubSeqEmpty
  <2>3. QED
    BY <1>1, <2>1, <2>2 DEF ReaderTypeOK
<1>3. InPlace'
  BY <1>1 DEF InPlace
<1>4. KeepsItsPlace'
  BY <1>1, StreamStays DEF KeepsItsPlace
<1>5. QED
  BY <1>1, <1>2, <1>3, <1>4, ReaderSteps

\* A read begins with the header, at the end of a message.
LEMMA ReadBegins ==
    ASSUME IInv, PollIn
    PROVE  IInv'
<1>1. /\ rpc = "idle" /\ rpc' = "header" /\ need' = HeaderSize /\ bytes' = <<>>
      /\ UNCHANGED <<stream, taken, conn, reset, wvars, received, status>>
  BY DEF PollIn, Await
<1>2. ReaderTypeOK'
  <2>1. /\ taken \in 0 .. Len(stream) /\ Len(stream) - taken \in 0 .. Capacity
        /\ received \in Seq(Seq(Cells)) /\ taken \in Nat
        /\ status \in {"ok", "time_out", "hung_up", "end_of_file", "errno",
                      "invalid_header", "closed"}
    BY DEF IInv, TypeOK
  <2>2. <<>> = SubSeq(stream, taken - 0 + 1, taken) /\ <<>> \in Seq(Cells) /\ Len(<<>>) = 0
    BY <2>1, SubSeqEmpty
  <2>3. QED
    BY <1>1, <2>1, <2>2 DEF ReaderTypeOK, HeaderSize
<1>3. InPlace'
  <2>1. taken - Len(<<>>) = taken
    BY BytesFacts
  <2>2. ~Torn' => Boundary(taken)
    BY <1>1, StreamStays DEF IInv, InPlace
  <2>3. QED
    BY <1>1, <2>1, <2>2 DEF InPlace, Start, Boundary, Ends
<1>4. KeepsItsPlace'
  BY <1>1, StreamStays DEF KeepsItsPlace, IInv
<1>5. QED
  BY <1>1, <1>2, <1>3, <1>4, ReaderSteps

\* More of what was asked for arrives.  It belongs to the same read.
LEMMA MoreArrives ==
    ASSUME IInv, RecvSome
    PROVE  IInv' /\ Start' = Start
<1>1. PICK k \in 1 .. Min({Available, need}) :
          /\ bytes' = bytes \o SubSeq(stream, taken + 1, taken + k)
          /\ taken' = taken + k
          /\ need' = need - k
  BY DEF RecvSome
<1>2. UNCHANGED <<stream, conn, reset, wvars, rpc, received, status>> /\ rpc \in {"header", "payload"}
  BY DEF RecvSome
<1>3. /\ stream \in Seq(Cells) /\ taken \in 0 .. Len(stream) /\ Len(stream) \in Nat
      /\ Len(stream) - taken \in 0 .. Capacity /\ need \in Nat /\ Capacity \in Nat
      /\ bytes \in Seq(Cells) /\ Len(bytes) \in Nat /\ Len(bytes) <= taken
      /\ bytes = SubSeq(stream, taken - Len(bytes) + 1, taken)
  BY ChannelAssumption DEF IInv, TypeOK
<1>4. k \in 1 .. Len(stream) - taken /\ k <= need
  <2>1. Available = Len(stream) - taken
    BY DEF Available
  <2>2. Min({Available, need}) = IF Available <= need THEN Available ELSE need
    BY <1>3, <2>1, MinOfTwo
  <2>3. QED
    BY <1>3, <2>1, <2>2
<1>5. /\ bytes' = SubSeq(stream, taken - Len(bytes) + 1, taken + k)
      /\ bytes' \in Seq(Cells) /\ Len(bytes') = Len(bytes) + k
  <2>1. /\ taken - Len(bytes) + 1 \in 1 .. Len(stream) + 1
        /\ taken \in taken - Len(bytes) + 1 - 1 .. Len(stream)
        /\ taken + k \in taken .. Len(stream)
    BY <1>3, <1>4
  <2>2. bytes' = SubSeq(stream, taken - Len(bytes) + 1, taken + k)
    <3>1. SubSeq(stream, taken - Len(bytes) + 1, taken) \o SubSeq(stream, taken + 1, taken + k)
             = SubSeq(stream, taken - Len(bytes) + 1, taken + k)
      <4> DEFINE a == taken - Len(bytes) + 1
                 z == taken + k
      <4>1. a \in 1 .. Len(stream) + 1 /\ taken \in a - 1 .. Len(stream) /\ z \in taken .. Len(stream)
        BY <2>1
      <4> HIDE DEF a, z
      <4>2. SubSeq(stream, a, taken) \o SubSeq(stream, taken + 1, z) = SubSeq(stream, a, z)
        BY <1>3, <4>1, ConcatAdjacentSubSeq
      <4>3. QED
        BY <4>2 DEF a, z
    <3>2. QED
      BY <1>1, <1>3, <3>1
  <2>3. \A i \in taken - Len(bytes) + 1 .. taken + k : stream[i] \in Cells
    BY <1>3, <1>4
  <2>4. /\ taken - Len(bytes) + 1 <= taken + k
        /\ (taken + k) - (taken - Len(bytes) + 1) + 1 = Len(bytes) + k
        /\ taken - Len(bytes) + 1 \in Int /\ taken + k \in Int
    BY <1>3, <1>4
  <2>5. QED
    BY <2>2, <2>3, <2>4, SubSeqProperties
<1>6. taken' - Len(bytes') = taken - Len(bytes) /\ Len(bytes') + need' = Len(bytes) + need
  BY <1>1, <1>3, <1>4, <1>5
<1>7. ReaderTypeOK'
  <2>1. /\ taken' \in 0 .. Len(stream) /\ Len(stream) - taken' \in 0 .. Capacity
        /\ need' \in Nat /\ Len(bytes') <= taken'
    BY <1>1, <1>3, <1>4, <1>5
  <2>2. bytes' = SubSeq(stream, taken' - Len(bytes') + 1, taken')
    BY <1>1, <1>5, <1>6
  <2>3. /\ received \in Seq(Seq(Cells)) /\ (rpc = "header" => Len(bytes) + need = HeaderSize)
        /\ status \in {"ok", "time_out", "hung_up", "end_of_file", "errno",
                      "invalid_header", "closed"}
    BY DEF IInv, TypeOK
  <2>4. QED
    BY <1>2, <1>5, <1>6, <2>1, <2>2, <2>3 DEF ReaderTypeOK
<1>8. InPlace'
  <2>1. Start' = Start
    BY <1>6 DEF Start
  <2>2. ~Torn' =>
           /\ rpc = "header" => Start = 0 \/ stream[Start].at = Length(stream[Start].msg)
           /\ rpc = "payload" => /\ Start > 0 /\ stream[Start].at = HeaderSize
                                 /\ Len(bytes) + need = Size(stream[Start].msg)
    BY <1>2, StreamStays DEF IInv, InPlace, Boundary, Ends
  <2>3. QED
    BY <1>2, <1>6, <2>1, <2>2 DEF InPlace, Boundary, Ends
<1>9. KeepsItsPlace'
  BY <1>2, StreamStays DEF KeepsItsPlace, IInv
<1>10. Start' = Start
  BY <1>6 DEF Start
<1>11. QED
  BY <1>2, <1>7, <1>8, <1>9, <1>10, ReaderSteps

\* A whole header that is where one should be is the first two cells of a message.
LEMMA HeaderInPlace ==
    ASSUME IInv, ~Torn, rpc = "header", need = 0
    PROVE  /\ Len(bytes) = HeaderSize /\ taken > 0 /\ bytes[2] = stream[taken]
           /\ bytes[1].at = 1 /\ bytes[2].at = HeaderSize
<1>1. /\ Len(bytes) = 2 /\ taken = Start + 2 /\ Start \in Nat
      /\ taken \in 0 .. Len(stream) /\ Len(stream) \in Nat
      /\ bytes[1] = stream[Start + 1] /\ bytes[2] = stream[Start + 2]
  <2>1. Len(bytes) = 2
    <3>1. Len(bytes) + 0 = 2 /\ Len(bytes) \in Nat
      BY BytesFacts DEF IInv, TypeOK, HeaderSize
    <3>2. QED
      BY <3>1
  <2>2. /\ taken = Start + Len(bytes) /\ Start \in 0 .. taken /\ taken \in 0 .. Len(stream)
        /\ Len(stream) \in Nat /\ \A i \in 1 .. Len(bytes) : bytes[i] = stream[Start + i]
    BY BytesFacts
  <2>3. QED
    BY <2>1, <2>2
<1>2. stream[Start + 1].at = 1
  <2>1. Start \in 0 .. Len(stream) - 1 /\ Boundary(Start)
    BY <1>1 DEF IInv, InPlace
  <2>2. QED
    BY <2>1, BeginsAfterBoundary
<1>3. 1 + 1 <= Length(stream[Start + 1].msg)
  <2>1. stream[Start + 1] \in Cells
    BY <1>1 DEF IInv, TypeOK
  <2>2. QED
    BY <2>1, CellFacts, MessageFacts DEF HeaderSize
<1>4. stream[(Start + 1) + 1].at = 2
  <2>1. Start + 1 \in 1 .. Len(stream) /\ Start + 1 + 1 <= Len(stream) /\ 1 \in 0 .. 1 /\ 1 \in Nat
    BY <1>1
  <2>2. stream[(Start + 1) + 1].at = stream[Start + 1].at + 1
    BY <2>1, <1>2, <1>3, Run
  <2>3. QED
    BY <2>2, <1>2
<1>5. (Start + 1) + 1 = Start + 2
  BY <1>1
<1>6. QED
  BY <1>1, <1>2, <1>4, <1>5 DEF HeaderSize

\* So a header is refused only when messages are torn.
LEMMA HeaderRefused ==
    ASSUME IInv, HeaderIsInvalid
    PROVE  IInv'
<1>1. Torn
  BY HeaderInPlace DEF HeaderIsInvalid, HasMagic
<1>2. EndRead("invalid_header")
  BY DEF HeaderIsInvalid
<1>3. QED
  BY <1>1, <1>2, ReadFails

\* After the header, payload is read: as much as there is of it, unless messages
\* are torn.
LEMMA PayloadBegins ==
    ASSUME IInv, HeaderArrives
    PROVE  IInv'
<1>1. PICK size \in SizesIn(bytes) : Await(size, "payload")
  BY DEF HeaderArrives
<1>2. /\ rpc = "header" /\ need = 0 /\ rpc' = "payload" /\ need' = size /\ bytes' = <<>>
      /\ UNCHANGED <<stream, taken, conn, reset, wvars, received, status>>
  BY <1>1 DEF HeaderArrives, Await
<1>3. /\ bytes \in Seq(Cells) /\ Len(bytes) = 2
      /\ taken \in 0 .. Len(stream) /\ Len(stream) - taken \in 0 .. Capacity
      /\ received \in Seq(Seq(Cells)) /\ taken \in Nat
      /\ status \in {"ok", "time_out", "hung_up", "end_of_file", "errno",
                    "invalid_header", "closed"}
  BY <1>2 DEF IInv, TypeOK, HeaderSize
<1>4. size \in Nat
  <2>1. bytes[2] \in Cells
    <3>1. bytes \in Seq(Cells) /\ Len(bytes) = 2
      BY <1>3
    <3>2. QED
      BY <3>1
  <2>2. bytes[2].msg \in Messages
    BY <2>1, CellFacts
  <2>3. MaxSize \in Nat /\ Size(bytes[2].msg) \in Nat
    BY <2>2, MaxSizeIsNat, MessageFacts
  <2>4. QED
    BY <2>3 DEF SizesIn
<1>5. ReaderTypeOK'
  <2>1. <<>> = SubSeq(stream, taken - 0 + 1, taken) /\ <<>> \in Seq(Cells) /\ Len(<<>>) = 0
    BY <1>3, SubSeqEmpty
  <2>2. QED
    BY <1>2, <1>3, <1>4, <2>1 DEF ReaderTypeOK
<1>6. InPlace'
  <2>1. taken - Len(<<>>) = taken /\ Len(<<>>) + size = size
    BY <1>3, <1>4
  <2>2. ~Torn' => taken > 0 /\ stream[taken].at = HeaderSize /\ size = Size(stream[taken].msg)
    <3>1. ~Torn' => taken > 0 /\ bytes[2] = stream[taken] /\ bytes[2].at = HeaderSize
      BY <1>2, StreamStays, HeaderInPlace
    <3>2. bytes[2].at = HeaderSize => size = Size(bytes[2].msg)
      BY <1>1 DEF SizesIn, HeaderSize
    <3>3. QED
      BY <3>1, <3>2
  <2>3. QED
    BY <1>2, <2>1, <2>2 DEF InPlace, Start
<1>7. KeepsItsPlace'
  BY <1>2, StreamStays DEF KeepsItsPlace, IInv
<1>8. QED
  BY <1>2, <1>5, <1>6, <1>7, ReaderSteps

\* With its last cell a payload reaches to the end of its message.
LEMMA PayloadInPlace ==
    ASSUME IInv, ~Torn, rpc = "payload", need = 0
    PROVE  Ends(taken) /\ Len(bytes) = Size(stream[taken].msg)
<1> DEFINE m == stream[Start].msg
<1>1. /\ Start > 0 /\ stream[Start].at = HeaderSize /\ Len(bytes) + 0 = Size(m)
      /\ Start \in Nat /\ taken = Start + Len(bytes) /\ Len(bytes) \in Nat
      /\ taken \in 0 .. Len(stream) /\ Len(stream) \in Nat
  BY BytesFacts DEF IInv, InPlace
<1>2. m \in Messages
  <2>1. stream[Start] \in Cells
    BY <1>1 DEF IInv, TypeOK
  <2>2. QED
    BY <2>1, CellFacts
<1>3. Size(m) \in Nat /\ Length(m) = HeaderSize + Size(m)
  BY <1>2, MessageFacts
<1>4. /\ Start \in 1 .. Len(stream) /\ Start + Size(m) <= Len(stream)
      /\ stream[Start].at + Size(m) <= Length(m) /\ Size(m) \in 0 .. Size(m)
      /\ Start + Size(m) = taken /\ Len(bytes) = Size(m)
  <2> HIDE DEF m
  <2>1. QED
    BY <1>1, <1>3 DEF HeaderSize
<1>5. stream[Start + Size(m)].msg = m /\ stream[Start + Size(m)].at = stream[Start].at + Size(m)
  BY <1>3, <1>4, Run
<1> HIDE DEF m
<1>6. stream[taken].msg = m /\ stream[taken].at = Length(m)
  BY <1>1, <1>3, <1>4, <1>5
<1>7. QED
  BY <1>4, <1>6 DEF Ends

\* And the next read begins behind it.
LEMMA PayloadIsRead ==
    ASSUME IInv, PayloadArrives
    PROVE  IInv'
<1>1. /\ rpc = "payload" /\ need = 0 /\ received' = Append(received, bytes)
      /\ rpc' = "idle" /\ need' = 0 /\ bytes' = <<>> /\ status' = "ok"
      /\ UNCHANGED <<stream, taken, conn, reset, wvars>>
  BY DEF PayloadArrives, Await
<1>2. /\ bytes \in Seq(Cells) /\ taken \in 0 .. Len(stream) /\ Len(stream) - taken \in 0 .. Capacity
      /\ received \in Seq(Seq(Cells)) /\ taken \in Nat
  BY DEF IInv, TypeOK
<1>3. ReaderTypeOK'
  <2>1. <<>> = SubSeq(stream, taken - 0 + 1, taken) /\ <<>> \in Seq(Cells) /\ Len(<<>>) = 0
    BY <1>2, SubSeqEmpty
  <2>2. Append(received, bytes) \in Seq(Seq(Cells))
    BY <1>2, AppendProperties
  <2>3. QED
    BY <1>1, <1>2, <2>1, <2>2 DEF ReaderTypeOK
<1>4. InPlace'
  <2>1. ~Torn' => stream[taken].at = Length(stream[taken].msg)
    BY <1>1, StreamStays, PayloadInPlace DEF Ends
  <2>2. QED
    BY <1>1, <2>1 DEF InPlace, Boundary, Ends
<1>5. KeepsItsPlace'
  BY <1>1 DEF KeepsItsPlace
<1>6. QED
  BY <1>1, <1>3, <1>4, <1>5, ReaderSteps

-----------------------------------------------------------------------------
\* Every step keeps the invariant.
LEMMA Inductive == IInv /\ [Next]_vars => IInv'
<1> SUFFICES ASSUME IInv, [Next]_vars PROVE IInv'
  OBVIOUS
<1>1. ASSUME NEW w \in Writers, Write(w) PROVE IInv'
  <2>1. CASE PollOut(w) \/ BeginWrite(w)
    BY <2>1, StartsToWrite
  <2>2. CASE WriteHungUp(w) \/ WriteFallsShort(w)
    BY <2>2, GivesUpMessage
  <2>3. CASE PutCells(w)
    BY <2>3, WritesSome
  <2>4. CASE WriteRaisesSigpipe(w)
    BY <2>4, WritersEnd
  <2>5. QED
    BY <1>1, <2>1, <2>2, <2>3, <2>4 DEF Write
<1>2. CASE PollIn
  BY <1>2, ReadBegins
<1>3. CASE RecvSome
  BY <1>3, MoreArrives
<1>4. CASE HeaderArrives
  BY <1>4, PayloadBegins
<1>5. CASE HeaderIsInvalid
  BY <1>5, HeaderRefused
<1>6. CASE PayloadArrives
  BY <1>6, PayloadIsRead
<1>7. CASE ReadHungUp \/ ReadTimesOut \/ CloseReader
  BY <1>7, ReadFails DEF ReadHungUp, ReadTimesOut, CloseReader
<1>8. CASE RecvEnds
  <2>1. EndRead("end_of_file") \/ EndRead("errno")
    BY <1>8 DEF RecvEnds
  <2>2. QED
    BY <2>1, ReadFails
<1>9. CASE ResetArrives \/ CloseWriters
  BY <1>9, WritersEnd
<1>10. CASE UNCHANGED vars
  <2>1. UNCHANGED <<stream, taken, conn, reset, wvars, rvars>>
    BY <1>10 DEF vars
  <2>2. UNCHANGED <<rpc, need, bytes, received, status>>
    BY <2>1 DEF rvars
  <2>3. ReaderTypeOK'
    BY <2>1, <2>2 DEF IInv, TypeOK, ReaderTypeOK
  <2>4. QED
    BY <2>1, <2>3, ReaderStays, ReaderSteps
<1>11. QED
  BY <1>1, <1>2, <1>3, <1>4, <1>5, <1>6, <1>7, <1>8, <1>9, <1>10 DEF Next, Read

\* The invariant holds throughout.
LEMMA InvariantHolds == Spec => []IInv
<1>1. Init => IInv
  BY InitIInv
<1>2. IInv /\ [Next]_vars => IInv'
  BY Inductive
<1>3. QED
  BY <1>1, <1>2, PTL DEF Spec

\* The variables keep to their types: no more is in the buffers than there is
\* room for, and what recv has taken out and not returned is in `bytes'.
THEOREM TypeCorrect == Spec => []TypeOK
<1>1. IInv => TypeOK
  BY DEF IInv
<1>2. QED
  BY <1>1, InvariantHolds, PTL

\* However many threads write to a connection without a mutex, their messages
\* are torn only if the buffers were full.
THEOREM WholeWhileThereIsRoom == Spec => []TornOnlyWhenFull
<1>1. IInv => TornOnlyWhenFull
  BY DEF IInv
<1>2. QED
  BY <1>1, InvariantHolds, PTL

\* However the bytes are split between the calls of write(2) and recv, the
\* reader finds a header where it expects one until messages are torn.
THEOREM PlaceIsKept == Spec => []KeepsItsPlace
<1>1. IInv => KeepsItsPlace
  BY DEF IInv
<1>2. QED
  BY <1>1, InvariantHolds, PTL

-----------------------------------------------------------------------------
(* The messages that are whole in a stream *)

EndsIn(s, k) == {i \in 1 .. k : s[i].at = Length(s[i].msg)}
EndIn(s, k) == CHOOSE i \in {j \in EndsIn(s, Len(s)) : Cardinality(EndsIn(s, j)) = k} : TRUE
WholeIn(s) == [k \in 1 .. Cardinality(EndsIn(s, Len(s))) |-> s[EndIn(s, k)].msg]

\* Whole and its parts speak of the stream of their state.
LEMMA WholeOfStream ==
    /\ Whole = WholeIn(stream) /\ Whole' = WholeIn(stream')
    /\ \A k : EndsUpTo(k) = EndsIn(stream, k)
    /\ \A k : EndsUpTo(k)' = EndsIn(stream', k)
BY DEF Whole, WholeIn, EndAt, EndIn, EndsUpTo, EndsIn, Ends

\* The ends of messages among the first k bytes can be counted.
LEMMA EndsFinite ==
    ASSUME NEW s, NEW k \in Nat
    PROVE  /\ EndsIn(s, k) \subseteq 1 .. k /\ IsFiniteSet(EndsIn(s, k))
           /\ Cardinality(EndsIn(s, k)) \in Nat
<1>1. EndsIn(s, k) \in SUBSET (1 .. k)
  BY DEF EndsIn
<1>2. IsFiniteSet(1 .. k)
  BY FS_Interval
<1>3. IsFiniteSet(EndsIn(s, k))
  BY <1>1, <1>2, FS_Subset
<1>4. QED
  BY <1>1, <1>3, FS_CardinalityType

\* There are as many ends, or one more, after one more cell.
LEMMA NextEnd ==
    ASSUME NEW s, NEW k \in Nat
    PROVE  /\ k + 1 \notin EndsIn(s, k + 1) => EndsIn(s, k + 1) = EndsIn(s, k)
           /\ k + 1 \in EndsIn(s, k + 1) =>
                /\ EndsIn(s, k + 1) = EndsIn(s, k) \cup {k + 1}
                /\ Cardinality(EndsIn(s, k + 1)) = Cardinality(EndsIn(s, k)) + 1
<1>1. 1 .. k + 1 = (1 .. k) \cup {k + 1} /\ k + 1 \notin 1 .. k
  OBVIOUS
<1>2. k + 1 \notin EndsIn(s, k + 1) => EndsIn(s, k + 1) = EndsIn(s, k)
  BY <1>1 DEF EndsIn
<1>3. k + 1 \in EndsIn(s, k + 1) => EndsIn(s, k + 1) = EndsIn(s, k) \cup {k + 1}
  BY <1>1 DEF EndsIn
<1>4. k + 1 \notin EndsIn(s, k) /\ IsFiniteSet(EndsIn(s, k))
  BY <1>1, EndsFinite
<1>5. Cardinality(EndsIn(s, k) \cup {k + 1}) = Cardinality(EndsIn(s, k)) + 1
  BY <1>4, FS_AddElement
<1>6. QED
  BY <1>2, <1>3, <1>5

\* Fewer messages end before an end than with it.
LEMMA EndsIncrease ==
    ASSUME NEW s, NEW j \in Nat, NEW k \in Nat, j < k, k \in EndsIn(s, k)
    PROVE  Cardinality(EndsIn(s, j)) < Cardinality(EndsIn(s, k))
<1>1. EndsIn(s, j) \subseteq EndsIn(s, k) \ {k}
  BY DEF EndsIn
<1>2. /\ IsFiniteSet(EndsIn(s, k)) /\ Cardinality(EndsIn(s, k)) \in Nat
      /\ Cardinality(EndsIn(s, j)) \in Nat
  BY EndsFinite
<1>3. /\ IsFiniteSet(EndsIn(s, k) \ {k})
      /\ Cardinality(EndsIn(s, k) \ {k}) = Cardinality(EndsIn(s, k)) - 1
  BY <1>2, FS_RemoveElement
<1>4. Cardinality(EndsIn(s, j)) <= Cardinality(EndsIn(s, k) \ {k})
  BY <1>1, <1>3, FS_Subset
<1>5. QED
  BY <1>2, <1>3, <1>4

\* Never more end before a place than before a later one.
LEMMA EndsMonotonic ==
    ASSUME NEW s, NEW j \in Nat, NEW k \in Nat, j <= k
    PROVE  Cardinality(EndsIn(s, j)) <= Cardinality(EndsIn(s, k))
<1>1. EndsIn(s, j) \subseteq EndsIn(s, k)
  BY DEF EndsIn
<1>2. QED
  BY <1>1, EndsFinite, FS_Subset

\* The end with which there are k is the k-th.
LEMMA EndInIs ==
    ASSUME NEW s, Len(s) \in Nat, NEW i \in EndsIn(s, Len(s))
    PROVE  EndIn(s, Cardinality(EndsIn(s, i))) = i
<1> DEFINE k == Cardinality(EndsIn(s, i))
           those == {j \in EndsIn(s, Len(s)) : Cardinality(EndsIn(s, j)) = k}
<1>1. i \in those
  OBVIOUS
<1>2. ASSUME NEW j \in those, j # i PROVE FALSE
  <2>1. i \in Nat /\ j \in Nat /\ i \in EndsIn(s, i) /\ j \in EndsIn(s, j)
    BY DEF EndsIn
  <2>2. k \in Nat /\ Cardinality(EndsIn(s, j)) = k
    BY <2>1, EndsFinite
  <2>3. ~(j < i)
    BY <2>1, <2>2, EndsIncrease
  <2>4. ~(i < j)
    BY <2>1, <2>2, EndsIncrease
  <2>5. QED
    BY <2>1, <2>3, <2>4, <1>2
<1>3. those = {i}
  BY <1>1, <1>2
<1>4. EndIn(s, k) = CHOOSE j \in {i} : TRUE
  BY <1>3 DEF EndIn
<1>5. QED
  BY <1>4

\* And there is such an end for each k.
LEMMA EndExists ==
    ASSUME NEW s, NEW n \in Nat
    PROVE  \A k \in 1 .. Cardinality(EndsIn(s, n)) :
              \E i \in EndsIn(s, n) : Cardinality(EndsIn(s, i)) = k
<1> DEFINE All(m) == \A k \in 1 .. Cardinality(EndsIn(s, m)) :
                        \E i \in EndsIn(s, m) : Cardinality(EndsIn(s, i)) = k
           S == {m \in 0 .. n : All(m)}
<1>1. 0 \in S
  <2>1. EndsIn(s, 0) = {}
    BY DEF EndsIn
  <2>2. QED
    BY <2>1, FS_EmptySet
<1>2. ASSUME NEW m \in 0 .. n - 1, m \in S PROVE m + 1 \in S
  <2>1. m \in Nat /\ m + 1 \in 0 .. n
    OBVIOUS
  <2>2. Cardinality(EndsIn(s, m)) \in Nat
    BY <2>1, EndsFinite
  <2>3. CASE m + 1 \notin EndsIn(s, m + 1)
    BY <1>2, <2>1, <2>3, NextEnd
  <2>4. CASE m + 1 \in EndsIn(s, m + 1)
    <3>1. /\ EndsIn(s, m + 1) = EndsIn(s, m) \cup {m + 1}
          /\ Cardinality(EndsIn(s, m + 1)) = Cardinality(EndsIn(s, m)) + 1
      BY <2>1, <2>4, NextEnd
    <3>2. ASSUME NEW k \in 1 .. Cardinality(EndsIn(s, m + 1))
          PROVE  \E i \in EndsIn(s, m + 1) : Cardinality(EndsIn(s, i)) = k
      <4>1. CASE k = Cardinality(EndsIn(s, m + 1))
        BY <2>4, <4>1
      <4>2. CASE k \in 1 .. Cardinality(EndsIn(s, m))
        BY <1>2, <3>1, <4>2
      <4>3. QED
        BY <2>2, <3>1, <4>1, <4>2
    <3>3. QED
      BY <2>1, <3>2
  <2>5. QED
    BY <2>3, <2>4
<1>3. 0 .. n \subseteq S
  <2> HIDE DEF S
  <2>1. QED
    BY <1>1, <1>2, InductionUpTo
<1>4. QED
  BY <1>3

\* Whole is the messages of the ends, in their order.
LEMMA WholeFacts ==
    ASSUME NEW s \in Seq(Cells)
    PROVE  /\ WholeIn(s) \in Seq(Messages)
           /\ Len(WholeIn(s)) = Cardinality(EndsIn(s, Len(s)))
           /\ \A i \in EndsIn(s, Len(s)) :
                /\ Cardinality(EndsIn(s, i)) \in 1 .. Cardinality(EndsIn(s, Len(s)))
                /\ WholeIn(s)[Cardinality(EndsIn(s, i))] = s[i].msg
<1> DEFINE n == Len(s)
           c == Cardinality(EndsIn(s, n))
<1>1. n \in Nat /\ EndsIn(s, n) \subseteq 1 .. n /\ c \in Nat
  BY EndsFinite
<1>2. ASSUME NEW k \in 1 .. c PROVE EndIn(s, k) \in 1 .. n
  <2>1. PICK i \in EndsIn(s, n) : Cardinality(EndsIn(s, i)) = k
    BY <1>1, EndExists
  <2>2. EndIn(s, k) = i
    BY <1>1, <2>1, EndInIs
  <2>3. QED
    BY <1>1, <2>2
<1>3. \A k \in 1 .. c : s[EndIn(s, k)].msg \in Messages
  BY <1>2, CellFacts
<1>4. WholeIn(s) \in Seq(Messages) /\ Len(WholeIn(s)) = c
  <2>1. WholeIn(s) = [k \in 1 .. c |-> s[EndIn(s, k)].msg]
    BY DEF WholeIn
  <2> HIDE DEF c
  <2>2. QED
    BY <2>1, <1>1, <1>3
<1>5. ASSUME NEW i \in EndsIn(s, n)
      PROVE  Cardinality(EndsIn(s, i)) \in 1 .. c /\ WholeIn(s)[Cardinality(EndsIn(s, i))] = s[i].msg
  <2>1. i \in 1 .. n /\ i \in EndsIn(s, i) /\ i - 1 \in Nat /\ i - 1 < i /\ i \in Nat /\ i <= n
    BY <1>1 DEF EndsIn
  <2>2. /\ Cardinality(EndsIn(s, i)) \in Nat /\ Cardinality(EndsIn(s, i - 1)) \in Nat
        /\ Cardinality(EndsIn(s, i - 1)) < Cardinality(EndsIn(s, i))
        /\ Cardinality(EndsIn(s, i)) <= c
    BY <1>1, <2>1, EndsFinite, EndsIncrease, EndsMonotonic
  <2>3. Cardinality(EndsIn(s, i)) \in 1 .. c
    BY <1>1, <2>2
  <2>4. EndIn(s, Cardinality(EndsIn(s, i))) = i
    BY <1>1, EndInIs
  <2>5. QED
    BY <2>3, <2>4 DEF WholeIn
<1>6. QED
  BY <1>4, <1>5

\* Places that no message ends at make no difference.
LEMMA NoEndBetween ==
    ASSUME NEW s, NEW a \in Nat, NEW b \in Nat, a <= b,
           \A i \in a + 1 .. b : s[i].at # Length(s[i].msg)
    PROVE  EndsIn(s, b) = EndsIn(s, a)
<1>1. 1 .. b = (1 .. a) \cup (a + 1 .. b)
  OBVIOUS
<1>2. QED
  BY <1>1 DEF EndsIn

\* What is written behind them does not make a difference to the ends.
LEMMA SameEnds ==
    ASSUME NEW s \in Seq(Cells), NEW t \in Seq(Cells),
           \A i \in 1 .. Len(s) : t[i] = s[i], NEW j \in 0 .. Len(s)
    PROVE  EndsIn(t, j) = EndsIn(s, j)
<1>1. \A i \in 1 .. j : t[i] = s[i]
  OBVIOUS
<1>2. QED
  BY <1>1 DEF EndsIn

\* Nor to the messages that were whole.
LEMMA WholeGrows ==
    ASSUME NEW s \in Seq(Cells), NEW t \in Seq(Cells), Len(s) <= Len(t),
           \A i \in 1 .. Len(s) : t[i] = s[i]
    PROVE  \A k \in 1 .. Len(WholeIn(s)) :
              k \in 1 .. Len(WholeIn(t)) /\ WholeIn(t)[k] = WholeIn(s)[k]
<1> SUFFICES ASSUME NEW k \in 1 .. Len(WholeIn(s))
             PROVE  k \in 1 .. Len(WholeIn(t)) /\ WholeIn(t)[k] = WholeIn(s)[k]
  OBVIOUS
<1>1. Len(s) \in Nat /\ Len(t) \in Nat
  OBVIOUS
<1>2. k \in 1 .. Cardinality(EndsIn(s, Len(s)))
  BY WholeFacts
<1>3. PICK i \in EndsIn(s, Len(s)) : Cardinality(EndsIn(s, i)) = k
  BY <1>1, <1>2, EndExists
<1>4. i \in 1 .. Len(s) /\ i \in 0 .. Len(s) /\ t[i] = s[i] /\ i \in EndsIn(t, Len(t))
  BY <1>1, <1>3 DEF EndsIn
<1>5. Cardinality(EndsIn(t, i)) = k
  BY <1>3, <1>4, SameEnds
<1>6. k \in 1 .. Cardinality(EndsIn(t, Len(t))) /\ WholeIn(t)[k] = t[i].msg
  BY <1>4, <1>5, WholeFacts
<1>7. WholeIn(s)[k] = s[i].msg
  BY <1>3, WholeFacts
<1>8. QED
  BY <1>4, <1>6, <1>7, WholeFacts

\* Bytes that end no message add none to the whole ones.
LEMMA NoEndComes ==
    ASSUME NEW s \in Seq(Cells), NEW t \in Seq(Cells), Len(s) <= Len(t),
           \A i \in 1 .. Len(s) : t[i] = s[i],
           \A i \in Len(s) + 1 .. Len(t) : t[i].at # Length(t[i].msg)
    PROVE  WholeIn(t) = WholeIn(s)
<1>1. Len(s) \in Nat /\ Len(t) \in Nat /\ Len(s) \in 0 .. Len(s)
  OBVIOUS
<1>2. EndsIn(t, Len(t)) = EndsIn(s, Len(s))
  <2>1. EndsIn(t, Len(t)) = EndsIn(t, Len(s))
    BY <1>1, NoEndBetween
  <2>2. QED
    BY <1>1, <2>1, SameEnds
<1>3. Len(WholeIn(t)) = Len(WholeIn(s))
  BY <1>2, WholeFacts
<1>4. \A k \in 1 .. Len(WholeIn(s)) : WholeIn(t)[k] = WholeIn(s)[k]
  BY WholeGrows
<1>5. WholeIn(s) \in Seq(Messages) /\ WholeIn(t) \in Seq(Messages)
  BY WholeFacts
<1>6. QED
  BY <1>3, <1>4, <1>5, SeqEqual

\* A message that comes to its end is one more that is whole.
LEMMA OneEndComes ==
    ASSUME NEW s \in Seq(Cells), NEW t \in Seq(Cells), Len(s) < Len(t),
           \A i \in 1 .. Len(s) : t[i] = s[i],
           \A i \in Len(s) + 1 .. Len(t) - 1 : t[i].at # Length(t[i].msg),
           t[Len(t)].at = Length(t[Len(t)].msg)
    PROVE  WholeIn(t) = Append(WholeIn(s), t[Len(t)].msg)
<1> DEFINE n == Len(t)
           m == t[Len(t)].msg
           more == Append(WholeIn(s), t[Len(t)].msg)
<1>1. /\ Len(s) \in Nat /\ n \in Nat /\ n - 1 \in Nat /\ Len(s) \in 0 .. Len(s) /\ Len(s) <= n - 1
      /\ n \in EndsIn(t, n) /\ (n - 1) + 1 = n /\ m \in Messages
  <2>1. Len(s) \in Nat /\ n \in Nat /\ n \in 1 .. n
    OBVIOUS
  <2>2. t[n] \in Cells
    BY <2>1
  <2>3. QED
    BY <2>1, <2>2, CellFacts DEF EndsIn
<1>2. Cardinality(EndsIn(t, n)) = Cardinality(EndsIn(s, Len(s))) + 1
  <2>1. EndsIn(t, n - 1) = EndsIn(t, Len(s))
    BY <1>1, NoEndBetween
  <2>2. EndsIn(t, Len(s)) = EndsIn(s, Len(s))
    BY <1>1, SameEnds
  <2>3. Cardinality(EndsIn(t, n)) = Cardinality(EndsIn(t, n - 1)) + 1
    <3> HIDE DEF n
    <3>1. QED
      BY <1>1, NextEnd
  <2>4. QED
    BY <2>1, <2>2, <2>3
<1>3. /\ WholeIn(s) \in Seq(Messages) /\ WholeIn(t) \in Seq(Messages)
      /\ Len(WholeIn(t)) = Len(WholeIn(s)) + 1 /\ Len(WholeIn(s)) \in Nat
      /\ WholeIn(t)[Len(WholeIn(s)) + 1] = m
  <2>1. WholeIn(s) \in Seq(Messages) /\ Len(WholeIn(s)) = Cardinality(EndsIn(s, Len(s)))
    BY WholeFacts
  <2>2. /\ WholeIn(t) \in Seq(Messages) /\ Len(WholeIn(t)) = Cardinality(EndsIn(t, n))
        /\ WholeIn(t)[Cardinality(EndsIn(t, n))] = m
    BY <1>1, WholeFacts
  <2>3. QED
    BY <1>2, <2>1, <2>2
<1>4. /\ more \in Seq(Messages) /\ Len(more) = Len(WholeIn(s)) + 1
      /\ \A k \in 1 .. Len(WholeIn(s)) : more[k] = WholeIn(s)[k]
      /\ more[Len(WholeIn(s)) + 1] = m
  BY <1>1, <1>3, AppendProperties
<1>5. \A k \in 1 .. Len(WholeIn(s)) : WholeIn(t)[k] = WholeIn(s)[k]
  BY <1>1, WholeGrows
<1>6. \A k \in 1 .. Len(WholeIn(t)) : WholeIn(t)[k] = more[k]
  <2> SUFFICES ASSUME NEW k \in 1 .. Len(WholeIn(s)) + 1 PROVE WholeIn(t)[k] = more[k]
    BY <1>3
  <2>1. CASE k = Len(WholeIn(s)) + 1
    BY <2>1, <1>3, <1>4
  <2>2. CASE k \in 1 .. Len(WholeIn(s))
    BY <2>2, <1>4, <1>5
  <2>3. QED
    BY <2>1, <2>2, <1>3
<1>7. WholeIn(t) = more
  <2> HIDE DEF more, m
  <2>1. QED
    BY <1>3, <1>4, <1>6, SeqEqual
<1>8. QED
  BY <1>7

\* In terms of a step that writes: it makes its message whole with its last cell.
LEMMA WritesWhole ==
    ASSUME IInv, NEW w \in Writers, PutCells(w)
    PROVE  \/ Whole' = Whole
           \/ Whole' = Append(Whole, Writing(w)) /\ Writing(w) \in Messages
<1> DEFINE m == Writing(w)
           k == Copied(w)
           n == Len(stream)
           at == wput[w]
<1>1. /\ m \in Messages /\ at \in Nat /\ Room \in 1 .. Capacity /\ k \in 1 .. Room
      /\ at + k <= Length(m)
      /\ stream' \in Seq(Cells) /\ Len(stream') = n + k
      /\ \A i \in 1 .. n : stream'[i] = stream[i]
      /\ \A i \in 1 .. k : stream'[n + i] = [msg |-> m, at |-> at + i]
  BY PutsNextCells
<1>2. stream \in Seq(Cells) /\ n \in Nat /\ k \in Nat \ {0} /\ Length(m) \in Nat
  <2>1. stream \in Seq(Cells) /\ n \in Nat /\ Length(m) \in Nat
    BY <1>1, MessageFacts DEF IInv, TypeOK
  <2>2. k \in Nat \ {0}
    BY <1>1, ChannelAssumption
  <2>3. QED
    BY <2>1, <2>2
<1> HIDE DEF m, k, n, at
<1>3. ASSUME NEW i \in n + 1 .. n + k
      PROVE  stream'[i].msg = m /\ stream'[i].at = at + (i - n)
  <2>1. i - n \in 1 .. k /\ n + (i - n) = i
    BY <1>2
  <2>2. stream'[n + (i - n)] = [msg |-> m, at |-> at + (i - n)]
    BY <1>1, <2>1
  <2>3. QED
    BY <2>1, <2>2
<1>4. n <= n + k /\ n < n + k /\ n + k \in n + 1 .. n + k
  BY <1>2
<1>5. ASSUME NEW i \in n + 1 .. n + k, i # n + k \/ at + k # Length(m)
      PROVE  stream'[i].at # Length(stream'[i].msg)
  <2>1. at + (i - n) # Length(m)
    BY <1>1, <1>2, <1>5
  <2>2. QED
    BY <1>3, <2>1
<1>6. CASE at + k # Length(m)
  <2>1. WholeIn(stream') = WholeIn(stream)
    BY <1>1, <1>2, <1>4, <1>5, <1>6, NoEndComes DEF n
  <2>2. QED
    BY <2>1, WholeOfStream
<1>7. CASE at + k = Length(m)
  <2>1. stream'[n + k].msg = m /\ stream'[n + k].at = Length(m)
    <3>1. at + ((n + k) - n) = at + k
      BY <1>1, <1>2
    <3>2. QED
      BY <1>3, <1>4, <1>7, <3>1
  <2>2. ASSUME NEW i \in n + 1 .. n + k - 1 PROVE stream'[i].at # Length(stream'[i].msg)
    <3>1. i \in n + 1 .. n + k /\ i # n + k
      BY <1>2
    <3>2. QED
      BY <1>5, <3>1
  <2>3. WholeIn(stream') = Append(WholeIn(stream), m)
    <3>1. /\ n < Len(stream')
          /\ \A i \in n + 1 .. Len(stream') - 1 : stream'[i].at # Length(stream'[i].msg)
          /\ stream'[Len(stream')].at = Length(stream'[Len(stream')].msg)
          /\ stream'[Len(stream')].msg = m
      <4>1. Len(stream') = n + k
        BY <1>1
      <4>2. n < Len(stream') /\ \A i \in n + 1 .. Len(stream') - 1 : i \in n + 1 .. n + k - 1
        BY <4>1, <1>2
      <4>3. stream'[Len(stream')] = stream'[n + k]
        BY <4>1
      <4>4. QED
        BY <4>2, <4>3, <2>1, <2>2
    <3>2. QED
      BY <1>1, <1>2, <3>1, OneEndComes DEF n
  <2>4. QED
    BY <1>1, <2>3, WholeOfStream DEF m
<1>8. QED
  BY <1>6, <1>7

-----------------------------------------------------------------------------
(* The stream as a pipe of messages *)

\* What Counted says, of the streams of both states.
LEMMA CountedMeans ==
    /\ Counted <=>
         (~Torn =>
            /\ rpc # "ended" => Cardinality(EndsIn(stream, Start)) = Len(received)
            /\ \A k \in 1 .. Len(received) :
                 k \in DOMAIN WholeIn(stream) /\ MessageOf(received[k]) = WholeIn(stream)[k])
    /\ Counted' <=>
         (~Torn' =>
            /\ rpc' # "ended" => Cardinality(EndsIn(stream', Start')) = Len(received')
            /\ \A k \in 1 .. Len(received') :
                 k \in DOMAIN WholeIn(stream') /\ MessageOf(received'[k]) = WholeIn(stream')[k])
<1>1. EndsUpTo(Start) = EndsIn(stream, Start) /\ EndsUpTo(Start)' = EndsIn(stream', Start')
  BY DEF EndsUpTo, EndsIn, Ends
<1>2. Whole = WholeIn(stream) /\ Whole' = WholeIn(stream')
  BY WholeOfStream
<1>3. \A c : MessageOf(c)' = MessageOf(c)
  BY DEF MessageOf
<1>4. QED
  BY <1>1, <1>2, <1>3 DEF Counted, MessageOf

\* Nothing has been written or received at the start.
LEMMA InitPipeInv == Init => PipeInv
<1> SUFFICES ASSUME Init PROVE PipeInv
  OBVIOUS
<1>1. Start = 0 /\ Len(received) = 0
  <2>1. taken = 0 /\ bytes = <<>> /\ received = <<>>
    BY DEF Init
  <2>2. Len(received) = 0 /\ Len(bytes) = 0
    BY <2>1
  <2>3. Start = taken - Len(bytes)
    BY DEF Start
  <2>4. 0 - 0 = 0
    OBVIOUS
  <2>5. QED
    BY <2>1, <2>2, <2>3, <2>4, Zenon
<1>2. EndsIn(stream, 0) = {}
  BY DEF EndsIn
<1>3. Cardinality(EndsIn(stream, Start)) = Len(received)
  BY <1>1, <1>2, FS_EmptySet
<1>4. Counted
  BY <1>1, <1>3, CountedMeans
<1>5. AtEnd
  BY DEF Init, AtEnd
<1>6. QED
  BY <1>4, <1>5 DEF PipeInv

\* Nothing is written and no payload is handed on, and a read goes on from where
\* it began, or from a place before which no more messages end.
LEMMA CountStays ==
    ASSUME IInv, Counted, UNCHANGED <<stream, received>>,
           \/ rpc' = "ended"
           \/ rpc # "ended" /\ (~Torn => EndsIn(stream, Start') = EndsIn(stream, Start))
    PROVE  Counted'
BY StreamStays, CountedMeans

\* More is written.
LEMMA CountOfMore ==
    ASSUME IInv, Counted, NEW w \in Writers, PutCells(w)
    PROVE  Counted'
<1> SUFFICES ASSUME ~Torn' PROVE Counted'
  BY CountedMeans
<1>1. /\ stream \in Seq(Cells) /\ stream' \in Seq(Cells) /\ Len(stream) <= Len(stream')
      /\ \A i \in 1 .. Len(stream) : stream'[i] = stream[i]
  <2>1. /\ stream' \in Seq(Cells) /\ Len(stream') = Len(stream) + Copied(w)
        /\ Copied(w) \in 1 .. Room /\ Room \in 1 .. Capacity
        /\ \A i \in 1 .. Len(stream) : stream'[i] = stream[i]
    BY PutsNextCells
  <2>2. stream \in Seq(Cells) /\ Len(stream) \in Nat /\ Capacity \in Nat
    BY ChannelAssumption DEF IInv, TypeOK
  <2>3. QED
    BY <2>1, <2>2
<1>2. ~Torn
  BY <1>1, TornStays
<1>3. UNCHANGED <<rpc, received, bytes, taken>>
  BY DEF PutCells, rvars
<1>4. Start' = Start /\ Start \in 0 .. Len(stream)
  BY <1>3, BytesFacts DEF Start
<1>5. EndsIn(stream', Start) = EndsIn(stream, Start)
  BY <1>1, <1>4, SameEnds
<1>6. \A k \in 1 .. Len(received) :
         k \in DOMAIN WholeIn(stream') /\ MessageOf(received[k]) = WholeIn(stream')[k]
  <2> SUFFICES ASSUME NEW k \in 1 .. Len(received)
               PROVE  k \in DOMAIN WholeIn(stream') /\ MessageOf(received[k]) = WholeIn(stream')[k]
    OBVIOUS
  <2>1. k \in DOMAIN WholeIn(stream) /\ MessageOf(received[k]) = WholeIn(stream)[k]
    BY <1>2, CountedMeans
  <2>2. WholeIn(stream) \in Seq(Messages) /\ WholeIn(stream') \in Seq(Messages)
    BY <1>1, WholeFacts
  <2>3. k \in 1 .. Len(WholeIn(stream'))  /\ WholeIn(stream')[k] = WholeIn(stream)[k]
    BY <1>1, <2>1, <2>2, WholeGrows
  <2>4. QED
    BY <2>1, <2>2, <2>3
<1>7. rpc # "ended" => Cardinality(EndsIn(stream, Start)) = Len(received)
  BY <1>2, CountedMeans
<1>8. QED
  BY <1>3, <1>4, <1>5, <1>6, <1>7, CountedMeans

\* The header is no end of a message.
LEMMA CountOfHeader ==
    ASSUME IInv, Counted, HeaderArrives
    PROVE  Counted'
<1>1. /\ rpc = "header" /\ need = 0 /\ bytes' = <<>>
      /\ UNCHANGED <<stream, taken, received>>
  BY DEF HeaderArrives, Await
<1>2. /\ taken = Start + Len(bytes)
      /\ taken \in 0 .. Len(stream) /\ Len(stream) \in Nat /\ Start \in Nat
      /\ \A i \in 1 .. Len(bytes) : bytes[i] = stream[Start + i]
  BY BytesFacts
<1>3. Start' = taken
  <2>1. taken - Len(<<>>) = taken
    BY <1>2
  <2>2. QED
    BY <1>1, <2>1 DEF Start
<1>4. ~Torn => EndsIn(stream, taken) = EndsIn(stream, Start)
  <2> SUFFICES ASSUME ~Torn PROVE EndsIn(stream, taken) = EndsIn(stream, Start)
    OBVIOUS
  <2>1. Len(bytes) = 2 /\ bytes[1].at = 1 /\ bytes[2].at = 2
    BY <1>1, HeaderInPlace DEF HeaderSize
  <2>2. taken = Start + 2 /\ stream[Start + 1].at = 1 /\ stream[Start + 2].at = 2
    BY <1>2, <2>1 DEF HeaderSize
  <2>3. ASSUME NEW i \in Start + 1 .. taken PROVE stream[i].at # Length(stream[i].msg)
    <3>1. stream[i] \in Cells
      <4>1. stream \in Seq(Cells)
        BY DEF IInv, TypeOK
      <4>2. i \in 1 .. Len(stream)
        BY <1>2
      <4>3. QED
        BY <4>1, <4>2
    <3>2. Length(stream[i].msg) > 2 /\ Length(stream[i].msg) \in Nat
      BY <3>1, CellFacts, MessageFacts DEF HeaderSize
    <3>3. i = Start + 1 \/ i = Start + 2
      BY <1>2, <2>2
    <3>4. QED
      BY <2>2, <3>2, <3>3
  <2>4. QED
    BY <1>2, <2>2, <2>3, NoEndBetween
<1>5. QED
  BY <1>1, <1>3, <1>4, CountStays

\* The payload is that of the message that ends with it, the next of those that
\* are whole.
LEMMA PayloadIsNext ==
    ASSUME IInv, Counted, ~Torn, rpc = "payload", need = 0
    PROVE  /\ Cardinality(EndsIn(stream, taken)) = Len(received) + 1
           /\ Len(received) + 1 \in 1 .. Len(WholeIn(stream))
           /\ MessageOf(bytes) = WholeIn(stream)[Len(received) + 1]
<1> DEFINE m == stream[taken].msg
           first == stream[Start].msg
<1>1. /\ Start > 0 /\ stream[Start].at = HeaderSize /\ Len(bytes) + 0 = Size(first)
      /\ Start \in Nat /\ taken = Start + Len(bytes) /\ Len(bytes) \in Nat
      /\ taken \in 0 .. Len(stream) /\ Len(stream) \in Nat
      /\ bytes \in Seq(Cells) /\ \A i \in 1 .. Len(bytes) : bytes[i] = stream[Start + i]
  BY BytesFacts DEF IInv, InPlace
<1>2. stream \in Seq(Cells) /\ first \in Messages
  <2>1. stream \in Seq(Cells)
    BY DEF IInv, TypeOK
  <2>2. Start \in 1 .. Len(stream)
    BY <1>1
  <2>3. stream[Start] \in Cells
    BY <2>1, <2>2
  <2>4. QED
    BY <2>1, <2>3, CellFacts
<1>3. Size(first) \in Nat \ {0} /\ Length(first) = 2 + Size(first) /\ Len(bytes) = Size(first)
  BY <1>1, <1>2, MessageFacts DEF HeaderSize
<1> HIDE DEF first
<1>4. \A e \in 0 .. Size(first) : stream[Start + e].msg = first /\ stream[Start + e].at = 2 + e
  <2>1. /\ Start \in 1 .. Len(stream) /\ Start + Size(first) <= Len(stream)
        /\ stream[Start].at + Size(first) <= Length(first)
    BY <1>1, <1>3 DEF HeaderSize
  <2>2. Size(first) \in Nat /\ stream[Start].at = 2
    BY <1>1, <1>3 DEF HeaderSize
  <2>3. \A e \in 0 .. Size(first) : /\ stream[Start + e].msg = stream[Start].msg
                                   /\ stream[Start + e].at = stream[Start].at + e
    BY <2>1, <2>2, Run DEF first
  <2>4. QED
    BY <2>2, <2>3 DEF first
<1>5. taken = Start + Size(first) /\ taken \in 1 .. Len(stream) /\ taken - 1 \in Nat /\ (taken - 1) + 1 = taken
  BY <1>1, <1>3
<1>6. m = first /\ stream[taken].at = Length(first) /\ taken \in EndsIn(stream, taken)
  <2>1. Size(first) \in 0 .. Size(first)
    BY <1>3
  <2>2. m = first /\ stream[taken].at = Length(first)
    BY <1>3, <1>4, <1>5, <2>1
  <2>3. taken \in 1 .. taken
    BY <1>5
  <2>4. QED
    BY <2>2, <2>3 DEF EndsIn
<1>7. EndsIn(stream, taken - 1) = EndsIn(stream, Start)
  <2>1. ASSUME NEW i \in Start + 1 .. taken - 1 PROVE stream[i].at # Length(stream[i].msg)
    <3>1. i - Start \in 0 .. Size(first) /\ i - Start < Size(first) /\ Start + (i - Start) = i
      BY <1>1, <1>3, <1>5
    <3>2. stream[i].msg = first /\ stream[i].at = 2 + (i - Start)
      BY <1>4, <3>1
    <3>3. QED
      BY <1>3, <3>1, <3>2
  <2>2. Start <= taken - 1
    BY <1>1, <1>3, <1>5
  <2>3. QED
    BY <1>1, <1>5, <2>1, <2>2, NoEndBetween
<1>8. Cardinality(EndsIn(stream, taken)) = Len(received) + 1
  <2>1. Cardinality(EndsIn(stream, Start)) = Len(received)
    BY CountedMeans
  <2>2. Cardinality(EndsIn(stream, taken)) = Cardinality(EndsIn(stream, taken - 1)) + 1
    <3> DEFINE before == taken - 1
    <3>1. before \in Nat /\ before + 1 = taken /\ before + 1 \in EndsIn(stream, before + 1)
      BY <1>5, <1>6
    <3> HIDE DEF before
    <3>2. Cardinality(EndsIn(stream, before + 1)) = Cardinality(EndsIn(stream, before)) + 1
      BY <3>1, NextEnd
    <3>3. QED
      BY <3>1, <3>2 DEF before
  <2>3. QED
    BY <1>7, <2>1, <2>2
<1>9. taken \in EndsIn(stream, Len(stream))
  BY <1>5, <1>6 DEF EndsIn
<1>10. /\ Len(received) + 1 \in 1 .. Len(WholeIn(stream))
       /\ WholeIn(stream)[Len(received) + 1] = m
  BY <1>2, <1>8, <1>9, WholeFacts
<1>11. MessageOf(bytes) = first
  <2>1. ASSUME NEW i \in 1 .. Len(bytes) PROVE bytes[i] = [msg |-> first, at |-> HeaderSize + i]
    <3>1. i \in 0 .. Size(first) /\ bytes[i] = stream[Start + i]
      BY <1>1, <1>3
    <3>2. bytes[i].msg = first /\ bytes[i].at = 2 + i
      BY <1>4, <3>1
    <3>3. bytes[i] \in Cells
      BY <1>1
    <3>4. bytes[i] = [msg |-> bytes[i].msg, at |-> bytes[i].at]
      BY <3>3, CellFacts
    <3>5. QED
      BY <3>2, <3>4 DEF HeaderSize
  <2>2. bytes[1].msg = first
    <3>1. 1 \in 1 .. Len(bytes)
      BY <1>3
    <3>2. bytes[1] = [msg |-> first, at |-> HeaderSize + 1]
      BY <2>1, <3>1
    <3>3. QED
      BY <3>2
  <2>3. QED
    BY <1>3, <2>1, <2>2 DEF MessageOf
<1>12. QED
  BY <1>6, <1>8, <1>10, <1>11

\* A payload that arrives completes the next message.
LEMMA CountOfPayload ==
    ASSUME IInv, Counted, PayloadArrives
    PROVE  Counted'
<1>1. /\ rpc = "payload" /\ need = 0 /\ received' = Append(received, bytes)
      /\ rpc' = "idle" /\ bytes' = <<>> /\ UNCHANGED <<stream, taken>>
  BY DEF PayloadArrives, Await
<1> SUFFICES ASSUME ~Torn PROVE Counted'
  BY <1>1, StreamStays, CountedMeans
<1>2. Start' = taken
  <2>1. taken - Len(<<>>) = taken
    BY BytesFacts
  <2>2. QED
    BY <1>1, <2>1 DEF Start
<1>3. /\ Cardinality(EndsIn(stream, taken)) = Len(received) + 1
      /\ Len(received) + 1 \in 1 .. Len(WholeIn(stream))
      /\ MessageOf(bytes) = WholeIn(stream)[Len(received) + 1]
  BY <1>1, PayloadIsNext
<1>4. /\ Len(received) \in Nat /\ Len(received') = Len(received) + 1
      /\ \A k \in 1 .. Len(received) : received'[k] = received[k]
      /\ received'[Len(received) + 1] = bytes
  <2>1. received \in Seq(Seq(Cells)) /\ bytes \in Seq(Cells)
    BY DEF IInv, TypeOK
  <2>2. QED
    BY <1>1, <2>1, AppendProperties
<1>5. WholeIn(stream) \in Seq(Messages)
  BY WholeFacts DEF IInv, TypeOK
<1>6. ASSUME NEW k \in 1 .. Len(received')
      PROVE  k \in DOMAIN WholeIn(stream) /\ MessageOf(received'[k]) = WholeIn(stream)[k]
  <2>1. CASE k = Len(received) + 1
    BY <2>1, <1>3, <1>4, <1>5
  <2>2. CASE k \in 1 .. Len(received)
    BY <2>2, <1>4, CountedMeans
  <2>3. QED
    BY <1>4, <2>1, <2>2
<1>7. QED
  BY <1>1, <1>2, <1>3, <1>4, <1>6, CountedMeans

\* Every step keeps what has been received in step with what was written.
LEMMA PipeInductive == IInv /\ PipeInv /\ [Next]_vars => PipeInv'
<1> SUFFICES ASSUME IInv, PipeInv, [Next]_vars PROVE PipeInv'
  OBVIOUS
<1>1. Counted /\ AtEnd
  BY DEF PipeInv
<1>2. ASSUME UNCHANGED <<stream, taken, rvars>> PROVE Counted'
  <2>1. UNCHANGED <<rpc, bytes, received>> /\ Start' = Start
    BY <1>2 DEF rvars, Start
  <2>2. QED
    BY <1>1, <1>2, <2>1, CountStays, CountedMeans, StreamStays
<1>3. ASSUME NEW why, EndRead(why) PROVE Counted'
  BY <1>1, <1>3, CountStays DEF EndRead
<1>4. ASSUME conn' = conn \/ conn = "open", rpc' # "ended" \/ (rpc' = rpc /\ status' = status)
      PROVE  AtEnd'
  BY <1>1, <1>4 DEF AtEnd
<1>5. ASSUME NEW why, EndRead(why), why = "end_of_file" => conn = "closed" PROVE AtEnd'
  BY <1>5 DEF EndRead, AtEnd
<1>6. ASSUME NEW w \in Writers, Write(w) PROVE PipeInv'
  <2>1. CASE PutCells(w)
    <3>1. Counted'
      BY <1>1, <2>1, CountOfMore
    <3>2. UNCHANGED <<conn, rpc, status>>
      BY <2>1 DEF PutCells, rvars
    <3>3. QED
      BY <1>4, <3>1, <3>2 DEF PipeInv
  <2>2. CASE PollOut(w) \/ BeginWrite(w) \/ WriteHungUp(w) \/ WriteFallsShort(w)
             \/ WriteRaisesSigpipe(w)
    <3>1. UNCHANGED <<stream, taken, rvars>> /\ conn = "open"
      BY <2>2 DEF PollOut, BeginWrite, WriteHungUp, WriteFallsShort, WriteRaisesSigpipe
    <3>2. UNCHANGED <<rpc, status>>
      BY <3>1 DEF rvars
    <3>3. QED
      BY <1>2, <1>4, <3>1, <3>2 DEF PipeInv
  <2>3. QED
    BY <1>6, <2>1, <2>2 DEF Write
<1>7. CASE PollIn
  <2>1. /\ rpc = "idle" /\ rpc' = "header" /\ bytes' = <<>>
        /\ UNCHANGED <<stream, taken, conn, received>>
    BY <1>7 DEF PollIn, Await
  <2>2. ~Torn => Start' = Start
    BY <2>1 DEF IInv, InPlace, Start
  <2>3. QED
    BY <1>1, <1>4, <2>1, <2>2, CountStays DEF PipeInv
<1>8. CASE RecvSome
  <2>1. UNCHANGED <<stream, conn, rpc, received, status>> /\ rpc # "ended"
    BY <1>8 DEF RecvSome
  <2>2. Start' = Start
    BY <1>8, MoreArrives
  <2>3. QED
    BY <1>1, <1>4, <2>1, <2>2, CountStays DEF PipeInv
<1>9. CASE HeaderArrives
  <2>1. conn' = conn /\ rpc' = "payload"
    BY <1>9 DEF HeaderArrives, Await
  <2>2. QED
    BY <1>1, <1>4, <1>9, <2>1, CountOfHeader DEF PipeInv
<1>10. CASE PayloadArrives
  <2>1. conn' = conn /\ rpc' = "idle"
    BY <1>10 DEF PayloadArrives, Await
  <2>2. QED
    BY <1>1, <1>4, <1>10, <2>1, CountOfPayload DEF PipeInv
<1>11. CASE ReadHungUp \/ ReadTimesOut \/ CloseReader \/ HeaderIsInvalid
  <2>1. EndRead("hung_up") \/ EndRead("time_out") \/ EndRead("closed") \/ EndRead("invalid_header")
    BY <1>11 DEF ReadHungUp, ReadTimesOut, CloseReader, HeaderIsInvalid
  <2>2. QED
    BY <1>3, <1>5, <2>1 DEF PipeInv
<1>12. CASE RecvEnds
  <2>1. (EndRead("end_of_file") /\ conn = "closed") \/ EndRead("errno")
    BY <1>12 DEF RecvEnds
  <2>2. QED
    BY <1>3, <1>5, <2>1 DEF PipeInv
<1>13. CASE ResetArrives \/ CloseWriters
  <2>1. UNCHANGED <<stream, taken, rvars>> /\ conn = "open"
    BY <1>13 DEF ResetArrives, CloseWriters
  <2>2. UNCHANGED <<rpc, status>>
    BY <2>1 DEF rvars
  <2>3. QED
    BY <1>2, <1>4, <2>1, <2>2 DEF PipeInv
<1>14. CASE UNCHANGED vars
  <2>1. UNCHANGED <<stream, taken, conn, rvars>>
    BY <1>14 DEF vars
  <2>2. UNCHANGED <<rpc, status>>
    BY <2>1 DEF rvars
  <2>3. QED
    BY <1>2, <1>4, <2>1, <2>2 DEF PipeInv
<1>15. QED
  BY <1>6, <1>7, <1>8, <1>9, <1>10, <1>11, <1>12, <1>13, <1>14 DEF Next, Read

\* What Pipe's variables stand for.
Got == [k \in 1 .. Len(received) |-> MessageOf(received[k])]
Mapped == <<Whole, Got, Ended, Torn>>

\* The pipe's variables, as this module has them.
LEMMA PipeVars ==
    /\ Pipe!vars = Mapped /\ Pipe!vars' = Mapped'
    /\ Torn \in BOOLEAN /\ Torn' \in BOOLEAN
BY DEF Pipe!vars, Mapped, Got, Torn

\* Once messages are torn, the pipe promises nothing.
LEMMA TornStep ==
    ASSUME Torn'
    PROVE  Pipe!Next
BY DEF Pipe!Next

\* The pipe does not see what only a header, or a part of a message, changes.
LEMMA PipeStays ==
    ASSUME UNCHANGED <<stream, rpc, status, received>>, IInv
    PROVE  Pipe!vars' = Pipe!vars
<1>1. Torn' = Torn
  BY StreamStays, PipeVars
<1>2. Whole' = Whole
  BY WholeOfStream
<1>3. Got' = Got
  BY DEF Got, MessageOf
<1>4. Ended' = Ended
  BY DEF Ended
<1>5. QED
  BY <1>1, <1>2, <1>3, <1>4, PipeVars DEF Mapped

\* Every step is one of the pipe's, or none for it.
LEMMA StepIsOfPipe ==
    ASSUME IInv, PipeInv, [Next]_vars
    PROVE  [Pipe!Next]_(Pipe!vars)
<1>1. Counted /\ AtEnd
  BY DEF PipeInv
<1> SUFFICES ASSUME ~Torn' PROVE [Pipe!Next]_(Pipe!vars)
  BY TornStep
<1>2. stream \in Seq(Cells) /\ received \in Seq(Seq(Cells)) /\ Len(received) \in Nat
  BY DEF IInv, TypeOK
<1>3. ASSUME NEW w \in Writers, PutCells(w) PROVE [Pipe!Next]_(Pipe!vars)
  <2>1. conn = "open" /\ UNCHANGED <<rpc, status, received>>
    BY <1>3 DEF PutCells, rvars
  <2>2. Got' = Got /\ Ended' = Ended
    BY <2>1 DEF Got, Ended, MessageOf
  <2>3. Torn' = Torn
    <3>1. /\ stream' \in Seq(Cells) /\ Len(stream') = Len(stream) + Copied(w)
          /\ Copied(w) \in 1 .. Room /\ Room \in 1 .. Capacity
          /\ \A i \in 1 .. Len(stream) : stream'[i] = stream[i]
      BY <1>3, PutsNextCells
    <3>2. Len(stream) \in Nat /\ Capacity \in Nat
      BY <1>2, ChannelAssumption
    <3>3. Len(stream) <= Len(stream')
      BY <3>1, <3>2
    <3>4. ~Torn
      BY <1>2, <3>1, <3>3, TornStays
    <3>5. QED
      BY <3>4, PipeVars
  <2>4. CASE Whole' = Whole
    BY <2>2, <2>3, <2>4, PipeVars DEF Mapped
  <2>5. CASE Whole' = Append(Whole, Writing(w)) /\ Writing(w) \in Messages
    <3>1. Ended # "eof"
      BY <1>1, <2>1 DEF Ended, AtEnd
    <3>2. Pipe!Send(Writing(w))
      BY <2>2, <2>3, <2>5, <3>1 DEF Pipe!Send, Got
    <3>3. QED
      BY <2>5, <3>2 DEF Pipe!Next
  <2>6. QED
    BY <1>3, <2>4, <2>5, WritesWhole
<1>4. ASSUME NEW w \in Writers, Write(w) PROVE [Pipe!Next]_(Pipe!vars)
  <2>1. CASE PollOut(w) \/ BeginWrite(w) \/ WriteHungUp(w) \/ WriteFallsShort(w)
             \/ WriteRaisesSigpipe(w)
    BY <2>1, PipeStays
       DEF PollOut, BeginWrite, WriteHungUp, WriteFallsShort, WriteRaisesSigpipe, rvars
  <2>2. QED
    BY <1>3, <1>4, <2>1 DEF Write
<1>5. CASE PollIn \/ RecvSome \/ HeaderArrives
  <2>1. UNCHANGED <<stream, status, received>> /\ rpc # "ended" /\ rpc' # "ended"
    BY <1>5 DEF PollIn, RecvSome, HeaderArrives, Await
  <2>2. Torn' = Torn
    BY <2>1, StreamStays, PipeVars
  <2>3. Whole' = Whole
    BY <2>1, WholeOfStream
  <2>4. Got' = Got /\ Ended' = Ended
    BY <2>1 DEF Got, MessageOf, Ended
  <2>5. QED
    BY <2>2, <2>3, <2>4, PipeVars DEF Mapped
<1>6. CASE PayloadArrives
  <2>1. /\ rpc = "payload" /\ rpc' = "idle" /\ need = 0
        /\ received' = Append(received, bytes) /\ UNCHANGED stream
    BY <1>6 DEF PayloadArrives, Await
  <2>2. ~Torn /\ Torn' = Torn /\ Whole' = Whole
    BY <2>1, StreamStays, PipeVars, WholeOfStream
  <2>3. /\ Len(received) + 1 \in 1 .. Len(Whole)
        /\ MessageOf(bytes) = Whole[Len(received) + 1]
    BY <1>1, <2>1, <2>2, PayloadIsNext, WholeOfStream
  <2>4. /\ Len(received') = Len(received) + 1
        /\ \A k \in 1 .. Len(received) : received'[k] = received[k]
        /\ received'[Len(received) + 1] = bytes
    <3>1. bytes \in Seq(Cells)
      BY DEF IInv, TypeOK
    <3>2. QED
      BY <1>2, <2>1, <3>1, AppendProperties
  <2>5. Len(Got) = Len(received)
    BY <1>2 DEF Got
  <2>6. Got' = Append(Got, Whole[Len(Got) + 1])
    <3>1. Got' = [k \in 1 .. Len(received) + 1 |-> MessageOf(received'[k])]
      BY <2>4 DEF Got, MessageOf
    <3> DEFINE S == {MessageOf(received'[k]) : k \in 1 .. Len(received')}
               x == MessageOf(bytes)
    <3>2. Got' \in Seq(S) /\ Len(Got') = Len(received) + 1 /\ x \in S
      BY <1>2, <2>4, <3>1
    <3>3. \A k \in 1 .. Len(received) : Got[k] \in S /\ Got[k] = Got'[k]
      BY <1>2, <2>4, <3>1 DEF Got
    <3>4. Got \in Seq(S)
      <4>1. Got = [k \in 1 .. Len(received) |-> Got[k]]
        BY DEF Got
      <4> HIDE DEF S
      <4>2. QED
        BY <1>2, <3>3, <4>1
    <3>5. Got'[Len(received) + 1] = x
      BY <1>2, <2>4, <3>1
    <3> HIDE DEF S, x
    <3>6. /\ Append(Got, x) \in Seq(S) /\ Len(Append(Got, x)) = Len(received) + 1
          /\ \A k \in 1 .. Len(received) : Append(Got, x)[k] = Got[k]
          /\ Append(Got, x)[Len(received) + 1] = x
      BY <1>2, <2>5, <3>2, <3>4, AppendProperties
    <3>7. ASSUME NEW k \in 1 .. Len(received) + 1 PROVE Got'[k] = Append(Got, x)[k]
      <4>1. CASE k = Len(received) + 1
        BY <4>1, <3>5, <3>6
      <4>2. CASE k \in 1 .. Len(received)
        BY <4>2, <3>3, <3>6
      <4>3. Len(received) \in Nat
        BY <1>2
      <4>4. k = Len(received) + 1 \/ k \in 1 .. Len(received)
        BY <4>3
      <4>5. QED
        BY <4>1, <4>2, <4>4
    <3>8. Got' = Append(Got, x)
      BY <3>2, <3>6, <3>7, SeqEqual
    <3>9. QED
      BY <2>3, <2>5, <3>8 DEF x
  <2>7. Ended = "no" /\ Ended' = "no"
    BY <2>1 DEF Ended
  <2>8. Len(Got) < Len(Whole)
    <3>1. Len(Whole) \in Nat
      BY <1>2, WholeFacts, WholeOfStream
    <3>2. QED
      BY <1>2, <2>3, <2>5, <3>1
  <2>9. Pipe!Receive
    BY <2>2, <2>6, <2>7, <2>8 DEF Pipe!Receive, Got
  <2>10. QED
    BY <2>9 DEF Pipe!Next
<1>7. ASSUME NEW why, EndRead(why), why # "end_of_file", rpc # "ended" PROVE Pipe!Next
  <2>1. UNCHANGED <<stream, received>> /\ rpc' = "ended" /\ status' # "end_of_file"
    BY <1>7 DEF EndRead
  <2>2. Torn' = Torn /\ Whole' = Whole /\ Got' = Got
    BY <2>1, StreamStays, PipeVars, WholeOfStream DEF Got, MessageOf
  <2>3. Ended = "no" /\ Ended' = "lost"
    BY <1>7, <2>1 DEF Ended
  <2>4. Pipe!Fail
    BY <2>2, <2>3 DEF Pipe!Fail, Got
  <2>5. QED
    BY <2>4 DEF Pipe!Next
<1>8. CASE ReadHungUp \/ ReadTimesOut \/ CloseReader \/ HeaderIsInvalid
  <2>1. rpc # "ended"
    BY <1>8 DEF ReadHungUp, ReadTimesOut, CloseReader, HeaderIsInvalid
  <2>2. EndRead("hung_up") \/ EndRead("time_out") \/ EndRead("closed") \/ EndRead("invalid_header")
    BY <1>8 DEF ReadHungUp, ReadTimesOut, CloseReader, HeaderIsInvalid
  <2>3. QED
    BY <1>7, <2>1, <2>2
<1>9. CASE RecvEnds
  <2>1. rpc # "ended" /\ Available = 0
    BY <1>9 DEF RecvEnds
  <2>2. CASE EndRead("errno")
    BY <1>7, <2>1, <2>2
  <2>3. CASE EndRead("end_of_file") /\ bytes = <<>>
    <3>1. UNCHANGED <<stream, received>> /\ rpc' = "ended" /\ status' = "end_of_file"
      BY <2>3 DEF EndRead
    <3>2. ~Torn /\ Torn' = Torn /\ Whole' = Whole /\ Got' = Got
      BY <3>1, StreamStays, PipeVars, WholeOfStream DEF Got, MessageOf
    <3>3. Start = Len(stream)
      <4>1. Len(stream) \in Nat /\ taken \in Nat /\ Len(bytes) = 0 /\ taken = Start + Len(bytes)
              /\ Start \in Nat
        BY <2>3, BytesFacts
      <4>2. Len(stream) - taken = 0
        BY <2>1 DEF Available
      <4>3. QED
        BY <4>1, <4>2
    <3>4. /\ Cardinality(EndsIn(stream, Len(stream))) = Len(received)
          /\ \A k \in 1 .. Len(received) : MessageOf(received[k]) = WholeIn(stream)[k]
      BY <1>1, <2>1, <3>2, <3>3, CountedMeans
    <3>5. Got = Whole
      <4>1. Whole = [k \in 1 .. Len(received) |-> WholeIn(stream)[k]]
        <5>1. WholeIn(stream) \in Seq(Messages) /\ Len(WholeIn(stream)) = Len(received)
          BY <1>2, <3>4, WholeFacts
        <5>2. Whole = WholeIn(stream)
          BY WholeOfStream
        <5>3. QED
          BY <5>1, <5>2
      <4>2. QED
        BY <3>4, <4>1 DEF Got
    <3>6. Ended = "no" /\ Ended' = "eof"
      BY <2>1, <3>1 DEF Ended
    <3>7. Pipe!EndOfFile
      BY <3>2, <3>5, <3>6 DEF Pipe!EndOfFile, Got
    <3>8. QED
      BY <3>7 DEF Pipe!Next
  <2>4. QED
    BY <1>9, <2>2, <2>3 DEF RecvEnds
<1>10. CASE ResetArrives \/ CloseWriters \/ UNCHANGED vars
  BY <1>10, PipeStays DEF ResetArrives, CloseWriters, vars, rvars
<1>11. QED
  BY <1>4, <1>5, <1>6, <1>8, <1>9, <1>10 DEF Next, Read

\* A Channel is a pipe of messages.  Whatever the writers do at the same time and
\* however the bytes are split, what Channel::read returns is what was given to
\* Channel::write, message by message, and an end of file comes after the last:
\* for as long as no two writes are torn.
THEOREM Refinement == Spec => ImplementsPipe
<1>1. Init => Pipe!Init
  <2> SUFFICES ASSUME Init PROVE Pipe!Init
    OBVIOUS
  <2>1. stream = <<>> /\ received = <<>> /\ rpc = "idle"
    BY DEF Init
  <2>2. Len(stream) = 0 /\ Len(received) = 0 /\ stream \in Seq(Cells)
    BY <2>1
  <2>3. Whole = <<>>
    <3>1. EndsIn(stream, Len(stream)) = {}
      BY <2>2 DEF EndsIn
    <3>2. WholeIn(stream) \in Seq(Messages) /\ Len(WholeIn(stream)) = 0
      BY <2>2, <3>1, WholeFacts, FS_EmptySet
    <3>3. QED
      BY <3>2, WholeOfStream
  <2>4. Got = <<>>
    BY <2>2 DEF Got
  <2>5. Ended = "no"
    BY <2>1 DEF Ended
  <2>6. Torn = FALSE
    BY <2>2 DEF Torn
  <2>7. QED
    BY <2>3, <2>4, <2>5, <2>6 DEF Pipe!Init, Got
<1>2. Init => PipeInv
  BY InitPipeInv
<1>3. IInv /\ PipeInv /\ [Next]_vars => PipeInv'
  BY PipeInductive
<1>4. IInv /\ PipeInv /\ [Next]_vars => [Pipe!Next]_(Pipe!vars)
  BY StepIsOfPipe
<1>5. QED
  BY <1>1, <1>2, <1>3, <1>4, InvariantHolds, PTL DEF Spec, ImplementsPipe, Pipe!Spec
=============================================================================
