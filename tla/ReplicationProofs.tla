-------------------------- MODULE ReplicationProofs -------------------------
(***************************************************************************)
(* Proofs about the replication of the drawing, for any clients and any    *)
(* payloads pushed in any order of handlers and timers.                    *)
(***************************************************************************)
EXTENDS Replication, NaturalSets, SequenceTheorems, TLAPS

\* A client has a handler exactly while it is registered.
Registered == \A c \in Clients : hpc[c] # "none" <=> c \in connections

\* The updater is at work on the last payload it applied, and whom it has yet
\* to write to is of interest only during the broadcast.
InHand ==
    /\ upc # "waiting" => applied # <<>> /\ payload = Last(applied)
    /\ upc # "broadcasting" => unsent = {}

\* The newest payload is the last that is queued, or the queue is empty and it
\* was applied.
NewestIsLast ==
    IF queue # <<>> THEN pushed > 0 /\ Last(queue) = Pushes[pushed]
    ELSE pushed > 0 => Pushes[pushed] \in ToSet(applied)

\* A payload behind which none was pushed is alone in the queue.
Prompt == ~overtaken => Len(queue) <= 1

IInv ==
    /\ TypeOK /\ Registered /\ InHand /\ NewestIsLast /\ Prompt
    /\ PromptUpdaterIsFIFO /\ ReplicaRepeatsAtMostOne
-----------------------------------------------------------------------------
(* Messages *)

\* To append to a concatenation is to append to its second part.
LEMMA AppendToConcat ==
    ASSUME NEW s \in Logs, NEW t \in Logs, NEW p \in Payloads
    PROVE  Append(s \o t, p) = s \o Append(t, p)
<1>1. Append(t, p) = t \o <<p>> /\ Append(s \o t, p) = (s \o t) \o <<p>>
  BY AppendIsConcat, ConcatProperties DEF Logs
<1>2. <<p>> \in Logs
  BY DEF Logs
<1>3. QED
  BY <1>1, <1>2, ConcatAssociative DEF Logs

ListAt(messages) == SelectLastInSeq(messages, IsList)

\* ListAt is the position of the last list, or 0 if there is none.
LEMMA ListAtProperties ==
    ASSUME NEW messages \in Seq(Messages)
    PROVE  /\ ListAt(messages) \in 0 .. Len(messages)
           /\ ListAt(messages) > 0 => IsList(messages[ListAt(messages)])
           /\ \A j \in ListAt(messages) + 1 .. Len(messages) : ~IsList(messages[j])
<1> DEFINE lists == {i \in 1 .. Len(messages) : IsList(messages[i])}
           n == Max(lists)
<1>1. ListAt(messages) = IF lists # {} THEN n ELSE 0
  BY DEF ListAt, SelectLastInSeq
<1>2. CASE lists = {}
  BY <1>1, <1>2
<1>3. CASE lists # {}
  <2>1. \E x \in lists : \A y \in lists : x >= y
    <3>1. lists \subseteq 0 .. Len(messages) /\ Len(messages) \in Nat
      OBVIOUS
    <3> HIDE DEF lists
    <3>2. QED
      BY <3>1, <1>3, GreatestNatural
  <2>2. n \in lists /\ \A j \in lists : n >= j
    <3> HIDE DEF lists
    <3>1. QED
      BY <2>1 DEF Max
  <2>3. ListAt(messages) = n
    BY <1>1, <1>3
  <2> HIDE DEF n
  <2>4. QED
    BY <2>2, <2>3
<1>4. QED
  BY <1>2, <1>3

\* And it is the only such position.
LEMMA ListAtUnique ==
    ASSUME NEW messages \in Seq(Messages), NEW n \in 0 .. Len(messages),
           n > 0 => IsList(messages[n]),
           \A j \in n + 1 .. Len(messages) : ~IsList(messages[j])
    PROVE  ListAt(messages) = n
<1> DEFINE k == ListAt(messages)
<1>1. /\ k \in 0 .. Len(messages)
      /\ k > 0 => IsList(messages[k])
      /\ \A j \in k + 1 .. Len(messages) : ~IsList(messages[j])
  BY ListAtProperties
<1> HIDE DEF k
<1>2. ~(k < n)
  BY <1>1
<1>3. ~(n < k)
  BY <1>1
<1>4. QED
  BY <1>1, <1>2, <1>3 DEF k

Base(log, messages) ==
    IF ListAt(messages) = 0 THEN log ELSE messages[ListAt(messages)].log

Behind(messages) ==
    [i \in 1 .. Len(messages) - ListAt(messages) |-> messages[ListAt(messages) + i].payload]

\* AfterMessages by its two parts.
LEMMA AfterMessagesParts ==
    ASSUME NEW log \in Logs, NEW messages \in Seq(Messages)
    PROVE  /\ AfterMessages(log, messages) = Base(log, messages) \o Behind(messages)
           /\ Base(log, messages) \in Logs /\ Behind(messages) \in Logs
           /\ Len(Behind(messages)) = Len(messages) - ListAt(messages)
           /\ AfterMessages(log, messages) \in Logs
<1>1. AfterMessages(log, messages) = Base(log, messages) \o Behind(messages)
  BY DEF AfterMessages, Base, Behind, ListAt
<1> DEFINE n == ListAt(messages)
<1>2. /\ n \in 0 .. Len(messages)
      /\ n > 0 => IsList(messages[n])
      /\ \A j \in n + 1 .. Len(messages) : ~IsList(messages[j])
  BY ListAtProperties
<1> HIDE DEF n
<1>3. \A j \in 1 .. Len(messages) : messages[j] \in Messages
  OBVIOUS
<1>4. Base(log, messages) \in Logs
  BY <1>2, <1>3 DEF Base, n, Messages, IsList
<1>5. \A i \in 1 .. Len(messages) - n : messages[n + i].payload \in Payloads
  <2> SUFFICES ASSUME NEW i \in 1 .. Len(messages) - n
               PROVE  messages[n + i].payload \in Payloads
    OBVIOUS
  <2>1. n + i \in n + 1 .. Len(messages) /\ n + i \in 1 .. Len(messages)
    BY <1>2
  <2>2. QED
    BY <2>1, <1>2, <1>3 DEF Messages, IsList
<1>6. Behind(messages) \in Logs /\ Len(Behind(messages)) = Len(messages) - n
  <2>1. Len(messages) - n \in Nat
    BY <1>2
  <2>2. Behind(messages) = [i \in 1 .. Len(messages) - n |-> messages[n + i].payload]
    BY DEF Behind, n
  <2>3. QED
    BY <2>1, <2>2, <1>5 DEF Logs
<1>7. QED
  BY <1>1, <1>4, <1>6, ConcatProperties DEF n, Logs

\* An update that is sent is the last that will be made.
LEMMA UpdateComesLast ==
    ASSUME NEW log \in Logs, NEW messages \in Seq(Messages), NEW p \in Payloads
    PROVE  AfterMessages(log, Append(messages, UpdateMessage(p)))
              = Append(AfterMessages(log, messages), p)
<1> DEFINE longer == Append(messages, UpdateMessage(p))
           n == ListAt(messages)
<1>1. /\ longer \in Seq(Messages) /\ Len(longer) = Len(messages) + 1
      /\ \A j \in 1 .. Len(messages) : longer[j] = messages[j]
      /\ longer[Len(messages) + 1] = UpdateMessage(p)
  BY DEF Messages, UpdateMessage
<1>2. /\ n \in 0 .. Len(messages)
      /\ n > 0 => IsList(messages[n])
      /\ \A j \in n + 1 .. Len(messages) : ~IsList(messages[j])
  BY ListAtProperties
<1> HIDE DEF longer, n
<1>3. ListAt(longer) = n
  <2>1. ~IsList(longer[Len(messages) + 1])
    BY <1>1 DEF IsList, UpdateMessage
  <2>2. n \in 0 .. Len(longer) /\ (n > 0 => IsList(longer[n]))
    BY <1>1, <1>2
  <2>3. \A j \in n + 1 .. Len(longer) : ~IsList(longer[j])
    BY <1>1, <1>2, <2>1
  <2>4. QED
    BY <1>1, <2>2, <2>3, ListAtUnique
<1>4. Base(log, longer) = Base(log, messages)
  BY <1>1, <1>2, <1>3 DEF Base, n
<1>5. Behind(longer) = Append(Behind(messages), p)
  <2>1. Len(longer) - n = (Len(messages) - n) + 1 /\ Len(messages) - n \in Nat
    BY <1>1, <1>2
  <2>2. /\ Behind(longer) \in Logs /\ Behind(messages) \in Logs
        /\ Len(Behind(longer)) = Len(messages) - n + 1
        /\ Len(Behind(messages)) = Len(messages) - n
    BY <1>1, <1>3, <2>1, AfterMessagesParts DEF n
  <2>3. \A i \in 1 .. Len(messages) - n + 1 : Behind(longer)[i] = longer[n + i].payload
    BY <1>3, <2>1 DEF Behind
  <2>4. \A i \in 1 .. Len(messages) - n : Behind(messages)[i] = messages[n + i].payload
    BY DEF Behind, n
  <2>5. \A i \in 1 .. Len(messages) - n + 1 :
           Behind(longer)[i] = Append(Behind(messages), p)[i]
    <3> SUFFICES ASSUME NEW i \in 1 .. Len(messages) - n + 1
                 PROVE  Behind(longer)[i] = Append(Behind(messages), p)[i]
      OBVIOUS
    <3>1. CASE i = Len(messages) - n + 1
      <4>1. Behind(longer)[i] = p
        BY <3>1, <1>1, <1>2, <2>3 DEF UpdateMessage
      <4>2. Append(Behind(messages), p)[i] = p
        BY <3>1, <2>2, AppendProperties DEF Logs
      <4>3. QED
        BY <4>1, <4>2
    <3>2. CASE i \in 1 .. Len(messages) - n
      <4>1. n + i \in 1 .. Len(messages)
        BY <3>2, <1>2
      <4>2. Behind(longer)[i] = Behind(messages)[i]
        BY <3>2, <4>1, <1>1, <2>3, <2>4
      <4>3. Append(Behind(messages), p)[i] = Behind(messages)[i]
        BY <3>2, <2>2, AppendProperties DEF Logs
      <4>4. QED
        BY <4>2, <4>3
    <3>3. i = Len(messages) - n + 1 \/ i \in 1 .. Len(messages) - n
      BY <2>1
    <3>4. QED
      BY <3>1, <3>2, <3>3
  <2>6. Append(Behind(messages), p) \in Logs
         /\ Len(Append(Behind(messages), p)) = Len(messages) - n + 1
    BY <2>2, AppendProperties DEF Logs
  <2>7. QED
    BY <2>2, <2>5, <2>6, SeqEqual DEF Logs
<1>6. QED
  <2>1. AfterMessages(log, longer) = Base(log, messages) \o Append(Behind(messages), p)
    BY <1>1, <1>4, <1>5, AfterMessagesParts
  <2>2. Base(log, messages) \o Append(Behind(messages), p)
           = Append(Base(log, messages) \o Behind(messages), p)
    BY AfterMessagesParts, AppendToConcat
  <2>3. QED
    BY <2>1, <2>2, AfterMessagesParts DEF longer

\* A list that is sent is all that will remain.
LEMMA ListReplaces ==
    ASSUME NEW log \in Logs, NEW messages \in Seq(Messages), NEW list \in Logs
    PROVE  AfterMessages(log, Append(messages, ListMessage(list))) = list
<1> DEFINE longer == Append(messages, ListMessage(list))
           n == Len(messages) + 1
<1>1. longer \in Seq(Messages) /\ Len(longer) = n /\ longer[n] = ListMessage(list)
  BY DEF Messages, ListMessage
<1> HIDE DEF longer
<1>2. ListAt(longer) = n
  BY <1>1, ListAtUnique DEF IsList, ListMessage
<1>3. Base(log, longer) = list
  BY <1>1, <1>2 DEF Base, ListMessage
<1>4. Behind(longer) = <<>>
  BY <1>1, <1>2, AfterMessagesParts DEF Logs
<1>5. AfterMessages(log, longer) = list
  <2>1. AfterMessages(log, longer) = list \o <<>>
    BY <1>1, <1>3, <1>4, AfterMessagesParts
  <2>2. QED
    BY <2>1, ConcatEmptySeq DEF Logs
<1>6. QED
  BY <1>5 DEF longer

\* To read a message changes nothing: AfterMessages is what becomes of the
\* vector when the messages are read one by one.
LEMMA ReadingIsExpected ==
    ASSUME NEW log \in Logs, NEW messages \in Seq(Messages), messages # <<>>
    PROVE  /\ AfterMessage(log, Head(messages)) \in Logs
           /\ AfterMessages(AfterMessage(log, Head(messages)), Tail(messages))
                 = AfterMessages(log, messages)
<1> DEFINE rest == Tail(messages)
           read == AfterMessage(log, Head(messages))
           n == ListAt(messages)
<1>1. /\ rest \in Seq(Messages) /\ Len(rest) = Len(messages) - 1
      /\ Head(messages) = messages[1] /\ Head(messages) \in Messages
      /\ \A j \in 1 .. Len(messages) - 1 : rest[j] = messages[j + 1]
  BY HeadTailProperties
<1>2. /\ n \in 0 .. Len(messages)
      /\ n > 0 => IsList(messages[n])
      /\ \A j \in n + 1 .. Len(messages) : ~IsList(messages[j])
  BY ListAtProperties
<1> HIDE DEF rest, n
<1>3. read \in Logs
  BY <1>1 DEF AfterMessage, Messages, Logs
<1> SUFFICES AfterMessages(read, rest) = AfterMessages(log, messages)
  BY <1>3 DEF rest
<1>4. CASE n = 0
  <2>1. ListAt(rest) = 0
    <3>1. \A j \in 1 .. Len(rest) : ~IsList(rest[j])
      BY <1>1, <1>2, <1>4
    <3>2. QED
      BY <1>1, <3>1, ListAtUnique
  <2>2. read = Append(log, messages[1].payload)
    BY <1>1, <1>2, <1>4 DEF AfterMessage, IsList
  <2>3. messages[1].payload \in Payloads
    BY <1>1, <1>2, <1>4 DEF Messages, IsList
  <2>4. /\ AfterMessages(read, rest) = read \o Behind(rest)
        /\ Behind(rest) \in Logs /\ Len(Behind(rest)) = Len(messages) - 1
    <3>1. Base(read, rest) = read
      BY <2>1 DEF Base
    <3> HIDE DEF read
    <3>2. AfterMessages(read, rest) = Base(read, rest) \o Behind(rest)
      BY <1>1, <1>3, AfterMessagesParts
    <3>3. Behind(rest) \in Logs /\ Len(Behind(rest)) = Len(rest) - 0
      BY <1>1, <2>1, AfterMessagesParts
    <3>4. Len(Behind(rest)) = Len(messages) - 1
      BY <1>1, <3>3
    <3>5. QED
      BY <3>1, <3>2, <3>3, <3>4
  <2>5. /\ AfterMessages(log, messages) = log \o Behind(messages)
        /\ Behind(messages) \in Logs /\ Len(Behind(messages)) = Len(messages)
    <3>1. Base(log, messages) = log
      BY <1>4 DEF Base, n
    <3>2. Behind(messages) \in Logs /\ Len(Behind(messages)) = Len(messages) - 0
      BY <1>4, AfterMessagesParts DEF n
    <3>3. AfterMessages(log, messages) = Base(log, messages) \o Behind(messages)
      BY AfterMessagesParts
    <3>4. QED
      BY <3>1, <3>2, <3>3
  <2>6. Behind(messages) = <<messages[1].payload>> \o Behind(rest)
    <3>1. \A i \in 1 .. Len(messages) - 1 : Behind(rest)[i] = messages[i + 1].payload
      BY <1>1, <2>1 DEF Behind
    <3>2. \A i \in 1 .. Len(messages) : Behind(messages)[i] = messages[i].payload
      BY <1>4 DEF Behind, n
    <3>3. <<messages[1].payload>> \in Logs /\ Len(<<messages[1].payload>>) = 1
      BY <2>3 DEF Logs
    <3>4. /\ <<messages[1].payload>> \o Behind(rest) \in Logs
          /\ Len(<<messages[1].payload>> \o Behind(rest)) = Len(messages)
          /\ \A i \in 1 .. Len(messages) :
                (<<messages[1].payload>> \o Behind(rest))[i]
                   = IF i <= 1 THEN messages[1].payload ELSE Behind(rest)[i - 1]
      BY <2>4, <3>3, ConcatProperties DEF Logs
    <3>5. \A i \in 1 .. Len(messages) :
             Behind(messages)[i] = (<<messages[1].payload>> \o Behind(rest))[i]
      BY <3>1, <3>2, <3>4
    <3>6. QED
      BY <2>5, <3>4, <3>5, SeqEqual DEF Logs
  <2>7. read = log \o <<messages[1].payload>>
    BY <2>2, <2>3, AppendIsConcat DEF Logs
  <2>8. QED
    <3>1. <<messages[1].payload>> \in Logs
      BY <2>3 DEF Logs
    <3> HIDE DEF read
    <3>2. QED
      BY <3>1, <2>4, <2>5, <2>6, <2>7, ConcatAssociative DEF Logs
<1>5. CASE n > 0
  <2>1. CASE n = 1
    <3>1. ListAt(rest) = 0
      <4>1. \A j \in 1 .. Len(rest) : ~IsList(rest[j])
        BY <1>1, <1>2, <2>1
      <4>2. QED
        BY <1>1, <4>1, ListAtUnique
    <3>2. Base(read, rest) = Base(log, messages)
      BY <1>1, <1>2, <2>1, <3>1 DEF Base, n, AfterMessage, IsList
    <3>3. Behind(rest) = Behind(messages)
      BY <1>1, <1>2, <2>1, <3>1 DEF Behind, n
    <3>4. QED
      BY <1>1, <1>3, <3>2, <3>3, AfterMessagesParts
  <2>2. CASE n > 1
    <3>1. ListAt(rest) = n - 1
      <4>1. \A j \in n .. Len(rest) : ~IsList(rest[j])
        BY <1>1, <1>2, <2>2
      <4>2. n - 1 \in 0 .. Len(rest) /\ (n - 1 > 0 => IsList(rest[n - 1]))
        BY <1>1, <1>2, <2>2
      <4>3. QED
        BY <1>1, <1>2, <4>1, <4>2, ListAtUnique
    <3>2. Base(read, rest) = Base(log, messages)
      BY <1>1, <1>2, <2>2, <3>1 DEF Base, n
    <3>3. Behind(rest) = Behind(messages)
      <4>1. Len(rest) - (n - 1) = Len(messages) - n
        BY <1>1, <1>2
      <4>2. Behind(rest) = [i \in 1 .. Len(rest) - (n - 1) |-> rest[(n - 1) + i].payload]
        BY <3>1 DEF Behind
      <4>3. Behind(messages) = [i \in 1 .. Len(messages) - n |-> messages[n + i].payload]
        BY DEF Behind, n
      <4>4. \A i \in 1 .. Len(messages) - n : rest[(n - 1) + i] = messages[n + i]
        BY <1>1, <1>2, <2>2
      <4>5. QED
        BY <4>1, <4>2, <4>3, <4>4
    <3>4. QED
      BY <1>1, <1>3, <3>2, <3>3, AfterMessagesParts
  <2>3. QED
    BY <1>2, <1>5, <2>1, <2>2
<1>6. QED
  BY <1>2, <1>4, <1>5

-----------------------------------------------------------------------------
(* Logs *)

\* `log' was followed up to `due', with at most one payload made twice.
Follows(final, log, due) ==
    \/ final = SubSeq(log, 1, due)
    \/ \E k \in 1 .. Len(log) : k <= due + 1 /\ final = WithRepeat(log, k, due)

Due(c) == IF Owed(c) THEN Len(applied) - 1 ELSE Len(applied)

\* The property, in terms of logs.
LEMMA FollowsIsTheProperty ==
    ReplicaRepeatsAtMostOne
       <=> \A c \in Clients : Served(c) => Follows(Final(c), applied, Due(c))
BY DEF ReplicaRepeatsAtMostOne, Follows, Due

\* What followed a log follows a longer one, which it is owed the end of.
LEMMA FollowsLonger ==
    ASSUME NEW log \in Logs, NEW p \in Payloads, NEW final, Follows(final, log, Len(log))
    PROVE  Follows(final, Append(log, p), Len(log))
<1> DEFINE longer == Append(log, p)
<1>1. longer \in Logs /\ Len(longer) = Len(log) + 1 /\ longer = log \o <<p>>
  BY AppendProperties, AppendIsConcat DEF Logs
<1>2. <<p>> \in Logs
  BY DEF Logs
<1>3. ASSUME NEW m \in 1 .. Len(log) PROVE SubSeq(longer, m, Len(log)) = SubSeq(log, m, Len(log))
  BY <1>1, <1>2, SubSeqOfConcat1 DEF Logs
<1>4. ASSUME NEW m \in 1 .. Len(log) PROVE SubSeq(longer, 1, m) = SubSeq(log, 1, m)
  BY <1>1, <1>2, SubSeqOfConcat1 DEF Logs
<1> HIDE DEF longer
<1>5. CASE final = SubSeq(log, 1, Len(log))
  <2>1. CASE log = <<>>
    BY <1>1, <1>5, <2>1, SubSeqEmpty DEF Follows, longer
  <2>2. CASE log # <<>>
    <3>1. 1 \in 1 .. Len(log)
      BY <2>2, EmptySeq DEF Logs
    <3>2. QED
      BY <1>3, <1>5, <3>1 DEF Follows, longer
  <2>3. QED
    BY <2>1, <2>2
<1>6. ASSUME NEW k \in 1 .. Len(log), final = WithRepeat(log, k, Len(log))
      PROVE  Follows(final, longer, Len(log))
  <2>1. final = WithRepeat(longer, k, Len(log))
    BY <1>3, <1>4, <1>6 DEF WithRepeat
  <2>2. k \in 1 .. Len(longer) /\ k <= Len(log) + 1
    BY <1>1, LenProperties DEF Logs
  <2>3. QED
    BY <2>1, <2>2 DEF Follows
<1>7. QED
  BY <1>5, <1>6 DEF Follows, longer

\* When the last payload is made that was still owed, nothing is.
LEMMA FollowsToTheEnd ==
    ASSUME NEW log \in Logs, log # <<>>, NEW final, Follows(final, log, Len(log) - 1)
    PROVE  Follows(Append(final, Last(log)), log, Len(log))
<1>1. Len(log) \in Nat \ {0} /\ Last(log) \in Payloads
  BY EmptySeq, ElementOfSeq DEF Logs, Last
<1>2. ASSUME NEW m \in 1 .. Len(log)
      PROVE  /\ SubSeq(log, m, Len(log)) = SubSeq(log, m, Len(log) - 1) \o <<Last(log)>>
             /\ SubSeq(log, m, Len(log) - 1) \in Logs /\ SubSeq(log, 1, m) \in Logs
  <2>1. SubSeq(log, m, Len(log)) = SubSeq(log, m, Len(log) - 1) \o <<log[Len(log)]>>
    BY <1>1, SubSeqRecursiveSecond DEF Logs
  <2>2. SubSeq(log, m, Len(log)) = SubSeq(log, m, Len(log) - 1) \o <<Last(log)>>
    BY <2>1 DEF Last
  <2>3. QED
    BY <1>1, <2>2, SubSeqProperties, ElementOfSeq DEF Logs
<1>3. CASE final = SubSeq(log, 1, Len(log) - 1)
  <2>1. Append(final, Last(log)) = SubSeq(log, 1, Len(log))
    BY <1>1, <1>2, <1>3, AppendIsConcat DEF Logs
  <2>2. QED
    BY <2>1 DEF Follows
<1>4. ASSUME NEW k \in 1 .. Len(log), final = WithRepeat(log, k, Len(log) - 1)
      PROVE  Append(final, Last(log)) = WithRepeat(log, k, Len(log))
  <2>1. Append(SubSeq(log, 1, k) \o SubSeq(log, k, Len(log) - 1), Last(log))
           = SubSeq(log, 1, k) \o Append(SubSeq(log, k, Len(log) - 1), Last(log))
    BY <1>1, <1>2, AppendToConcat
  <2>2. SubSeq(log, k, Len(log)) = Append(SubSeq(log, k, Len(log) - 1), Last(log))
    BY <1>1, <1>2, AppendIsConcat DEF Logs
  <2>3. QED
    BY <1>4, <2>1, <2>2 DEF WithRepeat
<1>5. CASE \E k \in 1 .. Len(log) : final = WithRepeat(log, k, Len(log) - 1)
  <2>1. PICK k \in 1 .. Len(log) : final = WithRepeat(log, k, Len(log) - 1)
    BY <1>5
  <2>2. Append(final, Last(log)) = WithRepeat(log, k, Len(log)) /\ k <= Len(log) + 1
    BY <1>1, <1>4, <2>1
  <2>3. QED
    BY <2>2 DEF Follows
<1>6. QED
  BY <1>3, <1>5 DEF Follows

\* A copy of the log follows it, also if its end is still to come.
LEMMA CopyFollows ==
    ASSUME NEW log \in Logs
    PROVE  /\ Follows(log, log, Len(log))
           /\ log # <<>> => Follows(log, log, Len(log) - 1)
<1>1. SubSeq(log, 1, Len(log)) = log
  BY SubSeqFull DEF Logs
<1>2. ASSUME log # <<>> PROVE log = WithRepeat(log, Len(log), Len(log) - 1)
  <2>1. SubSeq(log, Len(log), Len(log) - 1) = <<>>
    BY SubSeqEmpty DEF Logs
  <2>2. QED
    BY <1>1, <2>1, ConcatEmptySeq DEF WithRepeat, Logs
<1>3. QED
  <2>1. log # <<>> => Len(log) \in Nat \ {0}
    BY EmptySeq DEF Logs
  <2>2. Follows(log, log, Len(log))
    BY <1>1 DEF Follows
  <2>3. ASSUME log # <<>> PROVE Follows(log, log, Len(log) - 1)
    <3>1. Len(log) \in 1 .. Len(log) /\ Len(log) <= (Len(log) - 1) + 1
      BY <2>1, <2>3
    <3>2. QED
      BY <1>2, <2>3, <3>1 DEF Follows
  <2>4. QED
    BY <2>2, <2>3

-----------------------------------------------------------------------------
(* The inductive invariant *)

\* The invariant holds at the start.
LEMMA InitIInv == Init => IInv
<1> SUFFICES ASSUME Init PROVE IInv
  OBVIOUS
<1> USE DEF Init
<1>1. TypeOK
  <2>1. Len(Pushes) \in Nat
    BY PushesAreASequence
  <2>2. <<>> \in Logs /\ <<>> \in Seq(Messages)
    BY DEF Logs
  <2>3. overtaken \in BOOLEAN
    BY Zenon
  <2>4. /\ wire \in [Clients -> Seq(Messages)] /\ view \in [Clients -> Logs]
        /\ hpc \in [Clients -> {"none", "sending", "reading", "closing"}]
    BY <2>2
  <2>5. pushed \in 0 .. Len(Pushes)
    BY <2>1
  <2>6. QED
    BY <2>2, <2>3, <2>4, <2>5, Zenon DEF TypeOK
<1>2. Registered /\ InHand /\ NewestIsLast /\ Prompt
  BY EmptySeq DEF Registered, InHand, NewestIsLast, Prompt
<1>3. PromptUpdaterIsFIFO
  BY SubSeqEmpty DEF PromptUpdaterIsFIFO
<1>4. ReplicaRepeatsAtMostOne
  BY DEF ReplicaRepeatsAtMostOne, Served
<1>5. QED
  BY <1>1, <1>2, <1>3, <1>4 DEF IInv

\* What a step leaves alone that the replicas depend on.
LEMMA ReplicasUntouched ==
    ASSUME ReplicaRepeatsAtMostOne, UNCHANGED <<applied, wire, view>>,
           \A c \in Clients : Served(c)' => Served(c) /\ (Owed(c)' <=> Owed(c))
    PROVE  ReplicaRepeatsAtMostOne'
BY DEF ReplicaRepeatsAtMostOne, Final

\* Every push preserves the invariant.
LEMMA PushIInv == IInv /\ Push => IInv'
<1> SUFFICES ASSUME IInv, Push PROVE IInv'
  OBVIOUS
<1> USE DEF Push, uvars, cvars
<1> DEFINE p == Pushes[pushed + 1]
<1>1. /\ queue \in Logs /\ pushed \in Nat /\ pushed + 1 \in 1 .. Len(Pushes)
      /\ Pushes \in Logs /\ p \in Payloads
  BY PushesAreASequence, ElementOfSeq DEF IInv, TypeOK, Logs
<1>2. /\ queue' \in Logs /\ queue' # <<>> /\ Len(queue') = Len(queue) + 1
      /\ Last(queue') = p
  BY <1>1, AppendProperties DEF Logs, Last
<1>3. TypeOK'
  <2>1. overtaken' \in BOOLEAN /\ pushed' \in 0 .. Len(Pushes)
    BY <1>1 DEF IInv, TypeOK
  <2>2. QED
    BY <1>2, <2>1 DEF IInv, TypeOK
<1>4. Registered' /\ InHand'
  BY DEF IInv, Registered, InHand
<1>5. NewestIsLast'
  BY <1>1, <1>2 DEF NewestIsLast
<1>6. Prompt'
  <2>1. queue = <<>> => Len(queue') <= 1
    BY <1>2
  <2>2. QED
    BY <2>1, Zenon DEF Prompt
<1>7. PromptUpdaterIsFIFO'
  <2> SUFFICES ASSUME ~overtaken, queue = <<>>
               PROVE  applied \o queue' = SubSeq(Pushes, 1, pushed + 1)
    BY DEF PromptUpdaterIsFIFO
  <2>1. applied \in Logs /\ queue' = <<p>> /\ <<p>> \in Logs
    BY <1>1 DEF IInv, TypeOK, Logs
  <2>2. applied = SubSeq(Pushes, 1, pushed)
    BY <2>1, ConcatEmptySeq DEF IInv, PromptUpdaterIsFIFO, Logs
  <2>3. SubSeq(Pushes, 1, pushed + 1) = SubSeq(Pushes, 1, pushed) \o <<p>>
    <3>1. 1 \in 1 .. Len(Pushes) /\ pushed + 1 \in 1 .. Len(Pushes)
      BY <1>1
    <3>2. QED
      BY <1>1, <3>1, SubSeqRecursiveSecond DEF Logs
  <2>4. QED
    BY <2>1, <2>2, <2>3
<1>8. ReplicaRepeatsAtMostOne'
  BY ReplicasUntouched DEF IInv, Served, Owed
<1>9. QED
  BY <1>3, <1>4, <1>5, <1>6, <1>7, <1>8 DEF IInv

\* A payload that is taken is the newest, and is in hand until it is broadcast.
LEMMA TakePayloadIInv == IInv /\ TakePayload => IInv'
<1> SUFFICES ASSUME IInv, TakePayload PROVE IInv'
  OBVIOUS
<1> USE DEF TakePayload, cvars, Popped, ApplyPayload
<1> DEFINE p == Last(queue)
<1>1. /\ queue \in Logs /\ applied \in Logs /\ Len(queue) \in Nat \ {0}
      /\ p \in Payloads
  BY EmptySeq, ElementOfSeq DEF IInv, TypeOK, Logs, Last
<1>2. /\ queue' \in Logs /\ Len(queue') = Len(queue) - 1
      /\ queue' # <<>> => Last(queue') = p
  <2>1. /\ queue' \in Logs /\ Len(queue') = Len(queue) - 1
        /\ \A i \in 1 .. Len(queue') : queue'[i] = queue[i + 1]
    BY <1>1, HeadTailProperties DEF Logs
  <2>2. queue' # <<>> => Len(queue') \in 1 .. Len(queue')
    BY <2>1, EmptySeq DEF Logs
  <2>3. QED
    BY <1>1, <2>1, <2>2 DEF Last
<1>3. /\ applied' \in Logs /\ applied' # <<>> /\ Len(applied') = Len(applied) + 1
      /\ Last(applied') = p /\ p \in ToSet(applied')
  <2>1. /\ applied' \in Logs /\ applied' # <<>> /\ Len(applied') = Len(applied) + 1
        /\ applied'[Len(applied) + 1] = p
    BY <1>1, AppendProperties DEF Logs
  <2>2. Len(applied) + 1 \in DOMAIN applied'
    BY <1>1, <2>1, LenProperties DEF Logs
  <2>3. QED
    BY <2>1, <2>2 DEF Last, ToSet
<1>4. TypeOK'
  BY <1>1, <1>2, <1>3 DEF IInv, TypeOK
<1>5. Registered' /\ InHand'
  BY <1>3 DEF IInv, Registered, InHand
<1>6. NewestIsLast'
  BY <1>2, <1>3 DEF IInv, NewestIsLast
<1>7. Prompt'
  <2>1. Len(queue) <= 1 => Len(queue') <= 1
    BY <1>1, <1>2
  <2>2. QED
    BY <2>1, Zenon DEF IInv, Prompt
<1>8. PromptUpdaterIsFIFO'
  <2>1. ASSUME Len(queue) <= 1 PROVE applied' \o queue' = applied \o queue
    <3>1. queue' = <<>> /\ queue = <<p>>
      BY <1>1, <1>2, <2>1, EmptySeq DEF Logs, Last
    <3>2. QED
      BY <1>1, <1>3, <3>1, AppendIsConcat, ConcatEmptySeq DEF Logs
  <2>2. QED
    BY <2>1, Zenon DEF IInv, Prompt, PromptUpdaterIsFIFO
<1>9. ReplicaRepeatsAtMostOne'
  <2> SUFFICES ASSUME NEW c \in Clients, Served(c)'
               PROVE  Follows(Final(c), applied, Due(c))'
    BY DEF ReplicaRepeatsAtMostOne, Follows, Due
  <2>1. Due(c) = Len(applied) /\ Due(c)' = Len(applied)
    BY <1>1, <1>3 DEF Due, Owed
  <2>2. Follows(Final(c), applied, Len(applied))
    BY <2>1, FollowsIsTheProperty DEF IInv, Served
  <2>3. Follows(Final(c), applied', Len(applied))
    BY <1>1, <2>2, FollowsLonger
  <2>4. Final(c)' = Final(c)
    BY DEF Final
  <2>5. QED
    BY <2>1, <2>3, <2>4 DEF Follows
<1>10. QED
  BY <1>4, <1>5, <1>6, <1>7, <1>8, <1>9 DEF IInv

\* What is said of the queue depends on four variables.
LEMMA QueueUntouched ==
    ASSUME NewestIsLast, Prompt, PromptUpdaterIsFIFO,
           UNCHANGED <<queue, applied, pushed, overtaken>>
    PROVE  NewestIsLast' /\ Prompt' /\ PromptUpdaterIsFIFO'
BY DEF NewestIsLast, Prompt, PromptUpdaterIsFIFO

\* The updater's broadcast preserves the invariant: whoever is written to was
\* owed the payload, and nobody is owed it when the broadcast ends.
LEMMA BroadcastIInv ==
    ASSUME IInv, BeginBroadcast \/ EndBroadcast \/ \E c \in Clients : SendUpdate(c)
    PROVE  IInv'
<1>1. CASE BeginBroadcast
  <2> USE <1>1 DEF BeginBroadcast, cvars
  <2>1. TypeOK' /\ Registered' /\ InHand'
    BY DEF IInv, TypeOK, Registered, InHand
  <2>2. ReplicaRepeatsAtMostOne'
    BY ReplicasUntouched DEF IInv, Registered, Served, Owed
  <2>3. QED
    BY <2>1, <2>2, QueueUntouched DEF IInv
<1>2. CASE EndBroadcast
  <2> USE <1>2 DEF EndBroadcast, cvars
  <2>1. TypeOK' /\ Registered' /\ InHand'
    BY DEF IInv, TypeOK, Registered, InHand
  <2>2. ReplicaRepeatsAtMostOne'
    BY ReplicasUntouched DEF IInv, Served, Owed
  <2>3. QED
    BY <2>1, <2>2, QueueUntouched DEF IInv
<1>3. ASSUME NEW c \in Clients, SendUpdate(c) PROVE IInv'
  <2> USE <1>3 DEF SendUpdate
  <2>1. /\ payload \in Payloads /\ applied \in Logs /\ applied # <<>>
        /\ payload = Last(applied) /\ view[c] \in Logs /\ wire[c] \in Seq(Messages)
    BY DEF IInv, TypeOK, InHand
  <2>2. wire' \in [Clients -> Seq(Messages)]
    <3>1. UpdateMessage(payload) \in Messages
      BY <2>1 DEF Messages, UpdateMessage
    <3>2. Append(wire[c], UpdateMessage(payload)) \in Seq(Messages)
      BY <2>1, <3>1, AppendProperties
    <3>3. QED
      BY <3>2 DEF IInv, TypeOK
  <2>3. TypeOK' /\ Registered' /\ InHand'
    BY <2>2 DEF IInv, TypeOK, Registered, InHand
  <2>4. ReplicaRepeatsAtMostOne'
    <3> SUFFICES ASSUME NEW d \in Clients, Served(d)'
                 PROVE  Follows(Final(d), applied, Due(d))'
      BY DEF ReplicaRepeatsAtMostOne, Follows, Due
    <3>1. Follows(Final(d), applied, Due(d))
      BY FollowsIsTheProperty DEF IInv, Served
    <3>2. CASE d # c
      <4>1. Final(d)' = Final(d) /\ Due(d)' = Due(d)
        BY <3>2 DEF IInv, TypeOK, Final, Due, Owed
      <4>2. QED
        BY <3>1, <4>1 DEF Follows
    <3>3. CASE d = c
      <4>1. Due(c) = Len(applied) - 1 /\ Due(c)' = Len(applied)
        BY DEF Due, Owed
      <4>2. wire'[c] = Append(wire[c], UpdateMessage(payload)) /\ view' = view
        BY <3>3 DEF IInv, TypeOK, Served
      <4>3. Final(c)' = Append(Final(c), Last(applied))
        BY <2>1, <4>2, UpdateComesLast DEF Final
      <4>4. Follows(Append(Final(c), Last(applied)), applied, Len(applied))
        BY <2>1, <3>1, <3>3, <4>1, FollowsToTheEnd
      <4>5. QED
        BY <3>3, <4>1, <4>3, <4>4 DEF Follows
    <3>4. QED
      BY <3>2, <3>3
  <2>5. QED
    BY <2>3, <2>4, QueueUntouched DEF IInv
<1>4. QED
  BY <1>1, <1>2, <1>3

\* So does every step of a session.
LEMMA SessionIInv ==
    ASSUME NEW c \in Clients, IInv, Session(c)
    PROVE  IInv'
<1>1. CASE Join(c)
  <2> USE <1>1 DEF Join, uvars, ConnectionsFree
  <2>1. TypeOK' /\ Registered' /\ InHand'
    BY DEF IInv, TypeOK, Registered, InHand
  <2>2. ReplicaRepeatsAtMostOne'
    BY ReplicasUntouched DEF IInv, TypeOK, Served, Owed
  <2>3. QED
    BY <2>1, <2>2, QueueUntouched DEF IInv
<1>2. CASE SendFullList(c)
  <2> USE <1>2 DEF SendFullList, uvars
  <2>1. /\ applied \in Logs /\ view[c] \in Logs /\ wire[c] \in Seq(Messages)
        /\ ListMessage(applied) \in Messages
    BY DEF IInv, TypeOK, Messages, ListMessage
  <2>2. wire' \in [Clients -> Seq(Messages)]
    <3>1. Append(wire[c], ListMessage(applied)) \in Seq(Messages)
      BY <2>1, AppendProperties
    <3>2. QED
      BY <3>1 DEF IInv, TypeOK
  <2>3. TypeOK' /\ Registered' /\ InHand'
    BY <2>2 DEF IInv, TypeOK, Registered, InHand
  <2>4. ReplicaRepeatsAtMostOne'
    <3> SUFFICES ASSUME NEW d \in Clients, Served(d)'
                 PROVE  Follows(Final(d), applied, Due(d))'
      BY DEF ReplicaRepeatsAtMostOne, Follows, Due
    <3>1. Due(d)' = Due(d)
      BY DEF Due, Owed
    <3>2. CASE d # c
      <4>1. Final(d)' = Final(d) /\ Served(d)
        BY <3>2 DEF IInv, TypeOK, Final, Served
      <4>2. QED
        BY <3>1, <4>1, FollowsIsTheProperty DEF IInv, Follows
    <3>3. CASE d = c
      <4>1. Final(c)' = applied
        <5>1. wire'[c] = Append(wire[c], ListMessage(applied)) /\ view' = view
          BY DEF IInv, TypeOK
        <5>2. QED
          BY <2>1, <5>1, ListReplaces DEF Final
      <4>2. Due(c) = Len(applied) \/ (applied # <<>> /\ Due(c) = Len(applied) - 1)
        BY DEF IInv, InHand, Due, Owed
      <4>3. Follows(applied, applied, Due(c))
        BY <2>1, <4>2, CopyFollows
      <4>4. QED
        BY <3>1, <3>3, <4>1, <4>3 DEF Follows
    <3>4. QED
      BY <3>2, <3>3
  <2>5. QED
    BY <2>3, <2>4, QueueUntouched DEF IInv
<1>3. CASE EndSession(c)
  <2> USE <1>3 DEF EndSession, uvars
  <2>1. TypeOK' /\ Registered' /\ InHand'
    BY DEF IInv, TypeOK, Registered, InHand
  <2>2. ReplicaRepeatsAtMostOne'
    BY ReplicasUntouched DEF IInv, TypeOK, Served, Owed
  <2>3. QED
    BY <2>1, <2>2, QueueUntouched DEF IInv
<1>4. CASE CloseConnection(c) \/ Leave(c)
  <2> USE <1>4 DEF CloseConnection, Leave, uvars, ConnectionsFree
  <2>1. /\ wire' \in [Clients -> Seq(Messages)] /\ view' \in [Clients -> Logs]
        /\ \A d \in Clients \ {c} : wire'[d] = wire[d] /\ view'[d] = view[d]
    <3>1. <<>> \in Seq(Messages) /\ <<>> \in Logs
      BY DEF Logs
    <3>2. wire \in [Clients -> Seq(Messages)] /\ view \in [Clients -> Logs]
      BY DEF IInv, TypeOK
    <3>3. wire' = [wire EXCEPT ![c] = <<>>] /\ view' = [view EXCEPT ![c] = <<>>]
      OBVIOUS
    <3>4. QED
      BY <3>1, <3>2, <3>3, ZenonT(20)
  <2>2. TypeOK' /\ Registered' /\ InHand'
    <3>1. hpc' \in [Clients -> {"none", "sending", "reading", "closing"}] /\ gone' \subseteq Clients
      BY DEF IInv, TypeOK
    <3>2. UNCHANGED <<queue, applied, upc, payload, unsent, pushed, overtaken>>
      OBVIOUS
    <3>3. connections' \subseteq Clients /\ unsent' \subseteq connections'
      BY DEF IInv, TypeOK, InHand
    <3>4. TypeOK'
      BY <2>1, <3>1, <3>2, <3>3 DEF IInv, TypeOK
    <3>5. Registered' /\ InHand'
      BY <3>2 DEF IInv, TypeOK, Registered, InHand
    <3>6. QED
      BY <3>4, <3>5
  <2>3. ReplicaRepeatsAtMostOne'
    <3> SUFFICES ASSUME NEW d \in Clients, Served(d)'
                 PROVE  Follows(Final(d), applied, Due(d))'
      BY DEF ReplicaRepeatsAtMostOne, Follows, Due
    <3>1. d # c /\ Served(d)
      BY DEF IInv, TypeOK, Served
    <3>2. Final(d)' = Final(d) /\ Due(d)' = Due(d)
      BY <2>1, <3>1 DEF Final, Due, Owed
    <3>3. QED
      BY <3>1, <3>2, FollowsIsTheProperty DEF IInv, Follows
  <2>4. QED
    BY <2>2, <2>3, QueueUntouched DEF IInv
<1>5. CASE ReadMessage(c)
  <2> USE <1>5 DEF ReadMessage, uvars
  <2>1. /\ view[c] \in Logs /\ wire[c] \in Seq(Messages) /\ wire[c] # <<>>
        /\ AfterMessage(view[c], Head(wire[c])) \in Logs
        /\ Tail(wire[c]) \in Seq(Messages)
    BY ReadingIsExpected, HeadTailProperties DEF IInv, TypeOK
  <2>2. /\ wire' \in [Clients -> Seq(Messages)] /\ view' \in [Clients -> Logs]
        /\ wire'[c] = Tail(wire[c])
        /\ view'[c] = AfterMessage(view[c], Head(wire[c]))
        /\ \A d \in Clients \ {c} : wire'[d] = wire[d] /\ view'[d] = view[d]
    BY <2>1 DEF IInv, TypeOK
  <2>3. TypeOK' /\ Registered' /\ InHand'
    BY <2>2 DEF IInv, TypeOK, Registered, InHand
  <2>4. ReplicaRepeatsAtMostOne'
    <3> SUFFICES ASSUME NEW d \in Clients, Served(d)'
                 PROVE  Follows(Final(d), applied, Due(d))'
      BY DEF ReplicaRepeatsAtMostOne, Follows, Due
    <3>1. Final(d)' = Final(d)
      BY <2>1, <2>2, ReadingIsExpected DEF Final
    <3>2. Due(d)' = Due(d) /\ Served(d)
      BY DEF Due, Owed, Served
    <3>3. QED
      BY <3>1, <3>2, FollowsIsTheProperty DEF IInv, Follows
  <2>5. QED
    BY <2>3, <2>4, QueueUntouched DEF IInv
<1>6. QED
  BY <1>1, <1>2, <1>3, <1>4, <1>5 DEF Session

\* Every step keeps the invariant.
LEMMA Inductive == IInv /\ [Next]_vars => IInv'
<1> SUFFICES ASSUME IInv, [Next]_vars PROVE IInv'
  OBVIOUS
<1>1. CASE Updater
  BY <1>1, TakePayloadIInv, BroadcastIInv DEF Updater
<1>2. ASSUME NEW c \in Clients, Session(c) PROVE IInv'
  BY <1>2, SessionIInv
<1>3. CASE PushAdopt \/ \E c \in Clients : PushAction(c)
  BY <1>3, PushIInv DEF PushAdopt, PushAction
<1>4. CASE UNCHANGED vars
  <2> USE <1>4 DEF vars, uvars, cvars
  <2>1. TypeOK' /\ Registered' /\ InHand'
    BY DEF IInv, TypeOK, Registered, InHand
  <2>2. ReplicaRepeatsAtMostOne'
    BY ReplicasUntouched DEF IInv, Served, Owed
  <2>3. QED
    BY <2>1, <2>2, QueueUntouched DEF IInv
<1>5. QED
  BY <1>1, <1>2, <1>3, <1>4 DEF Next

\* The invariant holds throughout.
LEMMA InvariantHolds == Spec => []IInv
<1>1. QED
  BY InitIInv, Inductive, PTL DEF Spec

-----------------------------------------------------------------------------
\* The variables keep their types: only payloads that were pushed are queued,
\* applied, sent and drawn, and updates are written only to registered clients.
THEOREM TypeCorrect == Spec => []TypeOK
<1>1. IInv => TypeOK
  BY DEF IInv
<1>2. QED
  BY InvariantHolds, <1>1, PTL

\* A client that has its list makes the server's mutations in the server's order
\* and misses none, however it joined; at most one of them it makes twice.
THEOREM ReplicasFollow == Spec => []ReplicaRepeatsAtMostOne
<1>1. IInv => ReplicaRepeatsAtMostOne
  BY DEF IInv
<1>2. QED
  BY InvariantHolds, <1>1, PTL

\* Although the updater takes one end of the queue and removes the other, the
\* newest payload is never lost.
THEOREM NewestIsNeverLost == Spec => []NewestSurvives
<1>1. IInv => NewestSurvives
  <2> SUFFICES ASSUME IInv, pushed > 0
               PROVE  Pushes[pushed] \in ToSet(applied) \cup ToSet(queue)
    BY DEF NewestSurvives
  <2>1. CASE queue = <<>>
    BY <2>1 DEF IInv, NewestIsLast
  <2>2. CASE queue # <<>>
    <3>1. Len(queue) \in DOMAIN queue
      BY <2>2, EmptySeq, LenProperties DEF IInv, TypeOK, Logs
    <3>2. QED
      BY <2>2, <3>1 DEF IInv, NewestIsLast, Last, ToSet
  <2>3. QED
    BY <2>1, <2>2
<1>2. QED
  BY InvariantHolds, <1>1, PTL

\* As long as no payload is pushed behind another, the payloads are applied in
\* the order they were pushed, and each once.
THEOREM PromptIsFIFO == Spec => []PromptUpdaterIsFIFO
<1>1. IInv => PromptUpdaterIsFIFO
  BY DEF IInv
<1>2. QED
  BY InvariantHolds, <1>1, PTL

-----------------------------------------------------------------------------
(* The replicas implement the followed log *)

\* What a client has yet to read was once the server's.
ListsAreBeginnings ==
    \A c \in Clients : \A i \in DOMAIN wire[c] :
        IsList(wire[c][i]) => wire[c][i].log \in Abstract!Beginnings(applied)

\* A beginning of a log is one of a longer log; so is the log itself.
LEMMA BeginningsOfLonger ==
    ASSUME NEW log \in Logs, NEW p \in Payloads
    PROVE  /\ log \in Abstract!Beginnings(log)
           /\ Abstract!Beginnings(log) \subseteq Abstract!Beginnings(Append(log, p))
<1>1. log \in Abstract!Beginnings(log)
  <2>1. log = SubSeq(log, 1, Len(log)) /\ Len(log) \in 0 .. Len(log)
    BY SubSeqFull, LenProperties DEF Logs
  <2>2. QED
    BY <2>1 DEF Abstract!Beginnings
<1>2. ASSUME NEW n \in 0 .. Len(log)
      PROVE  SubSeq(log, 1, n) \in Abstract!Beginnings(Append(log, p))
  <2>1. SubSeq(Append(log, p), 1, n) = SubSeq(log, 1, n)
    <3>1. CASE n = 0
      BY <3>1, SubSeqEmpty
    <3>2. CASE n # 0
      <4>1. Append(log, p) = log \o <<p>> /\ <<p>> \in Logs
        BY AppendIsConcat DEF Logs
      <4>2. n \in 1 .. Len(log) /\ 1 \in 1 .. Len(log)
        BY <3>2, LenProperties DEF Logs
      <4>3. QED
        BY <4>1, <4>2, SubSeqOfConcat1 DEF Logs
    <3>3. QED
      BY <3>1, <3>2
  <2>2. n \in 0 .. Len(Append(log, p))
    BY AppendProperties, LenProperties DEF Logs
  <2>3. QED
    BY <2>1, <2>2 DEF Abstract!Beginnings
<1>3. QED
  BY <1>1, <1>2 DEF Abstract!Beginnings

\* The invariant that lists on a wire are beginnings of what was applied.
LEMMA ListsInductive ==
    ASSUME IInv, ListsAreBeginnings, [Next]_vars
    PROVE  ListsAreBeginnings'
<1>1. ASSUME applied' = applied,
             NEW c \in Clients, NEW i \in DOMAIN wire'[c], IsList(wire'[c][i]),
             \/ \E j \in DOMAIN wire[c] : wire'[c][i] = wire[c][j]
             \/ wire'[c][i].log = applied
      PROVE  wire'[c][i].log \in Abstract!Beginnings(applied')
  <2>1. applied \in Logs
    BY DEF IInv, TypeOK
  <2>2. applied \in Abstract!Beginnings(applied)
    BY <2>1, SubSeqFull, LenProperties DEF Logs, Abstract!Beginnings
  <2>3. QED
    BY <1>1, <2>2 DEF ListsAreBeginnings
<1>2. CASE TakePayload
  <2>1. /\ applied \in Logs /\ Last(queue) \in Payloads
        /\ applied' = Append(applied, Last(queue)) /\ wire' = wire
    BY <1>2, EmptySeq, ElementOfSeq
       DEF TakePayload, ApplyPayload, cvars, IInv, TypeOK, Logs, Last
  <2>2. QED
    BY <2>1, BeginningsOfLonger DEF ListsAreBeginnings
<1>3. ASSUME NEW c \in Clients, SendUpdate(c) PROVE ListsAreBeginnings'
  <2> USE <1>3 DEF SendUpdate
  <2> SUFFICES ASSUME NEW d \in Clients, NEW i \in DOMAIN wire'[d], IsList(wire'[d][i])
               PROVE  wire'[d][i].log \in Abstract!Beginnings(applied')
    BY DEF ListsAreBeginnings
  <2>1. CASE wire'[d] = wire[d]
    BY <1>1, <2>1
  <2>2. CASE wire'[d] = Append(wire[d], UpdateMessage(payload))
    <3>1. wire[d] \in Seq(Messages)
      BY DEF IInv, TypeOK
    <3>2. i \in DOMAIN wire[d] \/ i = Len(wire[d]) + 1
      BY <2>2, <3>1
    <3>3. i # Len(wire[d]) + 1
      BY <2>2, <3>1 DEF IsList, UpdateMessage
    <3>4. wire'[d][i] = wire[d][i]
      BY <2>2, <3>1, <3>2, <3>3
    <3>5. QED
      BY <1>1, <3>2, <3>3, <3>4
  <2>3. QED
    BY <2>1, <2>2 DEF IInv, TypeOK
<1>4. ASSUME NEW c \in Clients, SendFullList(c) PROVE ListsAreBeginnings'
  <2> USE <1>4 DEF SendFullList
  <2> SUFFICES ASSUME NEW d \in Clients, NEW i \in DOMAIN wire'[d], IsList(wire'[d][i])
               PROVE  wire'[d][i].log \in Abstract!Beginnings(applied')
    BY DEF ListsAreBeginnings
  <2>1. CASE wire'[d] = wire[d]
    BY <1>1, <2>1
  <2>2. CASE wire'[d] = Append(wire[d], ListMessage(applied))
    <3>1. wire[d] \in Seq(Messages)
      BY DEF IInv, TypeOK
    <3>2. (i \in DOMAIN wire[d] /\ wire'[d][i] = wire[d][i]) \/ wire'[d][i].log = applied
      BY <2>2, <3>1 DEF ListMessage
    <3>3. QED
      BY <1>1, <3>2
  <2>3. QED
    BY <2>1, <2>2 DEF IInv, TypeOK
<1>5. ASSUME NEW c \in Clients, CloseConnection(c) \/ Leave(c) \/ ReadMessage(c)
      PROVE  ListsAreBeginnings'
  <2> USE <1>5 DEF CloseConnection, Leave, ReadMessage
  <2> SUFFICES ASSUME NEW d \in Clients, NEW i \in DOMAIN wire'[d], IsList(wire'[d][i])
               PROVE  wire'[d][i].log \in Abstract!Beginnings(applied')
    BY DEF ListsAreBeginnings
  <2>1. applied' = applied
    OBVIOUS
  <2>2. CASE wire'[d] = wire[d]
    BY <1>1, <2>1, <2>2
  <2>3. CASE wire[d] # <<>> /\ wire'[d] = Tail(wire[d])
    <3>1. wire[d] \in Seq(Messages)
      BY DEF IInv, TypeOK
    <3>2. i + 1 \in DOMAIN wire[d] /\ wire'[d][i] = wire[d][i + 1]
      BY <2>3, <3>1
    <3>3. QED
      BY <1>1, <2>1, <3>2
  <2>4. wire'[d] # <<>>
    OBVIOUS
  <2>5. QED
    BY <2>2, <2>3, <2>4 DEF IInv, TypeOK
<1>6. CASE UNCHANGED <<applied, wire>>
  BY <1>6 DEF ListsAreBeginnings
<1>7. ASSUME NEW c \in Clients, Join(c) \/ EndSession(c)
      PROVE  UNCHANGED <<applied, wire>>
  BY <1>7 DEF Join, EndSession
<1>8. ASSUME BeginBroadcast \/ EndBroadcast \/ Push \/ UNCHANGED vars
      PROVE  UNCHANGED <<applied, wire>>
  BY <1>8 DEF BeginBroadcast, EndBroadcast, Push, vars, cvars
<1>9. QED
  BY <1>2, <1>3, <1>4, <1>5, <1>6, <1>7, <1>8
     DEF Next, Updater, Session, PushAction, PushAdopt

\* A beginning with one repeat is a copy, too.
LEMMA RepeatsAreCopies ==
    ASSUME NEW log, NEW k \in 1 .. Len(log), NEW n \in 0 .. Len(log)
    PROVE  Abstract!WithRepeat(log, k, n) \in Abstract!Copies(log)
BY DEF Abstract!Copies

\* Every beginning of what follows a log is a copy of the log.
LEMMA FollowsFromCopyToCopy ==
    ASSUME NEW log \in Logs, NEW due \in 0 .. Len(log),
           NEW final \in Logs, Follows(final, log, due), NEW n \in 1 .. Len(final)
    PROVE  SubSeq(final, 1, n) \in Abstract!Copies(log)
<1>0. Len(log) \in Nat /\ Len(final) \in Nat
  BY LenProperties DEF Logs
<1>1. ASSUME NEW m \in 0 .. Len(log), SubSeq(final, 1, n) = SubSeq(log, 1, m)
      PROVE  SubSeq(final, 1, n) \in Abstract!Copies(log)
  BY <1>1 DEF Abstract!Copies, Abstract!Beginnings
<1>2. CASE final = SubSeq(log, 1, due)
  <2>1. Len(final) = due
    BY <1>0, <1>2, SubSeqProperties, ElementOfSeq DEF Logs
  <2>2. /\ due \in 1 .. Len(log) /\ 1 \in 1 .. Len(log)
        /\ n \in 1 .. due - 1 + 1 /\ 1 \in 1 .. due - 1 + 1 /\ n \in 0 .. Len(log)
    BY <1>0, <2>1
  <2>3. SubSeq(SubSeq(log, 1, due), 1, n) = SubSeq(log, 1 + 1 - 1, 1 + n - 1)
    BY <2>2, SubSeqOfSubSeq DEF Logs
  <2>4. 1 + 1 - 1 = 1 /\ 1 + n - 1 = n
    BY <1>0
  <2>5. QED
    BY <1>1, <1>2, <2>2, <2>3, <2>4
<1>3. ASSUME NEW k \in 1 .. Len(log), k <= due + 1, final = WithRepeat(log, k, due)
      PROVE  SubSeq(final, 1, n) \in Abstract!Copies(log)
  <2> DEFINE A == SubSeq(log, 1, k)
             B == SubSeq(log, k, due)
  <2>1. /\ A \in Logs /\ Len(A) = k
        /\ B \in Logs /\ Len(B) = due + 1 - k
    <3>1. \A i \in 1 .. Len(log) : log[i] \in Payloads
      BY ElementOfSeq DEF Logs
    <3>2. A \in Logs /\ Len(A) = k
      BY <1>0, <3>1, SubSeqProperties DEF Logs
    <3>3. B \in Logs /\ Len(B) = IF k <= due THEN due - k + 1 ELSE 0
      BY <1>0, <3>1, SubSeqProperties DEF Logs
    <3>4. QED
      BY <1>0, <1>3, <3>2, <3>3
  <2>2. final = A \o B
    BY <1>3 DEF WithRepeat
  <2>3. Len(final) = due + 1
    BY <1>0, <2>1, <2>2, ConcatProperties DEF Logs
  <2>4. ASSUME NEW m \in 1 .. k PROVE SubSeq(final, 1, m) = SubSeq(log, 1, m)
    <3>1. SubSeq(A \o B, 1, m) = SubSeq(A, 1, m)
      <4>1. 1 \in 1 .. Len(A) /\ m \in 1 .. Len(A)
        BY <2>1
      <4> HIDE DEF A, B
      <4>2. QED
        BY <2>1, <4>1, SubSeqOfConcat1 DEF Logs
    <3>2. SubSeq(A, 1, m) = SubSeq(log, 1 + 1 - 1, 1 + m - 1)
      <4>1. /\ 1 \in 1 .. Len(log) /\ k \in 1 .. Len(log)
            /\ 1 \in 1 .. k - 1 + 1 /\ m \in 1 .. k - 1 + 1
        BY <1>0
      <4>2. QED
        BY <4>1, SubSeqOfSubSeq DEF Logs
    <3>3. 1 + 1 - 1 = 1 /\ 1 + m - 1 = m
      OBVIOUS
    <3>4. QED
      BY <2>2, <3>1, <3>2, <3>3
  <2>5. CASE n <= k
    <3>1. n \in 1 .. k /\ n \in 0 .. Len(log)
      BY <1>0, <2>5
    <3>2. QED
      BY <1>1, <2>4, <3>1
  <2>6. CASE n > k
    <3>1. /\ k \in 1 .. k /\ n - 1 \in 0 .. Len(log)
          /\ n - k \in 1 .. due - k + 1 /\ 1 \in 1 .. due - k + 1 /\ due \in 1 .. Len(log)
      BY <1>0, <2>3, <2>6
    <3>2. SubSeq(final, 1, n) = SubSeq(final, 1, k) \o SubSeq(final, k + 1, n)
      <4>1. 1 \in 1 .. Len(final) + 1 /\ k \in 1 - 1 .. Len(final) /\ n \in k .. Len(final)
        BY <1>0, <2>3, <2>6
      <4>2. QED
        BY <4>1, ConcatAdjacentSubSeq DEF Logs
    <3>3. SubSeq(final, 1, k) = SubSeq(log, 1, k)
      BY <2>4, <3>1
    <3>4. SubSeq(final, k + 1, n) = SubSeq(B, 1, n - k)
      <4>1. /\ k + 1 \in Len(A) + 1 .. Len(A) + Len(B) /\ n \in Len(A) + 1 .. Len(A) + Len(B)
            /\ k + 1 - Len(A) = 1 /\ n - Len(A) = n - k
        BY <1>0, <2>1, <2>3, <2>6
      <4> HIDE DEF A, B
      <4>2. SubSeq(A \o B, k + 1, n) = SubSeq(B, k + 1 - Len(A), n - Len(A))
        BY <2>1, <4>1, SubSeqOfConcat2 DEF Logs
      <4>3. QED
        BY <2>2, <4>1, <4>2
    <3>5. SubSeq(B, 1, n - k) = SubSeq(log, k + 1 - 1, k + (n - k) - 1)
      BY <3>1, SubSeqOfSubSeq DEF Logs
    <3>6. k + 1 - 1 = k /\ k + (n - k) - 1 = n - 1
      BY <1>0
    <3>7. SubSeq(final, 1, n) = Abstract!WithRepeat(log, k, n - 1)
      BY <3>2, <3>3, <3>4, <3>5, <3>6 DEF Abstract!WithRepeat
    <3>8. QED
      BY <3>1, <3>7, RepeatsAreCopies
  <2>7. QED
    BY <1>0, <2>5, <2>6
<1>4. QED
  BY <1>2, <1>3 DEF Follows

\* A log is a beginning of one that goes on, with what comes next too.
LEMMA OneFurther ==
    ASSUME NEW s \in Logs, NEW t \in Logs, t # <<>>
    PROVE  /\ Len(s) + 1 \in 1 .. Len(s \o t)
           /\ Append(s, t[1]) = SubSeq(s \o t, 1, Len(s) + 1)
<1> DEFINE n == Len(s) + 1
           whole == s \o t
<1>1. Len(s) \in Nat /\ Len(t) \in Nat \ {0} /\ t[1] \in Payloads
  BY EmptySeq, LenProperties, ElementOfSeq DEF Logs
<1>2. /\ whole \in Logs /\ Len(whole) = Len(s) + Len(t)
      /\ \A i \in 1 .. Len(s) + Len(t) :
            whole[i] = IF i <= Len(s) THEN s[i] ELSE t[i - Len(s)]
  BY ConcatProperties DEF Logs
<1> HIDE DEF whole
<1>3. n \in 1 .. Len(whole) /\ \A i \in 1 .. n : whole[i] \in Payloads
  <2>1. n \in 1 .. Len(whole)
    BY <1>1, <1>2
  <2>2. QED
    BY <1>2, <2>1, ElementOfSeq DEF Logs
<1>4. /\ SubSeq(whole, 1, n) \in Logs /\ Len(SubSeq(whole, 1, n)) = n
      /\ \A i \in 1 .. n : SubSeq(whole, 1, n)[i] = whole[i]
  <2>1. n - 1 + 1 = n /\ \A i \in 1 .. n : 1 + i - 1 = i
    BY <1>1
  <2>2. QED
    BY <1>1, <1>3, <2>1, SubSeqProperties DEF Logs
<1>5. /\ Append(s, t[1]) \in Logs /\ Len(Append(s, t[1])) = n
      /\ Append(s, t[1])[n] = t[1]
      /\ \A i \in 1 .. Len(s) : Append(s, t[1])[i] = s[i]
  BY <1>1, AppendProperties DEF Logs
<1>6. \A i \in 1 .. n : SubSeq(whole, 1, n)[i] = Append(s, t[1])[i]
  <2>1. \A i \in 1 .. Len(s) : whole[i] = s[i]
    BY <1>1, <1>2
  <2>2. whole[n] = t[1]
    BY <1>1, <1>2
  <2>3. \A i \in 1 .. n : i \in 1 .. Len(s) \/ i = n
    BY <1>1
  <2>4. QED
    BY <1>4, <1>5, <2>1, <2>2, <2>3
<1>7. QED
  BY <1>3, <1>4, <1>5, <1>6, SeqEqual DEF Logs, whole

\* The update at hand takes a client that follows from one copy to the next.
LEMMA NextIsACopy ==
    ASSUME IInv, NEW c \in Clients, Following(c), wire[c] # <<>>
    PROVE  /\ Head(wire[c]).payload \in Payloads
           /\ AfterMessage(view[c], Head(wire[c])) = Append(view[c], Head(wire[c]).payload)
           /\ Append(view[c], Head(wire[c]).payload) \in Abstract!Copies(applied)
<1> DEFINE messages == wire[c]
           p == Head(messages).payload
           n == Len(view[c]) + 1
<1>1. /\ messages \in Seq(Messages) /\ view[c] \in Logs /\ applied \in Logs
      /\ Len(messages) \in Nat \ {0} /\ Len(view[c]) \in Nat
  BY EmptySeq, LenProperties DEF IInv, TypeOK, Logs
<1>2. Head(messages) = messages[1] /\ messages[1] \in Messages /\ ~IsList(messages[1])
  BY <1>1 DEF Following
<1>3. p \in Payloads /\ AfterMessage(view[c], messages[1]) = Append(view[c], p)
  BY <1>2 DEF Messages, IsList, AfterMessage
<1>4. ListAt(messages) = 0
  BY <1>1, ListAtUnique DEF Following
<1>5. /\ Final(c) = view[c] \o Behind(messages) /\ Final(c) \in Logs
      /\ Behind(messages) \in Logs /\ Len(Behind(messages)) = Len(messages)
      /\ Behind(messages)[1] = p
  <2>1. Base(view[c], messages) = view[c]
    BY <1>4 DEF Base
  <2>2. /\ AfterMessages(view[c], messages) = Base(view[c], messages) \o Behind(messages)
        /\ Behind(messages) \in Logs /\ Len(Behind(messages)) = Len(messages) - 0
        /\ AfterMessages(view[c], messages) \in Logs
    BY <1>1, <1>4, AfterMessagesParts
  <2>3. Behind(messages)[1] = messages[1].payload
    BY <1>1, <1>4 DEF Behind
  <2>4. QED
    BY <1>1, <1>2, <2>1, <2>2, <2>3 DEF Final
<1>6. n \in 1 .. Len(Final(c)) /\ Append(view[c], p) = SubSeq(Final(c), 1, n)
  <2>1. Behind(messages) # <<>>
    BY <1>1, <1>5
  <2>2. QED
    BY <1>1, <1>5, <2>1, OneFurther
<1>7. Follows(Final(c), applied, Due(c)) /\ Due(c) \in 0 .. Len(applied)
  <2>1. Owed(c) => Len(applied) \in Nat \ {0}
    BY <1>1, EmptySeq DEF IInv, InHand, Owed, Logs
  <2>2. Due(c) \in 0 .. Len(applied)
    BY <1>1, <2>1, LenProperties DEF Due, Logs
  <2>3. QED
    BY <2>2, FollowsIsTheProperty DEF IInv, Following
<1>8. QED
  BY <1>1, <1>2, <1>3, <1>5, <1>6, <1>7, FollowsFromCopyToCopy

\* What the mapping sees of a step in which nobody begins or ceases to follow.
LEMMA SameFollowers ==
    ASSUME \A c \in Clients : Following(c)' <=> Following(c)
    PROVE  {c \in Clients : Following(c)}' = {c \in Clients : Following(c)}
OBVIOUS

\* What the mapping sees of a client.
Copy(c) == IF Following(c) THEN view[c] ELSE <<>>

\* If their copies stay as they are too, it sees nothing of the step.
LEMMA Unseen ==
    ASSUME UNCHANGED applied, \A c \in Clients : Following(c)' <=> Following(c),
           \A c \in Clients : Following(c) => view'[c] = view[c]
    PROVE  UNCHANGED Abstract!vars
<1>1. \A c \in Clients : Copy(c)' = Copy(c)
  BY DEF Copy
<1>2. [c \in Clients |-> Copy(c)]' = [c \in Clients |-> Copy(c)]
  BY <1>1
<1>3. QED
  BY <1>2, SameFollowers DEF Abstract!vars, Copy

\* Whether a client follows depends on its handler, its process and its wire.
LEMMA SameFollower ==
    ASSUME NEW c \in Clients, UNCHANGED <<hpc[c], wire[c]>>, c \in gone' <=> c \in gone
    PROVE  Following(c)' <=> Following(c)
BY DEF Following, Served, IsList

\* A step of one client is seen of that client only.
LEMMA OneFollower ==
    ASSUME NEW c \in Clients, UNCHANGED applied, view \in [Clients -> Logs],
           \A d \in Clients \ {c} :
              UNCHANGED <<hpc[d], wire[d], view[d]>> /\ (d \in gone' <=> d \in gone)
    PROVE  /\ Following(c) /\ ~Following(c)' => Abstract!Leave(c)
           /\ ~Following(c) /\ ~Following(c)' => UNCHANGED Abstract!vars
<1> DEFINE following == {d \in Clients : Following(d)}
           copies == [d \in Clients |-> Copy(d)]
<1>1. \A d \in Clients \ {c} : (Following(d)' <=> Following(d)) /\ Copy(d)' = Copy(d)
  BY SameFollower DEF Copy
<1>2. ASSUME Following(c), ~Following(c)' PROVE Abstract!Leave(c)
  <2>1. c \in following /\ following' = following \ {c}
    BY <1>1, <1>2
  <2>2. copies' = [copies EXCEPT ![c] = <<>>]
    BY <1>1, <1>2 DEF Copy
  <2>3. QED
    BY <2>1, <2>2 DEF Abstract!Leave, Copy
<1>3. ASSUME ~Following(c), ~Following(c)' PROVE UNCHANGED Abstract!vars
  <2>1. \A d \in Clients : (Following(d)' <=> Following(d)) /\ Copy(d)' = Copy(d)
    BY <1>1, <1>3 DEF Copy
  <2>2. following' = following /\ copies' = copies
    BY <2>1
  <2>3. QED
    BY <2>2 DEF Abstract!vars, Copy
<1>4. QED
  BY <1>2, <1>3

\* To read a message is to follow, or to enter with the last list, or nothing
\* that the abstract specification sees.
LEMMA ReadingRefines ==
    ASSUME IInv, ListsAreBeginnings, NEW c \in Clients, ReadMessage(c)
    PROVE  Abstract!Follow(c) \/ Abstract!Enter(c) \/ UNCHANGED Abstract!vars
<1> USE DEF ReadMessage, uvars
<1> DEFINE following == {d \in Clients : Following(d)}
           copies == [d \in Clients |-> Copy(d)]
           m == Head(wire[c])
<1>1. /\ view \in [Clients -> Logs] /\ wire[c] \in Seq(Messages) /\ wire[c] # <<>>
      /\ view'[c] = AfterMessage(view[c], m) /\ wire'[c] = Tail(wire[c])
      /\ \A d \in Clients \ {c} : wire'[d] = wire[d] /\ view'[d] = view[d]
      /\ UNCHANGED <<applied, hpc, gone>>
  BY DEF IInv, TypeOK
<1>2. /\ m = wire[c][1] /\ 1 \in DOMAIN wire[c]
      /\ \A i \in DOMAIN wire'[c] : i + 1 \in DOMAIN wire[c] /\ wire'[c][i] = wire[c][i + 1]
      /\ \A i \in DOMAIN wire[c] : i = 1 \/ (i - 1 \in DOMAIN wire'[c] /\ wire'[c][i - 1] = wire[c][i])
  <2>1. /\ m = wire[c][1] /\ Len(wire[c]) \in Nat /\ Len(wire[c]) >= 1
        /\ Len(Tail(wire[c])) = Len(wire[c]) - 1
        /\ \A i \in 1 .. Len(wire[c]) - 1 : Tail(wire[c])[i] = wire[c][i + 1]
        /\ DOMAIN wire[c] = 1 .. Len(wire[c])
        /\ DOMAIN Tail(wire[c]) = 1 .. Len(wire[c]) - 1
    <3>1. Len(wire[c]) \in Nat \ {0} /\ m = wire[c][1] /\ DOMAIN wire[c] = 1 .. Len(wire[c])
      BY <1>1, EmptySeq, LenProperties
    <3>2. /\ Tail(wire[c]) \in Seq(Messages) /\ Len(Tail(wire[c])) = Len(wire[c]) - 1
          /\ \A i \in 1 .. Len(Tail(wire[c])) : Tail(wire[c])[i] = wire[c][i + 1]
      BY <1>1, HeadTailProperties
    <3>3. DOMAIN Tail(wire[c]) = 1 .. Len(Tail(wire[c]))
      BY <3>2, LenProperties
    <3>4. QED
      BY <3>1, <3>2, <3>3
  <2> DEFINE L == Len(wire[c])
             rest == wire'[c]
             all == wire[c]
  <2>2. /\ L \in Nat /\ L >= 1 /\ DOMAIN all = 1 .. L /\ DOMAIN rest = 1 .. L - 1
        /\ \A i \in 1 .. L - 1 : rest[i] = all[i + 1]
    BY <1>1, <2>1
  <2> HIDE DEF L, rest, all
  <2>3. /\ 1 \in DOMAIN all
        /\ \A i \in DOMAIN rest : i + 1 \in DOMAIN all /\ rest[i] = all[i + 1]
    BY <2>2
  <2>4. \A i \in DOMAIN all : i = 1 \/ (i - 1 \in DOMAIN rest /\ rest[i - 1] = all[i])
    <3> SUFFICES ASSUME NEW i \in DOMAIN all, i # 1
                 PROVE  i - 1 \in DOMAIN rest /\ rest[i - 1] = all[i]
      OBVIOUS
    <3>1. i - 1 \in 1 .. L - 1 /\ (i - 1) + 1 = i
      BY <2>2
    <3>2. QED
      BY <2>2, <3>1
  <2>5. QED
    BY <2>1, <2>3, <2>4 DEF rest, all
<1>3. \A d \in Clients \ {c} : (Following(d)' <=> Following(d)) /\ Copy(d)' = Copy(d)
  <2>1. ASSUME NEW d \in Clients \ {c} PROVE Following(d)' <=> Following(d)
    BY <1>1, SameFollower
  <2>2. QED
    BY <1>1, <2>1 DEF Copy
<1>4. Served(c)' <=> Served(c)
  BY <1>1 DEF Served
<1>5. CASE Following(c)
  <2>1. Following(c)'
    BY <1>2, <1>4, <1>5 DEF Following, IsList
  <2>2. following' = following /\ c \in following
    BY <1>3, <1>5, <2>1
  <2>3. /\ m.payload \in Payloads /\ view'[c] = Append(view[c], m.payload)
        /\ Append(view[c], m.payload) \in Abstract!Copies(applied)
    BY <1>1, <1>5, NextIsACopy
  <2>4. copies[c] = view[c]
    BY <1>5 DEF Copy
  <2>5. copies' = [copies EXCEPT ![c] = Append(@, m.payload)]
    <3>1. Copy(c)' = Append(copies[c], m.payload)
      BY <2>1, <2>3, <2>4 DEF Copy
    <3>2. QED
      BY <1>3, <3>1
  <2>6. Abstract!Follow(c)
    <3> HIDE DEF m
    <3>1. QED
      BY <1>1, <2>2, <2>3, <2>4, <2>5 DEF Abstract!Follow, Copy
  <2>7. QED
    BY <2>6
<1>6. CASE ~Following(c) /\ Following(c)'
  <2>1. IsList(m)
    <3>1. Served(c) /\ \A i \in DOMAIN wire'[c] : ~IsList(wire'[c][i])
      BY <1>4, <1>6 DEF Following, IsList
    <3>2. PICK i \in DOMAIN wire[c] : IsList(wire[c][i])
      BY <1>6, <3>1 DEF Following
    <3>3. i = 1
      <4>1. i # 1 => i - 1 \in DOMAIN wire'[c] /\ wire'[c][i - 1] = wire[c][i]
        BY <1>2
      <4>2. QED
        BY <3>1, <3>2, <4>1
    <3>4. QED
      BY <1>2, <3>2, <3>3
  <2>2. view'[c] = m.log /\ m.log \in Abstract!Beginnings(applied)
    BY <1>1, <1>2, <2>1 DEF ListsAreBeginnings, AfterMessage, IsList
  <2>3. c \notin following /\ following' = following \cup {c}
    BY <1>3, <1>6
  <2>4. copies' = [copies EXCEPT ![c] = m.log]
    <3>1. Copy(c)' = m.log
      BY <1>6, <2>2 DEF Copy
    <3>2. QED
      BY <1>3, <3>1
  <2>5. Abstract!Enter(c)
    <3> HIDE DEF m
    <3>1. QED
      BY <1>1, <2>2, <2>3, <2>4 DEF Abstract!Enter, Copy
  <2>6. QED
    BY <2>5
<1>7. CASE ~Following(c) /\ ~Following(c)'
  BY <1>1, <1>7, OneFollower
<1>8. QED
  BY <1>5, <1>6, <1>7

\* Every step is one of the followed log, or not seen there.
LEMMA StepRefines ==
    ASSUME IInv, ListsAreBeginnings, [Next]_vars
    PROVE  [Abstract!Next]_(Abstract!vars)
<1>1. CASE TakePayload
  <2>1. /\ Last(queue) \in Payloads /\ applied' = Append(applied, Last(queue))
        /\ UNCHANGED <<hpc, gone, wire, view>>
    BY <1>1, EmptySeq, ElementOfSeq
       DEF TakePayload, ApplyPayload, cvars, IInv, TypeOK, Logs, Last
  <2>2. \A c \in Clients : (Following(c)' <=> Following(c)) /\ Copy(c)' = Copy(c)
    <3>1. \A c \in Clients : Following(c)' <=> Following(c)
      BY <2>1, SameFollower
    <3>2. QED
      BY <2>1, <3>1 DEF Copy
  <2>3. [c \in Clients |-> Copy(c)]' = [c \in Clients |-> Copy(c)]
    BY <2>2
  <2>4. Abstract!Make
    BY <2>1, <2>2, <2>3, SameFollowers DEF Abstract!Make, Copy
  <2>5. QED
    BY <2>4 DEF Abstract!Next
<1>2. ASSUME UNCHANGED <<applied, hpc, gone, wire, view>> PROVE UNCHANGED Abstract!vars
  BY <1>2, SameFollower, Unseen
<1>3. ASSUME BeginBroadcast \/ EndBroadcast \/ Push \/ UNCHANGED vars
      PROVE  UNCHANGED Abstract!vars
  BY <1>2, <1>3 DEF BeginBroadcast, EndBroadcast, Push, vars, cvars
<1>4. ASSUME NEW c \in Clients, SendUpdate(c) PROVE UNCHANGED Abstract!vars
  <2> USE <1>4 DEF SendUpdate
  <2>1. ASSUME NEW d \in Clients PROVE Following(d)' <=> Following(d)
    <3>1. Served(d)' <=> Served(d)
      BY DEF Served
    <3>2. CASE wire'[d] = wire[d]
      BY <3>1, <3>2 DEF Following, IsList
    <3>3. CASE wire'[d] = Append(wire[d], UpdateMessage(payload))
      <4>1. /\ Len(wire[d]) \in Nat
            /\ DOMAIN wire[d] = 1 .. Len(wire[d])
            /\ DOMAIN wire'[d] = 1 .. Len(wire[d]) + 1
            /\ \A i \in 1 .. Len(wire[d]) : wire'[d][i] = wire[d][i]
            /\ wire'[d][Len(wire[d]) + 1] = UpdateMessage(payload)
        BY <3>3 DEF IInv, TypeOK
      <4>2. ~IsList(UpdateMessage(payload))
        BY DEF IsList, UpdateMessage
      <4>3. (\A i \in DOMAIN wire'[d] : ~IsList(wire'[d][i]))
               <=> \A i \in DOMAIN wire[d] : ~IsList(wire[d][i])
        BY <4>1, <4>2
      <4>4. QED
        BY <3>1, <4>3 DEF Following, IsList
    <3>4. QED
      BY <3>2, <3>3 DEF IInv, TypeOK
  <2>2. QED
    BY <2>1, Unseen
<1>5. ASSUME NEW c \in Clients, EndSession(c) PROVE UNCHANGED Abstract!vars
  <2> USE <1>5 DEF EndSession
  <2>1. ASSUME NEW d \in Clients PROVE Following(d)' <=> Following(d)
    BY DEF Following, Served, IsList, IInv, TypeOK
  <2>2. QED
    BY <2>1, Unseen
<1>6. ASSUME NEW c \in Clients,
             Join(c) \/ SendFullList(c) \/ CloseConnection(c) \/ Leave(c)
      PROVE  /\ UNCHANGED applied /\ view \in [Clients -> Logs]
             /\ \A d \in Clients \ {c} :
                   UNCHANGED <<hpc[d], wire[d], view[d]>> /\ (d \in gone' <=> d \in gone)
  BY <1>6 DEF Join, SendFullList, CloseConnection, Leave, IInv, TypeOK
<1>7. ASSUME NEW c \in Clients, Join(c) \/ SendFullList(c) PROVE UNCHANGED Abstract!vars
  <2>1. ~Following(c)
    BY <1>7 DEF Join, SendFullList, Following, Served
  <2>2. ~Following(c)'
    <3>1. CASE Join(c)
      BY <3>1 DEF Join, Following, Served, IInv, TypeOK
    <3>2. CASE SendFullList(c)
      <4>1. wire'[c] = Append(wire[c], ListMessage(applied)) /\ wire[c] \in Seq(Messages)
        BY <3>2 DEF SendFullList, IInv, TypeOK
      <4>2. /\ Len(wire[c]) + 1 \in DOMAIN wire'[c]
            /\ wire'[c][Len(wire[c]) + 1] = ListMessage(applied)
        BY <4>1
      <4>3. QED
        BY <4>2 DEF Following, IsList, ListMessage
    <3>3. QED
      BY <1>7, <3>1, <3>2
  <2>3. QED
    BY <1>6, <1>7, <2>1, <2>2, OneFollower
<1>8. ASSUME NEW c \in Clients, CloseConnection(c) \/ Leave(c)
      PROVE  Abstract!Leave(c) \/ UNCHANGED Abstract!vars
  <2>1. ~Following(c)'
    BY <1>8 DEF CloseConnection, Leave, Following, Served, IInv, TypeOK
  <2>2. QED
    BY <1>6, <1>8, <2>1, OneFollower
<1>9. ASSUME NEW c \in Clients, Session(c) PROVE [Abstract!Next]_(Abstract!vars)
  BY <1>5, <1>7, <1>8, <1>9, ReadingRefines DEF Session, Abstract!Next
<1>10. QED
  BY <1>1, <1>3, <1>4, <1>9 DEF Next, Updater, PushAction, PushAdopt

\* The server with its clients implements the followed log: whoever has the list
\* makes the server's mutations one at a time and in order, each step leaving a
\* copy of what the server had made, and never goes back.
THEOREM Refinement == Spec => ImplementsFollowedLog
<1>1. Init => ListsAreBeginnings /\ Abstract!Init
  <2> SUFFICES ASSUME Init PROVE ListsAreBeginnings /\ Abstract!Init
    OBVIOUS
  <2>1. ListsAreBeginnings
    BY DEF Init, ListsAreBeginnings
  <2>2. \A c \in Clients : ~Following(c)
    BY DEF Init, Following, Served
  <2>3. QED
    BY <2>1, <2>2 DEF Init, Abstract!Init
<1>2. IInv /\ ListsAreBeginnings /\ [Next]_vars
         => ListsAreBeginnings' /\ [Abstract!Next]_(Abstract!vars)
  BY ListsInductive, StepRefines
<1>3. QED
  BY <1>1, <1>2, InvariantHolds, PTL DEF Spec, ImplementsFollowedLog, Abstract!Spec
=============================================================================
