------------------------------ MODULE Channel -------------------------------
(***************************************************************************)
(* One direction of a connection: Channel::write and Channel::read         *)
(* (src/src/common/channel.hpp) over the sockets of network.hpp.  The      *)
(* writers are threads of one process: on the server the connection        *)
(* handler, which sends the full list, and the updater, which have no      *)
(* mutex in common when they write.                                        *)
(*                                                                         *)
(* The bytes of a message are a few cells: one for the magic bytes and one *)
(* for the size, the header; then as many as it has of payload.  write(2)  *)
(* copies a message as the kernel's buffer has room for it, and another    *)
(* thread's write may get the room that comes free.                        *)
(***************************************************************************)
EXTENDS Integers, Sequences, FiniteSets, SequencesExt, FiniteSetsExt

CONSTANTS
    Writers,    \* threads that write
    Program,    \* Program[w][n]: payload size of the n-th message w writes
    Capacity,   \* room of the kernel's buffers between the two ends
    HasTimeOut  \* the reader gives up when nothing arrives for long

ASSUME ChannelAssumption ==
    /\ IsFiniteSet(Writers)
    /\ \A w \in Writers : Program[w] \in Seq(Nat \ {0})
    /\ Capacity \in Nat \ {0} /\ HasTimeOut \in BOOLEAN

HeaderSize == 2

Messages == UNION {{<<w, n>> : n \in DOMAIN Program[w]} : w \in Writers}
Size(m) == Program[m[1]][m[2]]
Length(m) == HeaderSize + Size(m)

MaxSize == Max({Size(m) : m \in Messages})

VARIABLES
    stream,     \* every cell that was put into the connection
    taken,      \* how many of them were taken out
    conn,       \* the writers' end: open, closed (FIN), or reset (RST)
    reset,      \* the writers' end knows that the reader's is closed
    wpc, wnext, wput,     \* each writer, its message, and the cells it has put
    rpc, need, bytes,     \* the reader, how many cells it waits for, `vec_bytes'
    received, status      \* payloads read so far, and the status of the last read

wvars == <<wpc, wnext, wput>>
rvars == <<rpc, need, bytes, received, status>>
vars == <<stream, taken, conn, reset, wvars, rvars>>

CellsOf(m) == {[msg |-> m, at |-> i] : i \in 1 .. Length(m)}
Cells == UNION {CellsOf(m) : m \in Messages}

\* What was taken out and not yet returned or refused is in `bytes'.
TypeOK ==
    /\ stream \in Seq(Cells) /\ taken \in 0 .. Len(stream)
    /\ Len(stream) - taken \in 0 .. Capacity
    /\ conn \in {"open", "closed", "reset"} /\ reset \in BOOLEAN
    /\ wpc \in [Writers -> {"idle", "polled", "writing", "ended", "killed"}]
    /\ wnext \in [Writers -> Nat] /\ wput \in [Writers -> Nat]
    /\ \A w \in Writers :
        /\ wnext[w] \in 1 .. Len(Program[w]) + 1
        /\ wput[w] # 0 => wput[w] < Length(<<w, wnext[w]>>)
    /\ rpc \in {"idle", "header", "payload", "ended"} /\ need \in Nat
    /\ bytes \in Seq(Cells) /\ Len(bytes) <= taken
    /\ bytes = SubSeq(stream, taken - Len(bytes) + 1, taken)
    /\ rpc = "header" => Len(bytes) + need = HeaderSize
    /\ received \in Seq(Seq(Cells))
    /\ status \in {"ok", "time_out", "hung_up", "end_of_file", "errno",
                  "invalid_header", "closed"}

Init ==
    /\ stream = <<>> /\ taken = 0 /\ conn = "open" /\ reset = FALSE
    /\ wpc = [w \in Writers |-> "idle"]
    /\ wnext = [w \in Writers |-> 1]
    /\ wput = [w \in Writers |-> 0]
    /\ rpc = "idle" /\ need = 0 /\ bytes = <<>>
    /\ received = <<>> /\ status = "ok"

Available == Len(stream) - taken
Room == Capacity - Available

-----------------------------------------------------------------------------
(* Channel::write *)

Writing(w) == <<w, wnext[w]>>

\* poll({ POLLOUT }): without a time-out.
PollOut(w) ==
    /\ wpc[w] = "idle" /\ wnext[w] <= Len(Program[w]) /\ conn = "open"
    /\ Room > 0 /\ ~reset
    /\ wpc' = [wpc EXCEPT ![w] = "polled"]
    /\ UNCHANGED <<stream, taken, conn, reset, wnext, wput, rvars>>

\* POLLHUP: HUNG_UP is returned.  The updater goes on to its next message.
WriteHungUp(w) ==
    /\ wpc[w] = "idle" /\ wnext[w] <= Len(Program[w]) /\ conn = "open"
    /\ reset
    /\ wnext' = [wnext EXCEPT ![w] = @ + 1]
    /\ UNCHANGED <<stream, taken, conn, reset, wpc, wput, rvars>>

BeginWrite(w) ==
    /\ wpc[w] = "polled" /\ conn = "open"
    /\ wpc' = [wpc EXCEPT ![w] = "writing"]
    /\ UNCHANGED <<stream, taken, conn, reset, wnext, wput, rvars>>

\* Mutant: header and payload are written one after the other.
Copied_HeaderFirst(w) ==
    IF wput[w] < HeaderSize THEN Min({Room, HeaderSize - wput[w]})
    ELSE Min({Room, Length(Writing(w)) - wput[w]})

\* How many cells of w's message fit.
Copied(w) == Min({Room, Length(Writing(w)) - wput[w]})

\* write(2) puts what there is room for; with the last cell it returns.
PutCells(w) ==
    LET m == Writing(w)
        put == wput[w] + Copied(w)
        whole == put = Length(m)
    IN  /\ wpc[w] = "writing" /\ conn = "open" /\ ~reset
        /\ Room > 0
        /\ stream' = stream \o [i \in 1 .. Copied(w) |-> [msg |-> m, at |-> wput[w] + i]]
        /\ wput' = [wput EXCEPT ![w] = IF whole THEN 0 ELSE put]
        /\ wnext' = [wnext EXCEPT ![w] = IF whole THEN @ + 1 ELSE @]
        /\ wpc' = [wpc EXCEPT ![w] = IF whole THEN "idle" ELSE @]
        /\ UNCHANGED <<taken, conn, reset, rvars>>

\* The reader is gone: a write that has put some cells returns their number,
\* which is "fewer bytes than expected" and ends the message.
WriteFallsShort(w) ==
    /\ wpc[w] = "writing" /\ conn = "open" /\ reset
    /\ wput[w] > 0
    /\ wput' = [wput EXCEPT ![w] = 0]
    /\ wnext' = [wnext EXCEPT ![w] = @ + 1]
    /\ wpc' = [wpc EXCEPT ![w] = "idle"]
    /\ UNCHANGED <<stream, taken, conn, reset, rvars>>

\* One that has put none raises SIGPIPE, which nothing ignores.
WriteRaisesSigpipe(w) ==
    /\ wpc[w] = "writing" /\ conn = "open" /\ reset
    /\ wput[w] = 0
    /\ wpc' = [v \in Writers |-> "killed"]
    /\ wput' = [v \in Writers |-> 0]
    /\ conn' = "closed"
    /\ UNCHANGED <<stream, taken, reset, wnext, rvars>>

\* The process ends, or closes its end of the connection, in the middle of a
\* write as well.  The kernel sends FIN, but RST if it has unread bytes itself.
CloseWriters ==
    /\ conn = "open"
    /\ conn' \in {"closed", "reset"}
    /\ wpc' = [v \in Writers |-> "ended"]
    /\ wput' = [v \in Writers |-> 0]
    /\ UNCHANGED <<stream, taken, reset, wnext, rvars>>

-----------------------------------------------------------------------------
(* Channel::read.  Every caller ends its session when a read fails. *)

EndRead(why) ==
    /\ status' = why
    /\ rpc' = "ended" /\ need' = 0 /\ bytes' = <<>>
    /\ UNCHANGED <<stream, taken, conn, reset, wvars, received>>

\* Mutant: what was read before is kept.
Await_KeepsBytes(n, pc) == rpc' = pc /\ need' = n /\ UNCHANGED bytes

Await(n, pc) == rpc' = pc /\ need' = n /\ bytes' = <<>>

\* Mutant: POLLHUP is taken for any end of the peer.
HangUp_AnyEnd == conn # "open"

\* POLLHUP.  A peer that has just closed its end is no hang-up on a TCP socket.
HangUp == conn = "reset"

\* poll({ POLLIN }) reports something to read, or the end of it.
PollIn ==
    /\ rpc = "idle" /\ ~HangUp
    /\ Available > 0 \/ conn = "closed"
    /\ Await(HeaderSize, "header")
    /\ UNCHANGED <<stream, taken, conn, reset, wvars, received, status>>

\* It is looked at before what is still in the buffer.
ReadHungUp == rpc = "idle" /\ HangUp /\ EndRead("hung_up")

ReadTimesOut ==
    /\ HasTimeOut
    /\ rpc = "idle" /\ conn = "open" /\ Available = 0
    /\ EndRead("time_out")

\* Mutant: it is asked for everything again.
RecvSome_Again ==
    /\ rpc \in {"header", "payload"}
    /\ \E k \in 1 .. Min({Available, need}) :
          /\ bytes' = bytes \o SubSeq(stream, taken + 1, taken + k)
          /\ taken' = taken + k
          /\ need' = IF k < need THEN need ELSE 0
    /\ UNCHANGED <<stream, conn, reset, wvars, rpc, received, status>>

\* recv with MSG_WAITALL goes on until it has all it was asked for.
RecvSome ==
    /\ rpc \in {"header", "payload"}
    /\ \E k \in 1 .. Min({Available, need}) :
          /\ bytes' = bytes \o SubSeq(stream, taken + 1, taken + k)
          /\ taken' = taken + k
          /\ need' = need - k
    /\ UNCHANGED <<stream, conn, reset, wvars, rpc, received, status>>

\* Nothing more will come.
RecvEnds ==
    /\ rpc \in {"header", "payload"}
    /\ need > 0 /\ Available = 0 /\ conn # "open"
    /\ EndRead(IF bytes = <<>> /\ conn = "closed" THEN "end_of_file" ELSE "errno")

\* The magic bytes are where they should be.  (Payload that looks like them is
\* left out.)
HasMagic(cells) == cells[1].at = 1

\* Mutant: the size counts the header.
SizesIn_WithHeader(cells) ==
    IF cells[2].at = 2 THEN {HeaderSize + Size(cells[2].msg)} ELSE 1 .. MaxSize

\* The sizes a header may be read to have: any, if it is torn.
SizesIn(cells) == IF cells[2].at = 2 THEN {Size(cells[2].msg)} ELSE 1 .. MaxSize

HeaderArrives ==
    /\ rpc = "header" /\ need = 0 /\ HasMagic(bytes)
    /\ \E n \in SizesIn(bytes) : Await(n, "payload")
    /\ UNCHANGED <<stream, taken, conn, reset, wvars, received, status>>

HeaderIsInvalid == rpc = "header" /\ need = 0 /\ ~HasMagic(bytes) /\ EndRead("invalid_header")

PayloadArrives ==
    /\ rpc = "payload" /\ need = 0
    /\ received' = Append(received, bytes)
    /\ Await(0, "idle") /\ status' = "ok"
    /\ UNCHANGED <<stream, taken, conn, reset, wvars>>

\* The reader's caller closes its end at any time: writes notice a while later.
CloseReader ==
    /\ rpc # "ended"
    /\ EndRead("closed")

ResetArrives ==
    /\ rpc = "ended" /\ conn = "open" /\ ~reset
    /\ reset' = TRUE
    /\ UNCHANGED <<stream, taken, conn, wvars, rvars>>

-----------------------------------------------------------------------------
Write(w) ==
    \/ PollOut(w) \/ WriteHungUp(w) \/ BeginWrite(w) \/ PutCells(w)
    \/ WriteFallsShort(w) \/ WriteRaisesSigpipe(w)

Read ==
    \/ PollIn \/ ReadHungUp \/ RecvSome \/ RecvEnds
    \/ HeaderArrives \/ HeaderIsInvalid \/ PayloadArrives

Next ==
    \/ \E w \in Writers : Write(w)
    \/ Read \/ ReadTimesOut \/ CloseReader \/ ResetArrives \/ CloseWriters

\* Both ends run.  A writer that waits for room gets some when there is room
\* again and again.  Nobody need close, or wait so long that it times out.
Fairness == WF_vars(Read) /\ \A w \in Writers : SF_vars(Write(w))

Spec == Init /\ [][Next]_vars /\ Fairness

-----------------------------------------------------------------------------
(* Properties *)

Begins(i) == stream[i].at = 1
Ends(i) == stream[i].at = Length(stream[i].msg)

\* Two messages were put into the stream in pieces, not one after the other.
Torn ==
    \E i \in 1 .. Len(stream) - 1 :
        stream[i].msg # stream[i + 1].msg /\ ~(Ends(i) /\ Begins(i + 1))

\* conn_handler.cpp:167 and updater.cpp:62 write to the same connection at any
\* time, yet a message is only torn when the buffers were full: every write is a
\* single one, so as long as there is room the messages stay whole.
TornOnlyWhenFull == Torn => Len(stream) > Capacity

\* However the bytes arrive, the reader does not lose its place among them: it
\* finds a header where it expects one, unless messages were torn.
KeepsItsPlace == status = "invalid_header" => Torn

EndsUpTo(k) == {i \in 1 .. k : Ends(i)}

\* Where the k-th message to end in the stream does so.
EndAt(k) == CHOOSE i \in {j \in EndsUpTo(Len(stream)) : Cardinality(EndsUpTo(j)) = k} : TRUE

\* The messages that are whole in the stream, in order.
Whole == [k \in 1 .. Cardinality(EndsUpTo(Len(stream))) |-> stream[EndAt(k)].msg]

\* The message a payload that was read is the payload of.
MessageOf(cells) ==
    IF /\ Len(cells) = Size(cells[1].msg)
       /\ \A i \in 1 .. Len(cells) :
            cells[i] = [msg |-> cells[1].msg, at |-> HeaderSize + i]
    THEN cells[1].msg ELSE <<>>

Ended ==
    IF rpc # "ended" THEN "no" ELSE IF status = "end_of_file" THEN "eof" ELSE "lost"

Pipe == INSTANCE MessagePipe WITH
    sent <- Whole,
    got <- [k \in 1 .. Len(received) |-> MessageOf(received[k])],
    ended <- Ended,
    torn <- Torn

\* Until messages are torn, what is read is what was written, message by message,
\* and all of it when the reader is told that the stream is at its end.
ImplementsPipe == Pipe!Spec

\* A message that a writer has begun is read in the end, larger than the buffers
\* or not.  If the writers' process ends in good order, those that are whole are:
\* unless it is the reader that gives up, the connection is reset or messages
\* are torn.
MessagesArrive ==
    \A m \in Messages :
        wpc[m[1]] = "writing" /\ wnext[m[1]] = m[2]
            ~> \/ \E k \in DOMAIN received : MessageOf(received[k]) = m
               \/ conn = "closed" /\ m \notin ToSet(Whole)
               \/ status \in {"time_out", "closed"} \/ conn = "reset" \/ Torn
=============================================================================
