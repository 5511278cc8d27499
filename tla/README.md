# NetSketch in TLA+

NetSketch is a collaborative drawing program in C++: a server keeps a list of
drawings and their owners (the *tagged draw vector*), clients send changes to
it, and the server sends every change to every client.  This directory holds
TLA+ models of its concurrent parts, the TLC runs that check them, and proofs
that TLAPS checks.  Paths in this document are relative to the repository,
which is taken to be `src/`; so `src/server/server.cpp` is what `PROJECT.json`
calls `src/src/server/server.cpp`, and `main.tex` is `report/main.tex`.

## 1. The system

### Server (`src/server`)

| part | state | operations | interacts with |
|---|---|---|---|
| accept loop (`server.cpp`, main thread) | `username`, `conn_sock` of the client being served | accept, handshake, name check, reconnection, registration, creating a handler, trimming dead ones | every shared set; handlers through `pthread_create` |
| connection handler (`conn_handler.cpp`), one thread per client | socket, name | send the full list; read and push payloads; create a timer; cleanup | payload queue, `connections`, `users`, `timers` |
| updater (`updater.cpp`), one thread | the payload in hand | take from the queue, mutate the vector, write to every connection | queue and vector (`update_mutex`), `connections` (`connections_mutex`) |
| adoption timers (`timing.cpp`) | `TimerData`, a POSIX timer with `SIGEV_THREAD` | set, expire (push an Adopt, erase itself), erase at a reconnection | `timers`, payload queue; a raw pointer to the `TimerData` |
| shared state (`share.hpp`) | `users`, `connections`, `threads`, `timers`, `payload_queue`, `tagged_draw_vector` | each behind a mutex of its own (queue and vector share one) | - |
| start, shutdown (`runner.cpp`, `server.cpp`) | SIGINT handler | cancel the handlers and the updater, join | `threads` |

### Client (`src/client`)

| part | state | operations | interacts with |
|---|---|---|---|
| reader thread (`reader.cpp`) | - | read a message and make it to `vec1`, then to `vec2` | both vectors, each under a read-write lock; shutdown |
| GUI (`gui.cpp`, main thread) | camera | look at whichever vector it can lock | vectors, `run_gui` |
| input thread (`input_handler.cpp`, `input_parser.cpp`) | the tool, the colour, the selected id | a line to tokens, commands to payloads, list, select, exit | vectors, writer's queue, shutdown |
| writer thread (`writer.cpp`) | the payload in hand | take from a queue, write to the server | queue, connection, shutdown |
| start, shutdown (`runner.cpp`) | the thread objects in `share::` | create, cancel, join | all threads |

### Common (`src/common`) and the smaller programs

The mutations of the drawing (`tagged_draw_vector_wrapper.hpp`), the channel
with its framing and time-outs, sockets, thread and lock wrappers; the test
client (`src/test_client`), which has the client's reader and writer and pushes
random actions in the user's place; the exporter (`src/exporter`), which reads one
message and renders it; and the benchmarks.

### What makes it hard

* **Concurrency.** The server's sets are protected one by one, never together,
  so that what they say about one session has to agree without any step that
  sees them all.  Lookup and insertion of a name are separate critical sections.
* **Reuse.** Names, descriptors, thread identities and the addresses of freed
  `TimerData` come back, while a thread that knows the old owner still runs.
* **Ordering.** The server is right only if every replica makes the same
  mutations in the same order, and a client joins in the middle of them.
* **Cancellation and time-outs.** Threads are ended by `pthread_cancel` with
  cleanup handlers, connections by time-outs, and timers race with the users
  they wait for.
* **Early returns.** Each error path has to leave the shared state as the
  ordinary path does.

`PROJECT.json` lists 38 such hazards at their lines.  The properties are aimed
at them.

### What it means for a part to be correct

* Sessions: one session per name; `users` and `connections` say exactly who is
  being served; a descriptor in use is the session's own; every running handler
  is where shutdown finds it; one timer per user; draws of a user who stays
  away are adopted, and only those.
* Replication: no payload is lost or made twice, all parties make them in one
  order, what the server has made reaches everybody.
* Client drawing: no reader sees a vector that is being changed or goes back
  in time, and its try-lock loop ends.
* Client life cycle: the client ends when it should and then completely.
* Server shutdown: whoever is still running when the main thread joins is listed
  and cancelled; no thread waits for a mutex it holds itself; the server ends.
* Channel: what is read is what was written, message by message and in order,
  and all of it before the end of the file.
* Commands: a selected id names the draw the user chose; nobody's undo, clear or
  adoption touches another's work; commands are made in the order they were
  typed.

## 2. The modules

| module | models | lines up with |
|---|---|---|
| `Sessions` | accept loop, handlers' life, timers | `server.cpp`, `conn_handler.cpp`, `timing.cpp`, `share.hpp` |
| `Adoption` | what becomes of a departed user's draws: `Sessions` with the payload queue and the updater | `timing.cpp`, `conn_handler.cpp`, `updater.cpp` |
| `SessionsProofs` | proofs about both | |
| `MCSessions` | symmetry for TLC | |
| `FollowedLog` | *abstract*: a log, and clients that follow it from a copy | |
| `Replication` | queue, updater, full list, what a client makes of it; implements `FollowedLog` | `updater.cpp`, `conn_handler.cpp`, `timing.cpp`, `reader.cpp` |
| `Canvas` | the mutations of the drawing, as operators | `tagged_draw_vector_wrapper.hpp` |
| `ReplicationProofs` | proofs about `Replication`, and the refinement | |
| `MCReplication` | `Replication` with real drawings: payloads of `Canvas` | |
| `InputParser` | the tokens of a typed line, as operators, and what they should be | `input_parser.cpp` |
| `Commands` | what several users' commands become: input handler, writer, drawing | client `input_handler.cpp`, `writer.cpp` |
| `CommandsProofs` | proofs about it, about `Canvas` and about `InputParser` | |
| `MCCommands` | two users and the lines they type | |
| `Shutdown` | start, SIGINT, cancellation and joining in the server | server `runner.cpp`, `server.cpp`, `updater.cpp`, `conn_handler.cpp`, `threading.hpp` |
| `ShutdownProofs` | proofs about it | |
| `MessagePipe` | *abstract*: whole messages in order, then an end | |
| `Channel` | one direction of a connection; implements `MessagePipe` | `channel.hpp`, `network.hpp` |
| `ChannelProofs` | proofs about it, and the refinement | |
| `MCChannel` | the full list and two updates on one connection | |
| `SharedDrawing` | *abstract*: a regular register | |
| `DoubleInstance` | the two vectors of a client under their locks; implements `SharedDrawing` | client `share.hpp`, `reader.cpp`, `gui.cpp`, `input_handler.cpp` |
| `DoubleInstanceProofs` | proofs about it, and the refinement | |
| `ClientLifecycle` | start, cancellation, joining in the client, the test client and the exporter | `runner.cpp` of the three, `reader.cpp`, `writer.cpp`, `input_handler.cpp`, `threading.hpp` |
| `ClientLifecycleProofs` | proofs about it | |
| `NaturalSets` | lemmas: least and greatest elements, induction and recursion up to a bound | |

How they compose: `Adoption` extends `Sessions`, each of whose steps is one of its
own; `Commands` and `MCReplication` are built on `Canvas`, and
`Commands` on `InputParser`; `Replication`, `DoubleInstance` and `Channel` refine
their abstract specifications.  The others look at one process from different sides,
and each says what it takes from another: `Replication` takes from `Channel`
that messages come whole and in order, `Commands` takes from `FollowedLog` that
replicas follow the server's log from a copy with one repeat at most, `Sessions` and
`Replication` leave SIGINT to `Shutdown`, and `Shutdown` leaves names, and whose
timer is whose, to `Sessions`.

Definitions whose name ends in `_Something` with a comment `Mutant:` are
plausible bugs.  Each takes the place of the definition after it to show that a
property would catch it; none is used by a specification.

### Sessions

One step is one critical section of a mutex, or one call outside of all of them
that other threads can notice.  The main thread's `mpc` follows the accept
loop: `poll`, `handshake` (is_valid_username), `decline` or `accept`, `insert`
(users_mutex), `reconnect` (timers_mutex), `register` (connections_mutex) and
`spawn` (threads_mutex).  Every early `continue` is `DropConnection`: the
socket's destructor closes it.  A handler's `hpc` is `sending`, `reading`,
`timing`, and then the cleanup `closing`, `leaving`, `exiting`; the return at
`conn_handler.cpp:94` goes from `sending` to `closing` directly, since the
cleanup handlers run at a return as well.  A notification thread has the raw
`timer` in `nptr` and the name it read through it in `nname`.

* A closed descriptor may be given out again at once (`AcceptConnection` takes
  any that nobody has open).  A dead handler's identity and a freed timer's
  address are reused too.
* Reading through a pointer to a freed `TimerData` is undefined; the model lets
  the read yield any name, or one that is nobody's.  If another `TimerData` has
  taken the address, the read yields that one's name, and the erasure
  (`timing.cpp:35-40`, by address) erases it.
* What is read and pushed changes none of these sets; it is in `Adoption`.
* `SpawnHandler` is one step: the thread is created and put in `threads` under
  `threads_mutex`, and nothing the new handler does takes that mutex.
* Left out: SIGINT and the failing `poll`, which end the server (`Shutdown`).

### Adoption

An Adopt is done when the updater applies it, not when it is pushed: `back()` and
`pop()` (`updater.cpp:35-37`) never apply a payload that has another behind it.  So
`Adoption` adds the queue and the updater to `Sessions`.  Handlers push what they
read (`PushAction`), notification threads push Adopts (`PushAdoptOfName`), and the
updater applies the newest (`TakePayload`).  One `User` is followed, whoever he is:
`back` is what the newest payload does to his draws, and `owns` whether the vector
has a draw of his made since the last Adopt.  The other payloads of the queue need no
variable: whether the updater still has to take `back` a second time changes nothing,
and what lies before it is never applied.

The code keeps what the report says of departed users under three conditions, and
`ServedSpec` is the server that meets them: no full list fails (`ListsAreSent`), no
freed `TimerData` address is used again while a notification thread has it
(`StaleAddressesRest`), and nothing is pushed behind an Adopt before it is taken
(`AdoptIsPrompt`).  The code ensures none of them, and without any one of the three
there are draws that nothing will ever adopt.  `ListsFailSpec`, which drops the
first, is the subject of a finding; without the third it is finding 1 that bites.

### Replication

`update_mutex` guards the queue and the vector; a critical section of it is one
step (`Push`, `TakePayload`, `SendFullList`).  `connections_mutex` is held while
an update is written to all connections, one `SendUpdate` each, so registering
and erasing wait (`ConnectionsFree`).  Between the two the updater holds neither
(`upc = "applied"`), which is where a client can join.  A vector is the log of
the payloads it was made from; `MCReplication` turns a log into the vector with
`Canvas!Replay` where that matters.  `overtaken` and `pushed` are history.

* A message is written as a whole or, when the client is gone, not at all, and
  messages of one connection arrive in order: TCP, and one writer at a time -
  `SendFullList` and `SendUpdate` are however not excluded from each other by a
  mutex of the connection.  How their bytes interleave on one socket is the
  business of `Channel`.
* The payloads are a fixed sequence `Pushes`: nothing in the model looks into a
  payload except to tell a timer's Adopt from a handler's action, so the order
  in which they are pushed is the order of their names.
* A client slot that comes back starts empty, as a new process does.
* A write to a connection the peer has closed is a failure that is logged
  (`updater.cpp`); that SIGPIPE is not raised is taken for granted.  `Channel`
  shows when it is.
* A client is served (`Served`) as long as its handler reads, or has stopped and
  not yet erased the connection, and the process has not gone.

`FollowedLog` is what `Replication` promises to the clients that have their list.
`made` only grows.  A client enters with a beginning of it (`Enter`) and then makes
one mutation at a time (`Follow`), each of which leaves it with one of the `Copies`
of the log: a beginning of it in which one mutation at most is repeated, at once.
It is never set back, skips nothing, and is not ahead of the server.  The mapping is
`made <- applied`, `following <-` the served clients with no list on their wire
(`Following`), `view <-` what these have made.  An update may be written before the
list; what a client makes of it is thrown away with the list and does not count.

### DoubleInstance and SharedDrawing

`wpc` is the reader thread of the client, the only writer of the vectors: lock,
change and unlock `vec1`, then `vec2`.  Each thread in `Readers` (GUI, list
command) tries `rwlock1`, then `rwlock2`, until it gets one.  The rwlocks are
not variables: who holds one follows from the program counters (`read1`: held
for reading; `write1`: held for writing).  A vector is the number of mutations
made to it.  `got` and `floor` are history: what a thread saw last, and the
oldest drawing it may see now.

`SharedDrawing` says what this promises.  Updates are numbered, a look returns
a drawing between `floor` and the last update begun.  The register is *regular*
and not atomic: while an update has been made to one vector only, the GUI may
see it and the list command afterwards not.  A single thread never goes back.
The mapping is `begun <- vec1`, `completed <- vec2`, `looking <-` the threads
inside the loop.

### Commands, Canvas and InputParser

Each client has the input handler's fields (`tool`, `colour`, `selected`), the
writer's `queue`, and its process's `status`.  A step is a line handled, a
command written, or an end or a start of a process.  `ProcessLine` gets the
tokens that `InputParser!Tokens` makes of the characters typed; each command is
an action with the code's checks in its guard, and a line that fails them has no
effect.  `InputParser!IsWriting` says what the tokens of a line should be without
saying how they are found: they stand in quotes or as words, with blanks between
them.  That every line of up to five characters is a writing of its tokens, or has a
string without an end, is an `ASSUME` of `MCCommands`; of lines of any length it is
proved, and the converse too.

* The server is taken to make a command when it is written.  A command that is slow
  on its way is one that is written later, by a user who has seen less; one that the
  server's queue drops (`Replication`) is one that was never written.
* A client follows at any speed, and from one of `FollowedLog`'s `Copies`:
  `ListCommand` looks at a beginning of `applied` not shorter than the one before, in
  which the last command of the list that the client was sent (`late`) may be there
  twice.  It is, when the client joined while that command was broadcast, and then
  for good (`again`).  If it was a draw, an undo or a delete the client's ids
  differ from the server's from then on (`RepeatShows`), which is the second
  exception of `SelectHitsTheListed`.
* The writer's `back()` and `pop()` is `WriteCommand`, with the write
  (`writer.cpp:33-43`).  When the user exits, whatever is queued may be thrown away
  (`CancelWriter`), and what the writer has in hand is lost in the same way.  So
  `NewestIsNeverLost` speaks of the client's side only.
* `Canvas!Part` is the loop of a clear mine, `Canvas!Replay` the vector after each
  command of a log: recursive functions, so that they can be reasoned about.
* `Canvas!Hash` is the wrapper's `hash()`: an exclusive or over the entries,
  whose hashes are taken to be independent, so that what is left are the entries
  that occur an odd number of times.
* A draw's coordinates are replaced by who typed it and as which of his
  commands.  A numeral is a character with a value, since `std::stoi` reads the
  number a token begins with.  `help` changes nothing, `show` only what the GUI
  draws.
* An id outside of the vector is undefined behaviour in `Canvas!Select`; the
  outcome modelled is a write beyond the elements that leaves them alone.  The
  run does select such ids; `SelectHitsTheListed` says which ids cannot be such.
* `listing`, `typed` and the field `meant` of a Select are history.  `seen`, `late`
  and `again` stand for the client's copy of the drawing.

### Shutdown

`mpc`, `upc` and `hpc` follow the main thread, the updater and the handlers
through what matters to their end: where they hold a mutex, where they wait for
one, and where they are in a cancellation point.  So the updater's two critical
sections have a beginning and an end (`taking` holds `update_mutex`, `broadcasting`
`connections_mutex`), a handler that is no longer alive still runs for a while
(`dying`), and a notification thread, `npc`, holds `update_mutex` while it pushes its
Adopt and `timers_mutex` while it erases its timer.  `holder` is the owner of
`threads_mutex`; who owns the others follows from the program counters
(`UpdateFree`, `ConnectionsFree`, `TimersFree`).  `spc` says which threads run
the SIGINT handler on top of what they were doing: such a thread does nothing else
(`Runs`).  A signal locks `threads_mutex` (`SignalLocks`), then cancels everyone
listed and the updater (`SignalCancels`), which ends the accept loop only if it
interrupted the main thread's `poll`.

* POSIX lets any thread take the signal, and so does the model; Linux prefers the
  main thread.
* A cancelled thread goes on until a cancellation point, then unwinds: `wait`
  takes `update_mutex` again first, a write in a broadcast releases
  `connections_mutex`, a handler runs its cleanup.
* A peer need not read, so a write may never return: nothing obliges
  `SendFullList`, or `FinishBroadcast` with connections, to happen.
* `pthread_cancel` of a thread that has ended but is not joined succeeds (as in
  current C libraries).  Of one that is joined, or never was assigned, it is
  undefined: `SignalCrashes`, or nothing happens.
* `Caught` lists the ways in which a signal ends in a deadlock: it waits in the main
  thread for what that holds itself; or main joins a handler that cannot end
  (`CannotEnd`), because it waits in the signal handler itself, or needs a mutex
  whose owner does (`UpdateIsCaught`, `ConnectionsAreCaught`, `TimersAreCaught`).
  `CaughtForEver` says that each is a deadlock indeed, `EndsOrGoesOn` that there is
  no other.
* `polling` is poll and the way there.  Whether a signal interrupts the one or comes
  on the other is a choice that `SignalCancels` leaves open.
* Only the program's own mutexes are covered: a thread that is interrupted while it
  holds one inside spdlog or the allocator, which others need, is not.
* `poll` fails only when it is interrupted.

### Channel and MessagePipe

One direction of a connection.  A message is a few *cells* - one for the magic
bytes, one for the size, then the payload - and `stream` is every cell ever put
into the connection.  A write is `PollOut`, `BeginWrite` and as many `PutCells` as
it takes; a read is `PollIn`, the header in any pieces (`RecvSome`), then the
payload.  `Capacity` cells fit into the buffers of the kernel, and another
thread's write may get the room in between.  `conn` is how the writers' end is
seen by the reader, `reset` whether the writers know that the reader is gone.

* A torn header may be read to have any size; payload that looks like the magic
  bytes is left out.
* A write to a connection that was reset after the poll raises SIGPIPE if nothing
  was put before (`WriteRaisesSigpipe`, the whole process ends), else it falls
  short.  A cancellation in the middle of a write shows as the process closing.
* POLLHUP is reported when both directions are shut, i.e. after a reset; a peer
  that closed in good order is read to the end of the file.

`MessagePipe` is what `Channel` promises to its reader; the mapping is `sent <-`
the messages that are whole in the stream, `got <-` what the payloads read are
payloads of, `ended <-` whether the reader was told that it is the end, or lost
the rest.  Once two writes are torn it promises nothing.

### ClientLifecycle

`program` says which of the three programs runs.  The main thread connects and is
let in or not (`SetupSucceeds`, `SetupFails`); the exporter then reads one
message (`ExportList`).  The client creates reader, writer and input thread, the
test client reader and writer (`CreateThread`; the thread runs before the object
is assigned in `share::`, `AssignThread`); then it leaves the GUI when `run_gui` is
false, or has pushed all its actions (`EndSimulation`), and joins in the destructor
the threads that are initialized.  `shutdown()` exists five times in the code,
with different victims in a different order (`First`, `Second`); each victim is
looked up (initialized and alive) and then cancelled.  Cancellation takes effect in
blocking calls and in the log message between the loop and `shutdown()` of the
reader and the writer.  The assignment of a thread object races with the lookup
in other threads; it is taken to be atomic.

## 3. The runs

| run | config | result | shows |
|---|---|---|---|
| `sessions` | `Sessions.cfg` | holds, 110 k states | the seven safety properties of the server's sets |
| `adoption` | `Adoption.cfg` | holds, 682 k states | under the three conditions a departed user's draws are awaited by a timer and adopted in the end; when an Adopt can hit a connected user |
| `adoption_list_fails` | `AdoptionListFails.cfg` | **violated** | if a full list may fail, draws can be left unadopted for ever |
| `replication` | `Replication.cfg` | holds, 271 k states | each replica follows the server as `FollowedLog` says, updates arrive; the queue, while it holds one payload |
| `replication_converges` | `ReplicationConverges.cfg` | **violated** | a joining client can make a draw twice |
| `replication_loses` | `ReplicationLoses.cfg` | **violated** | with two payloads queued one is lost |
| `double_instance` | `DoubleInstance.cfg` | holds, 6.9 k states | no torn look, no step back, regular register, looks end |
| `client_lifecycle` | `ClientLifecycle.cfg` | holds, 4.4 k states | a program that has started stops completely, and so does one that is not let in |
| `client_hangs` | `ClientHangs.cfg` | **violated** | one that is still starting may not |
| `commands` | `Commands.cfg` | holds, 921 k states | selected ids, other users' work, adoption, the order of commands, what the hash tells of a repeated one |
| `shutdown` | `Shutdown.cfg` | holds, 626 k states | everybody is told to end; one SIGINT is safe but in one place; the signal handler returns and an interrupted server ends unless it is caught, and then it is caught for ever |
| `channel` | `Channel.cfg` | holds, 39 k states | a pipe of whole messages, until two writes are torn, which takes full buffers |

Deadlock is checked except in `shutdown` and `channel`, where the system really
stops: the server ends, or deadlocks when it is caught (its properties say when);
a connection has nothing more to carry.  `ClientLifecycle` has an action
`Finished` for the end of the process.

### Bounds

* `Sessions`: two names, three descriptors, three handlers, two timer addresses,
  one notification thread.  Three sessions are needed for one that leaves, one
  that takes its name and a stranger that gets its descriptor; two names for a
  wrong one; two addresses for a timer that moves and one that is reused.  A
  second notification thread would let two expirations interleave; the proofs
  cover any number.
* `Adoption`: the user followed and another, two descriptors and two handlers: a
  session that leaves and one that takes its place or its name.
* `Replication`: two clients, three payloads (a draw, an Adopt, another user's
  draw; each pushed once): enough to queue two, and to join while a third is
  broadcast.  Every client may come and go without limit.  The violations need
  only two draws.
* `DoubleInstance`: the two threads that exist in the code, three mutations.
  `MaxUpdates` bounds only how many arrive; the proofs hold for any bound.
* `ClientLifecycle` has no bound: the state space is the programs'.
* `Commands`: two users, three commands that go to the server (`MaxTyped`; lists,
  selects, colours and tools are free), one adoption.  Three are needed for
  something to be drawn, erased and selected, or for two commands to pile up
  behind one; one user does what invalidates what the other has seen.  Colours are
  part of a draw, but no property depends on them: the one that is accepted is
  black, and the numerals 0, 1 and 256 are ids and coordinates too.
* `Shutdown`: two handlers, so that one can be joined while another holds
  something; two signals, since one is safe nearly everywhere; a notification thread, which can keep a handler
  from ending; and one payload at a time in the queue, since all that matters of it
  here is whether the updater has something to take.
* `Channel`: two writers; a list of four cells of payload, which with its header
  is larger than the five cells of the buffers, and two updates, one of which
  follows the other on the same thread.  So writes block, tear each other, and
  leave a header or a payload in pieces.

### Fairness

* `TimersRun` (Adoption): the kernel lets a set timer expire and its
  notification thread run.  Handlers, clients and the main thread need no
  fairness for what is claimed.  Expiry is *strongly* fair only because the
  model has a bounded set of notification threads, which can be busy over and
  over; the kernel makes a new one.  `UpdaterRuns`: the updater takes what is
  queued, as in `Replication`.
* `Replication!Fairness`: the updater runs whenever it can; a handler sends its
  list; a client reads what has arrived.  Nothing forces pushes, arrivals,
  departures or time-outs.
* `DoubleInstance!FairSpec`: a thread inside the try-lock loop keeps running.
  The writer is not fair, and `LooksEnd` is claimed only when from some time on
  the writer is not found inside a critical section for ever after: two
  try-locks can in principle meet it each time.
* `ClientLifecycle!Fairness`: threads that can move do, and a reader whose
  server is gone notices.  The user need not type, and a writer with nothing to
  write notices nothing.
* `Shutdown!Fairness`: threads run, but nobody has to connect and no write to a
  client has to return before it is cancelled.  `SignalLocks` is strongly fair: a
  mutex that is free again and again is taken in the end.  A timer need not expire,
  but its notification thread runs once it has (`NotifierWorks`).  Nothing makes the
  accept loop go back to `poll`: a client may keep it in the handshake.
* `Channel!Fairness`: reader and writers run; a writer is strongly fair because
  the room it waits for may be taken by the other.  Nobody need close or time out.
* `Commands` claims no liveness.

### Findings

1. `updater.cpp:35`: `payload_queue.back()` is taken but the *front* is popped.
   With two queued payloads the newer is applied twice and the older never
   (`replication_loses`).  `PromptUpdaterIsFIFO` says exactly when this cannot
   happen: as long as no payload is pushed behind another.  What is lost may be an
   Adopt: its timer is gone (`timing.cpp:43`), and the user's draws are not adopted
   unless he comes back and leaves again (`AdoptIsPrompt` in `Adoption` is what it
   takes).
2. `conn_handler.cpp:165`, `server.cpp:177`: the connection is registered before
   the list is copied; an update that is between the vector and the broadcast is
   in the list and sent again (`replication_converges`).
   `ReplicaRepeatsAtMostOne` says that this is the whole damage: one mutation,
   twice in a row.  The ids that such a client lists may be off by one, though
   nothing was erased (`RepeatShows` in `SelectHitsTheListed`).
3. `conn_handler.cpp:94`: a session whose full list fails sets no timer, while
   the timer of the session before it has already been erased
   (`adoption_list_fails`).
4. `reader.cpp:166`: a connection that ends while the client still creates its
   threads leaves the writer or the input thread uncancelled, and the main
   thread joins it for ever (`client_hangs`).

These were met as well; no run is kept for them:

* `timing.cpp:31`: a timer that has expired adopts the draws of a user who has
  come back meanwhile, and its `TimerData` may have been freed under it.
  `AwaitedUsersAreAway` says that this is the only way: as long as the
  `TimerData` is in place (and its address is not reused under the notification
  thread), its user is away: a look under `timers_mutex` would tell.
* `server.cpp:184-186`: "we do not want to create a thread if cancellation has
  occurred".  But nobody cancels the main thread, and `test_cancel` has no effect:
  a SIGINT that does not interrupt `poll` - in the handshake, or taken by another
  thread - ends the updater and leaves the accept loop running.
* `runner.cpp:54`: SIGINT in the main thread while it holds `threads_mutex` to
  spawn a handler blocks the thread for ever.  A second SIGINT, while the main
  thread joins, can do so in a handler, in the updater inside its `update_mutex` or
  `connections_mutex` section, or in a notification thread inside its
  `update_mutex` or `timers_mutex` section (`Caught`).
* `writer.cpp:33`: the client's queue loses and repeats commands as the server's
  does.  `NeverBackInTime` and `NewestIsNeverLost` say what is left of a queue.
* `conn_handler.cpp:167`: the list and an update tear each other when the buffers
  are full, and the reader may then refuse the rest (`TornOnlyWhenFull` and
  `KeepsItsPlace` delimit it).
* `tagged_draw_vector_wrapper.hpp:28`: the report compares replicas by their
  hashes (main.tex:1076-1079), which do not depend on the order of the draws, and
  in which two equal ones cancel out.  `HashTellsARepeat` says what they tell
  nevertheless: a replica that makes the newest command twice has another hash, or
  the same drawing.  Once further commands have been made this is lost: u draws x, v
  draws a and a again, w modifies the third draw into b, and u undoes twice.  That
  leaves a, b - and b, a if x was made twice.
* `channel.hpp:226`: SIGPIPE.  `channel.hpp:149`: half a header is waited for
  without a time-out.  `input_handler.cpp:32`: the end of the input is not
  noticed.  `exporter/runner.cpp:140`: an update may come before the list.

## 4. The proofs

TLAPS checks that every safety property of the passing runs, and each of the three
refinements, holds for all values of the constants, under the assumptions that the
modules name.  In each case the property is not inductive by itself; the invariant
that is was first checked by TLC on the run's configuration.

**Sessions** (`SessionsProofs`, for any finite or infinite sets of names,
descriptors, handlers, addresses and notification threads; assumption
`NullsAreFresh`: the null values are not ordinary ones).  Proved: `TypeCorrect`,
`OneSession`, `UsersExact`, `OwnConnection`, `ConnectionsExact`, `OneTimer` and
`RunningListed`, i.e. every invariant of the run `sessions`, and of the run
`adoption` `DepartedAwaited` and `AwaitedAway`.

The invariant `IInv` has five parts:
`LocalsInv` (types, and what the locals of each thread hold at each program
point), `NamesInv`, `ConnectionsInv`, `TimersInv` and `RunningHandlersAreListed`.
`NamesInv` adds that the main thread's name is still free at `accept` and
`insert`: only the main thread inserts and handlers only remove, which is why
lookup and insertion need not be one critical section.  `ConnectionsInv` adds
that the accepted descriptor is nobody's until it is registered, and no handler's
until the handler is spawned; it rests on a descriptor being closed and taken out
of the set in one step.  `TimersInv` adds that a `TimerData` is allocated exactly
while it is listed; it rests on `NamesInv`, since a handler creates its timer
while it still holds its name, and the `reconnect` step of the same name has
erased the one before.  Lemmas prove each part stable under the main thread, the
handlers and the notification threads, one step per action.

The two about adoption are of `ServedSpec`, for any `User` (assumption
`UserHasAName`); without its conditions `DepartedAwaitAdoption` is false
(the first: `adoption_list_fails`).  A step of `Adoption` is one of
`Sessions` or leaves its variables alone, so `IInv` holds there too.  `ServedInv`
adds that a timer has one notification thread at most, that the name a thread read is
that of its `TimerData` while that is listed, and that whoever is about to leave
with draws of his own has his timer by the time that his name becomes free
(`LeavingIsAwaited`).  It needs that nothing gives a user draws once his handler has
stopped reading, neither a payload behind a queued Adopt nor its application
(`OwnedBefore`).

**DoubleInstance** (`DoubleInstanceProofs`, any `Readers`; assumption
`UpdatesAssumption`: `MaxUpdates` is a natural number).  Proved: `TypeCorrect`,
`NeverTorn`, and `Refinement`, `Spec => IsRegularRegister`, which includes that no
thread goes back to an older drawing.  The invariant adds `InStep` (`vec1` is one ahead exactly from the change of the one
to the change of the other) and `Floors`: what a thread may rely on is at most
`vec1`, and once it tries `rwlock2` at most `vec2`.  The second part holds because
it goes there only when `rwlock1` is held for writing, which by `InStep` is when
the two vectors are equal.  A loop that tried `rwlock2` first would not have it
(mutant `StartLooking_SecondFirst`).

**Replication** (`ReplicationProofs`, any clients and any sequence of distinct
payloads; assumptions `PushesAreASequence`, `PushesAreDistinct`,
`AdoptsArePayloads`, `NoneIsFresh`).  Proved: `TypeCorrect`, `ReplicasFollow`,
`NewestIsNeverLost`, `PromptIsFIFO` and `Refinement`, `Spec =>
ImplementsFollowedLog`.  `ReplicaRepeatsAtMostOne` speaks of what a client will have
made once it has read all that is on its wire, which is what makes it inductive; it
needs `Registered` (a client has a handler exactly while it is registered) and
`InHand` (at work, the updater has the last payload it applied in hand; outside the
broadcast nobody is left to be sent it).  The lemmas say how reading, a full list,
an update and an application change that final log, the one repeat included.  The
queue properties need that the newest payload is the last of the queue, or that the
queue is empty and it was applied (`NewestIsLast`), and that while nothing was
overtaken the queue is at most one long (`Prompt`).

For the refinement, `ListsAreBeginnings` adds that a list on a wire is a beginning of
the log.  What `ReplicaRepeatsAtMostOne` says of what a client *will* have made
becomes what it *has* made: that is a beginning of what it will have made, every
beginning of which is a copy of the server's log (`FollowsFromCopyToCopy`), the one
with the next update included (`OneFurther`, `NextIsACopy`).  Reading the list is
`Enter`, reading an update `Follow` if the list is behind and a stutter otherwise
(`ReadingRefines`); the step in which a process goes, or its handler erases it, is
`Leave`; an application is `Make`; every other step is a stutter.

**Channel** (`ChannelProofs`, any finite set of writers, any programs, sizes of
messages and capacity; assumption `ChannelAssumption`).  Proved: `TypeCorrect`,
`WholeWhileThereIsRoom`, `PlaceIsKept` and `Refinement`, `Spec => ImplementsPipe`.
`AtWork` says that a writer that has put a part of its message is in write(2) and
met full buffers; `Consecutive` that a stream begins with a message and goes on
within one cell by cell, or is torn there; `LeftOff` that a writer's message goes
on where it left off; `CutShortWhenFull` that a stream that ends within a message
has met full buffers; so a tear needs more cells than the buffers hold.  `InPlace`
says that headers are read where messages begin and payloads where one begins that
is as long as was asked for.  For the refinement, `Counted` says that as many
messages end before the place where the read began as were read, in that order,
and `AtEnd` that the end of the file is reported only when the writers have closed.
Each step is then one of the pipe's or a stutter: a message comes to be sent when
its last cell is put.

**Commands** (`CommandsProofs`, any users, lines, numerals and bounds; assumption
`CommandsAssumption`).  Proved: `TypeCorrect`, `InOrder`, `NewestIsMade`,
`SelectHits`, `OthersSurvive`, `MineSinceAdoption` and `RepeatsAreTold`, i.e. every
property of the run `commands`.  The queue's part (`IInv`) rests on `MadeIsNoNewer`:
what was made is no newer than the last of its user's queue, the one that `back()`
takes next, nor than the last typed.

The drawing's part (`DrawingInv`) is about the vectors that logs of any length
leave.  `Canvas!Replay` is recursive; `NaturalSets!RecursionUpTo` gives, for each
log, the function of the vectors after each of its commands (`ReplayRecursion`),
and induction up to its length (`InductionUpTo`) what is needed of it: that a log
that grows keeps what its beginnings came to (`BeginningStays`), and that an id
stays that of its draw while nothing is erased (`IdStays`).  The lemmas about
`Canvas` say what each mutation does to a vector of any length: which entry it
changes, removes or adds (`SelectVector`, `RemoveAtProperties`, `DrawVector`), that
clear mine keeps nothing of its author and everything else (`PartKeeps`,
`ClearMineSpares`), that undo takes out one entry of its author's (`UndoSpares`).
`DrawingInv` adds that what is sent is well-formed and drawn by who sends it
(`Sent`), that a listing says what the drawing was when it was printed (`Listed`),
and that what a Select was meant for was once there (`MeantWasListed`), which is
how a queued Select remembers its listing after its user has listed again.  Both
except a client that has a command twice which shows.  One that does not show leaves
the drawing that the server had then, and so the same drawing after every later
command (`RepeatUnseen`), which is why its ids are right.

`RepeatsAreTold` needs to know how often an entry stands in a vector: the hash
consists of the entries with an odd number of `Places`, so equal hashes mean equal
parities (`HashCounts`).  A draw made twice adds one place to one entry
(`DrawIsTold`), a delete or an undo that finds something takes one away
(`RemovalIsTold`), and every other mutation made twice is made once (`TwiceIsOnce`).

The parser's part is about lines of any length: `ReadsWhatIsWritten`, a line that is
a writing of tokens is read as these, so that no line has two readings;
`DropsWhatHasNoEnd`; and `EveryLineIsRead`, that there is no other line.  `Scan` is
recursive from the end of the line; its function exists since it looks ahead only
(`LooksAhead`, `ScanRecursion`).  Then blanks make no difference
(`BlanksAreSkipped`), a string or word is read where it begins (`TokenIsRead`), and
what is read so far grows by one token at a time (`WritingIsRead`), by induction up
to the number of tokens.  For the last, the greatest beginning of the line that is a
writing is the whole line, or a string without an end is behind it (`OneBlankMore`,
`OneTokenMore`, `WritingGoesOn`).  They assume only that no string of the line's
characters is `Unterminated`, the model's mark for the exception.

**Shutdown** (`ShutdownProofs`, any number of handlers, signals, payloads
and notification threads; assumption `ShutdownAssumption`).  Proved: `TypeCorrect`,
`NobodyLeftBehind`, `OneSignalSafe` and `CaughtStays`, i.e. every safety property of
its runs.  The invariant adds that `threads_mutex` keeps the signal handlers
apart from each other and from the main thread where it spawns and joins
(`Exclusion`), that there is an updater once the main thread has started it and
there are no handlers before the accept loop (`Started`), that live handlers are
listed (`LiveAreListed`), and what the number of signals taken says of where the
main thread is (`Interrupts`).

**ClientLifecycle** (`ClientLifecycleProofs`; finite as it is, so TLC's check is
complete; the proof says why).  Proved: `TypeCorrect`, `AllAreStopped`.
The invariant follows each victim through a `shutdown()`: looked up while alive,
so cancelled (`AllLookedUp`, `SeenTo`, `Cancelling`).

**Only model-checked.**  Liveness (`DepartedAreAdopted`, `UpdatesArrive`,
`LooksEnd`, `StopsOnceStarted`, `EndsOrGoesOn`, `MessagesArrive`) and everything under fairness, which the prover has no rules
for.  The four violations.  (`ShortLinesAreRead` and `ParserReadsWhatIsWritten` of
`MCCommands` are what the theorems about the parser say, of short lines.)

## 5. Not modelled

* Rendering (`gui.cpp`, the image of the exporter), logging, option parsing,
  benchmarks (`src/bench`): I/O or measurement.
* Sockets and thread wrappers as RAII classes: what they do is in the actions
  that use them; moving and swapping them is sequential code.
* Which random actions the test client pushes (`simulate_user.cpp`); its reader
  and writer are the client's, line by line.
* Serialization: cereal is trusted to read what it wrote.
* Time: the five minutes of a timer, the minute of a handshake and the time-out
  of a read are events that may happen, not durations.
* The end of the input (`input_handler.cpp:32`), after which the input thread
  spins.

## 6. Plan

In the order of what matters to the system:

1. *(done)* `Sessions`, `Replication`, `DoubleInstance`, `ClientLifecycle`,
   their runs, and the proofs above.
2. *(done)* `Shutdown`; `Channel` with `MessagePipe`; `Commands` with
   `InputParser` and the rest of `Canvas`; the test client and the exporter in
   `ClientLifecycle`.
3. *(done)* Proofs: every safety property of the passing runs, and the refinements
   of `SharedDrawing`, `MessagePipe` and `FollowedLog`.
4. *(done)* The parser: `InputParser!Tokens` reads what is written, for any line, and
   nothing else.
5. *(done)* What a hash does tell of a replica that repeated a command.
6. *(open)* A log that `Replication` implements without the repeat, as long as nobody
   joins during a broadcast.
