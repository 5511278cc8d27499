------------------------------ MODULE Commands ------------------------------
(***************************************************************************)
(* What becomes of the commands that users type: the input handler of each *)
(* client (src/src/client/input_handler.cpp), its queue and writer thread  *)
(* (writer.cpp), and the drawing they all change.  Several users change it *)
(* at a time, so the ids that one user sees may be out of date when his    *)
(* command is made.                                                        *)
(*                                                                         *)
(* `applied' is the log of the commands that the server makes.  It is      *)
(* taken to make a command as it is written: one that the server's own     *)
(* queue drops (Replication) is in this model never written, and one that  *)
(* is slow to reach it is written later, for a user who has seen less.  A  *)
(* client follows the log as FollowedLog says, which Replication is shown  *)
(* to implement: it has made a beginning of it, or one in which the last   *)
(* command of the list that it was sent is there twice.  What it has made  *)
(* matters when its user lists the draws, the only time he looks.  Canvas  *)
(* turns a log into a drawing.                                             *)
(*                                                                         *)
(* A draw is [tool, colour, by, nr], where `by' and `nr', who typed it and *)
(* as which of his commands, stand for its coordinates: no two draw        *)
(* commands have the same.                                                 *)
(***************************************************************************)
EXTENDS Canvas, InputParser

CONSTANTS
    Clients,    \* the users, by their names
    Lines,      \* the lines each of them may type
    Value,      \* the numerals, each with the number it stands for
    MaxTyped,   \* bound: the commands all users together send
    MaxAdopts,  \* bound: the adoptions
    None        \* no id is selected; nothing was chosen from a listing

ASSUME CommandsAssumption ==
    /\ MaxTyped \in Nat /\ MaxAdopts \in Nat /\ None \notin Int
    /\ \A x \in DOMAIN Value : Value[x] \in Int

Tools == {"line", "rectangle", "circle", "text"}

VARIABLES
    tool, colour, selected,   \* m_tool, m_colour, m_selected_id
    status,                   \* of the client's process
    queue,                    \* share::writer_queue
    applied,                  \* the commands made by the server
    seen,                     \* how many of them a client had made when it last listed,
    late,                     \* the command of its list that may reach it once more,
    again,                    \* and whether it had made it again when it last listed
    listing,                  \* history: the lines that it printed
    typed                     \* history: how many commands a user has sent

handler == <<tool, colour, selected, listing, late, again>>
vars == <<handler, status, queue, applied, seen, typed>>

Total(f) == FoldFunction(LAMBDA x, y : x + y, 0, f)

\* A payload also says when it was typed and what it was meant for (history).
Kinds == {"draw", "select", "delete", "undo", "clear all", "clear mine", "adopt"}

TypeOK ==
    /\ tool \in [Clients -> Tools] /\ colour \in [Clients -> [1 .. 3 -> 0 .. 255]]
    /\ selected \in [Clients -> Int \cup {None}]
    /\ seen \in [Clients -> Nat] /\ typed \in [Clients -> Nat]
    /\ late \in [Clients -> Nat] /\ again \in [Clients -> BOOLEAN]
    /\ \A c \in Clients :
          /\ \A p \in ToSet(queue[c]) :
                p.kind \in Kinds \ {"adopt"} /\ p.username = c /\ p.nr \in 1 .. typed[c]
          /\ seen[c] \in 0 .. Len(applied) /\ late[c] \in 0 .. seen[c]
    /\ status \in [Clients -> {"running", "exited", "adopted"}]
    /\ \A p \in ToSet(applied) : p.kind \in Kinds /\ p.username \in Clients

Init ==
    /\ tool = [c \in Clients |-> "line"]
    /\ colour = [c \in Clients |-> <<0, 0, 0>>]
    /\ selected = [c \in Clients |-> None]
    /\ status = [c \in Clients |-> "running"]
    /\ queue = [c \in Clients |-> <<>>]
    /\ applied = <<>>
    /\ seen = [c \in Clients |-> 0]
    /\ late = [c \in Clients |-> 0] /\ again = [c \in Clients |-> FALSE]
    /\ listing = [c \in Clients |-> {}]
    /\ typed = [c \in Clients |-> 0]

-----------------------------------------------------------------------------
(* The commands; t is the line in tokens, each a sequence of characters *)

Is(t, word, size) == Len(t) = size /\ t[1] = <<word>>

Word(t, i) == IF Len(t[i]) = 1 THEN t[i][1] ELSE ""

\* std::stoi reads the numeral that a token begins with and ignores the rest.
IsInt(token) == token # <<>> /\ token[1] \in DOMAIN Value
IntOf(token) == Value[token[1]]

ToolCommand(c, t) ==
    /\ Is(t, "tool", 2) /\ Word(t, 2) \in Tools
    /\ tool' = [tool EXCEPT ![c] = Word(t, 2)]
    /\ UNCHANGED <<colour, selected, listing, late, again, status, queue, applied,
                   seen, typed>>

\* Mutant: the range is off by one.
IsColourValue_OffByOne(x) == 0 <= x /\ x <= 256

IsColourValue(x) == 0 <= x /\ x < 256

ColourCommand(c, t) ==
    /\ Is(t, "colour", 4)
    /\ \A i \in 2 .. 4 : IsInt(t[i]) /\ IsColourValue(IntOf(t[i]))
    /\ colour' = [colour EXCEPT ![c] = [i \in 1 .. 3 |-> IntOf(t[i + 1])]]
    /\ UNCHANGED <<tool, selected, listing, late, again, status, queue, applied,
                   seen, typed>>

\* A command is queued under writer_mutex, as the Nr(c)-th of c.
Nr(c) == typed[c] + 1

Push(c, p) ==
    /\ Total(typed) < MaxTyped
    /\ typed' = [typed EXCEPT ![c] = Nr(c)]
    /\ queue' = [queue EXCEPT ![c] = Append(@, p)]
    /\ UNCHANGED <<handler, status, applied, seen>>

LineArguments(t) == Is(t, "draw", 5) /\ \A i \in 2 .. 5 : IsInt(t[i])

RectangleArguments(t) == Is(t, "draw", 5) /\ \A i \in 2 .. 5 : IsInt(t[i])

CircleArguments(t) ==
    Is(t, "draw", 4) /\ (\A i \in 2 .. 4 : IsInt(t[i])) /\ 0 <= IntOf(t[4])

TextArguments(t) == Is(t, "draw", 4) /\ \A i \in 2 .. 3 : IsInt(t[i])

DrawArguments(c, t) ==
    CASE tool[c] = "line"      -> LineArguments(t)
      [] tool[c] = "rectangle" -> RectangleArguments(t)
      [] tool[c] = "circle"    -> CircleArguments(t)
      [] tool[c] = "text"      -> TextArguments(t)

\* A command is broadcast after it was made, also to a client that has it in its
\* list already.  This is the one it made again, by its place in the log; or 0.
Repeated(c) == IF again[c] THEN late[c] ELSE 0

\* What the user means by the selected id: the draw that his last listing had
\* under that id (history).
Meant(c) ==
    LET lines == {l \in listing[c] : l.id = selected[c]}
    IN  IF lines = {} THEN None
        ELSE [seen |-> seen[c], repeated |-> Repeated(c),
              draw |-> (CHOOSE l \in lines : TRUE).draw]

NewDraw(c) == [tool |-> tool[c], colour |-> colour[c], by |-> c, nr |-> Nr(c)]

\* With an id selected the draw is a Select, and the id stays selected.
DrawCommand(c, t) ==
    /\ DrawArguments(c, t)
    /\ IF selected[c] = None
       THEN Push(c, [kind |-> "draw", draw |-> NewDraw(c), username |-> c, nr |-> Nr(c)])
       ELSE Push(c, [kind |-> "select", id |-> selected[c], draw |-> NewDraw(c),
                     meant |-> Meant(c), username |-> c, nr |-> Nr(c)])

\* The filters of list_draws.
IsMine(c, entry) == entry.username = c /\ ~entry.adopted
IsListed(c, toolQual, userQual, entry) ==
    /\ toolQual \in {"all", entry.draw.tool}
    /\ userQual = "mine" => IsMine(c, entry)

\* Mutant: only the draws that are printed are counted.
ListDraws_CountsPrinted(c, toolQual, userQual, vector) ==
    LET printed == SelectSeq(vector, LAMBDA e : IsListed(c, toolQual, userQual, e))
    IN  {[id |-> i - 1, draw |-> printed[i].draw] : i \in DOMAIN printed}

\* Each line printed is an id and the draw it belongs to.
ListDraws(c, toolQual, userQual, vector) ==
    {[id |-> i - 1, draw |-> vector[i].draw] :
        i \in {j \in DOMAIN vector : IsListed(c, toolQual, userQual, vector[j])}}

\* What a client has made: the first n commands, the k-th of them twice.
MadeBy(k, n) ==
    IF k = 0 THEN SubSeq(applied, 1, n) ELSE SubSeq(applied, 1, k) \o SubSeq(applied, k, n)

\* The client has made any number of the commands by now.  Only the first that
\* reaches it may be one that it has in its list.
ListCommand(c, t) ==
    /\ Is(t, "list", 3)
    /\ Word(t, 2) \in {"all"} \cup Tools /\ Word(t, 3) \in {"all", "mine"}
    /\ \E n \in seen[c] .. Len(applied), twice \in BOOLEAN :
          /\ again[c] => twice
          /\ twice => late[c] # 0
          /\ seen' = [seen EXCEPT ![c] = n] /\ again' = [again EXCEPT ![c] = twice]
          /\ late' = [late EXCEPT ![c] = IF twice \/ n = @ THEN @ ELSE 0]
          /\ LET made == MadeBy(IF twice THEN late[c] ELSE 0, n)
             IN  listing' = [listing EXCEPT ![c] =
                    ListDraws(c, Word(t, 2), Word(t, 3), Replay(made))]
    /\ UNCHANGED <<tool, colour, selected, status, queue, applied, typed>>

\* Any number is accepted, listed or not.
SelectCommand(c, t) ==
    /\ Is(t, "select", 2)
    /\ \/ Word(t, 2) = "none" /\ selected' = [selected EXCEPT ![c] = None]
       \/ Word(t, 2) # "none" /\ IsInt(t[2])
             /\ selected' = [selected EXCEPT ![c] = IntOf(t[2])]
    /\ UNCHANGED <<tool, colour, listing, late, again, status, queue, applied,
                   seen, typed>>

DeleteCommand(c, t) ==
    /\ Is(t, "delete", 2) /\ IsInt(t[2])
    /\ Push(c, [kind |-> "delete", id |-> IntOf(t[2]), username |-> c, nr |-> Nr(c)])

UndoCommand(c, t) ==
    Is(t, "undo", 1) /\ Push(c, [kind |-> "undo", username |-> c, nr |-> Nr(c)])

ClearCommand(c, t) ==
    /\ Is(t, "clear", 2)
    /\ Word(t, 2) \in {"all", "mine"}
    /\ Push(c, [kind |-> IF Word(t, 2) = "all" THEN "clear all" ELSE "clear mine",
                username |-> c, nr |-> Nr(c)])

\* The loop ends, and shutdown() cancels the writer.
ExitCommand(c, t) ==
    /\ Is(t, "exit", 1)
    /\ status' = [status EXCEPT ![c] = "exited"]
    /\ UNCHANGED <<handler, queue, applied, seen, typed>>

\* Any other line has no effect on this state: it is help, or show, which is for
\* the GUI, or it is answered with a warning.
ProcessLine(c, t) ==
    /\ status[c] = "running" /\ t # <<>>
    /\ \/ ToolCommand(c, t) \/ ColourCommand(c, t) \/ DrawCommand(c, t)
       \/ ListCommand(c, t) \/ SelectCommand(c, t) \/ DeleteCommand(c, t)
       \/ UndoCommand(c, t) \/ ClearCommand(c, t)
       \/ ExitCommand(c, t)

-----------------------------------------------------------------------------
(* The writer thread, the server and the reader thread *)

\* Mutant: a stack instead of a queue.
WriteCommand_Stack(c) ==
    /\ queue[c] # <<>>
    /\ applied' = Append(applied, Last(queue[c]))
    /\ queue' = [queue EXCEPT ![c] = Front(@)]
    /\ UNCHANGED <<handler, status, seen, typed>>

\* Mutant: the oldest command is taken and the newest removed.
WriteCommand_Swapped(c) ==
    /\ queue[c] # <<>>
    /\ applied' = Append(applied, Head(queue[c]))
    /\ queue' = [queue EXCEPT ![c] = Front(@)]
    /\ UNCHANGED <<handler, status, seen, typed>>

\* `action = writer_queue.back(); writer_queue.pop();' takes the newest command
\* and removes the oldest.  It is written before anyone looks again; a command
\* that is in the writer's hand when the user exits is lost, as those in the queue.
WriteCommand(c) ==
    /\ queue[c] # <<>>
    /\ applied' = Append(applied, Last(queue[c]))
    /\ queue' = [queue EXCEPT ![c] = Tail(@)]
    /\ UNCHANGED <<handler, status, seen, typed>>

\* The writer's cancellation takes effect: what is still queued is never sent.
CancelWriter(c) ==
    /\ status[c] = "exited" /\ queue[c] # <<>>
    /\ queue' = [queue EXCEPT ![c] = <<>>]
    /\ UNCHANGED <<handler, status, applied, seen, typed>>

IsGone(c) == status[c] # "running" /\ queue[c] = <<>>

IsAdopt(p) == p.kind = "adopt"

\* The timer of a user who stays away expires.
AdoptDraws(c) ==
    /\ IsGone(c) /\ status[c] = "exited"
    /\ Len(SelectSeq(applied, IsAdopt)) < MaxAdopts
    /\ status' = [status EXCEPT ![c] = "adopted"]
    /\ applied' = Append(applied, [kind |-> "adopt", username |-> c])
    /\ UNCHANGED <<handler, queue, seen, typed>>

\* The user starts the client again and is sent the full list.
Restart(c) ==
    /\ IsGone(c)
    /\ status' = [status EXCEPT ![c] = "running"]
    /\ seen' = [seen EXCEPT ![c] = Len(applied)]
    /\ late' = [late EXCEPT ![c] = Len(applied)]
    /\ again' = [again EXCEPT ![c] = FALSE]
    /\ tool' = [tool EXCEPT ![c] = "line"]
    /\ colour' = [colour EXCEPT ![c] = <<0, 0, 0>>]
    /\ selected' = [selected EXCEPT ![c] = None]
    /\ listing' = [listing EXCEPT ![c] = {}]
    /\ UNCHANGED <<queue, applied, typed>>

-----------------------------------------------------------------------------
\* The lines a user may type, in tokens.
TokenLines == [c \in Clients |-> {Tokens(line) : line \in Lines[c]}]

Next == \E c \in Clients :
    \/ \E t \in TokenLines[c] : ProcessLine(c, t)
    \/ WriteCommand(c) \/ CancelWriter(c)
    \/ AdoptDraws(c) \/ Restart(c)

Spec == Init /\ [][Next]_vars

-----------------------------------------------------------------------------
(* Properties *)

\* A user's commands never overtake one another on their way to the server: one
\* that was typed later is never made before one typed earlier, though the queue
\* may send a command twice and drop another.
NeverBackInTime ==
    \A i, j \in DOMAIN applied :
        LET p == applied[i]
            q == applied[j]
        IN  i < j /\ ~IsAdopt(p) /\ ~IsAdopt(q) /\ p.username = q.username => p.nr <= q.nr

\* The command made last, and the drawing before it.
Latest == Last(applied)
Before == Replay(Front(applied))

IsErasure(p) == p.kind \in {"delete", "undo", "clear all", "clear mine"}

\* The k-th command leaves another drawing if it is made twice, as a draw does.
RepeatShows(k) ==
    /\ k # 0
    /\ Apply(Replay(SubSeq(applied, 1, k)), applied[k]) # Replay(SubSeq(applied, 1, k))

\* The id that a user takes from a listing, whatever its filters, still is that
\* of the draw he saw when his Select is made, however late that is and whatever
\* others draw or select meanwhile - unless a draw has been erased since, or he
\* joined while a command was broadcast and his client had it twice when he
\* listed: a draw, a delete or an undo then leaves him a drawing of his own.
SelectHitsTheListed ==
    applied # <<>> /\ Latest.kind = "select" /\ Latest.meant # None =>
        LET since == ToSet(SubSeq(applied, Latest.meant.seen + 1, Len(applied) - 1))
        IN  \/ \E q \in since : IsErasure(q)
            \/ RepeatShows(Latest.meant.repeated)
            \/ /\ InRange(Before, Latest.id)
               /\ \/ Before[Latest.id + 1].draw = Latest.meant.draw
                  \/ \E q \in since : q.kind = "select" /\ q.id = Latest.id

\* Undo and clear mine erase nobody else's work: each draw whose last author is
\* another user is still there, in its place among them.
OthersWork(vector, u) == Part(vector, {i \in DOMAIN vector : vector[i].draw.by # u})

OthersWorkSurvives ==
    applied # <<>> /\ Latest.kind \in {"undo", "clear mine"} =>
        OthersWork(Replay(applied), Latest.username) = OthersWork(Before, Latest.username)

\* After an adoption a user has no draws of his own: what `list' and the GUI show
\* as his was drawn, or modified, by him since he came back.
MineIsSinceAdoption ==
    \A k \in DOMAIN applied : applied[k].kind = "adopt" =>
        \A e \in ToSet(Replay(applied)) : IsMine(applied[k].username, e) =>
            \E j \in DOMAIN applied :
                j > k /\ applied[j].kind \in {"draw", "select"} /\ applied[j].draw = e.draw

\* The report compares the server's drawing with its replicas' by their hashes
\* (main.tex:1076-1079), which are blind to order and in which two equal draws
\* cancel out.  But a replica that makes one mutation twice (Replication) and ends
\* with another drawing has another hash, as long as no further one is made.
HashTellsARepeat ==
    applied # <<>> =>
        LET once == Replay(applied)
            twice == Apply(once, Latest)
        IN  Hash(twice) = Hash(once) => twice = once

\* What a user typed last is never lost on his side: it leaves the queue only to be
\* written to the server, however many commands have piled up before it - unless
\* he exits, which throws away what the writer has not written yet.  (What becomes
\* of it in the server's queue is Replication's NewestSurvives.)
NewestIsNeverLost ==
    [][\A c \in Clients : status[c] = "running" /\ queue[c] # <<>> =>
          Last(queue[c]) \in ToSet(queue'[c]) \cup ToSet(applied')]_vars
=============================================================================
