------------------------------- MODULE Canvas -------------------------------
(***************************************************************************)
(* The shared drawing: TaggedDrawVector and the mutations that             *)
(* TaggedDrawVectorWrapper makes to it                                     *)
(* (src/src/common/tagged_draw_vector_wrapper.hpp).  The server and every  *)
(* client run these same mutations, each on its own vector, so they agree  *)
(* exactly when they make the same ones in the same order.                 *)
(*                                                                         *)
(* A vector is a sequence of [adopted, username, draw]; what a draw looks  *)
(* like does not matter here.  Ids count from 0, as in the code.           *)
(***************************************************************************)
EXTENDS Integers, SequencesExt

TaggedDraws(Names, Draws) ==
    [adopted : BOOLEAN, username : Names, draw : Draws]

TaggedDraw(u, d) == [adopted |-> FALSE, username |-> u, draw |-> d]

IsOf(u, entry) == entry.username = u

\* Mutant: the loop from the back ends at the first draw of u, as in Undo.
Adopt_StopsAtFirst(vector, u) ==
    LET last == SelectLastInSeq(vector, LAMBDA entry : IsOf(u, entry))
    IN  IF last = 0 THEN vector ELSE [vector EXCEPT ![last].adopted = TRUE]

Adopt(vector, u) ==
    [i \in DOMAIN vector |->
        [vector[i] EXCEPT !.adopted = IsOf(u, vector[i]) \/ @]]

Draw(vector, u, d) == Append(vector, TaggedDraw(u, d))

\* Select does not look at the size of the vector.  An id outside it is
\* undefined behaviour; the outcome modelled is that of a write beyond the
\* elements, which leaves the elements alone.
InRange(vector, id) == id + 1 \in DOMAIN vector

\* Mutant: a modified draw stays its old owner's.
Select_KeepsOwner(vector, u, id, d) ==
    IF InRange(vector, id) THEN [vector EXCEPT ![id + 1].draw = d] ELSE vector

Select(vector, u, id, d) ==
    IF InRange(vector, id) THEN ReplaceAt(vector, id + 1, TaggedDraw(u, d)) ELSE vector

Clamp(x, low, high) == IF x < low THEN low ELSE IF x > high THEN high ELSE x

Delete(vector, id) ==
    IF vector = <<>> THEN vector
    ELSE RemoveAt(vector, Clamp(id, 0, Len(vector) - 1) + 1)

\* The last draw of u is erased, adopted or not.
Undo(vector, u) ==
    LET last == SelectLastInSeq(vector, LAMBDA entry : IsOf(u, entry))
    IN  IF last = 0 THEN vector ELSE RemoveAt(vector, last)

\* The part of a vector at the positions `kept', in their order, as a loop that
\* goes through the vector collects it.
Part(vector, kept) ==
    LET upTo[n \in 0 .. Len(vector)] ==
            IF n = 0 THEN <<>>
            ELSE IF n \in kept THEN Append(upTo[n - 1], vector[n]) ELSE upTo[n - 1]
    IN  upTo[Len(vector)]

ClearMine(vector, u) == Part(vector, {i \in DOMAIN vector : ~IsOf(u, vector[i])})

\* Mutant: the hashes of the draws are or'ed.
Hash_Ored(vector) == ToSet(vector)

\* The hash of a vector is the exclusive or of those of its draws, which are
\* taken to be as different as they can be: what is left are the draws that occur
\* an odd number of times.
Hash(vector) ==
    {entry \in ToSet(vector) :
        Cardinality({i \in DOMAIN vector : vector[i] = entry}) % 2 = 1}

\* What the wrapper does with a payload: adopt for an Adopt, update otherwise.
Apply(vector, p) ==
    CASE p.kind = "adopt"      -> Adopt(vector, p.username)
      [] p.kind = "draw"       -> Draw(vector, p.username, p.draw)
      [] p.kind = "select"     -> Select(vector, p.username, p.id, p.draw)
      [] p.kind = "delete"     -> Delete(vector, p.id)
      [] p.kind = "undo"       -> Undo(vector, p.username)
      [] p.kind = "clear all"  -> <<>>
      [] p.kind = "clear mine" -> ClearMine(vector, p.username)

\* The vector of a party that started empty and applied these payloads.
Replay(log) ==
    LET after[n \in 0 .. Len(log)] ==
            IF n = 0 THEN <<>> ELSE Apply(after[n - 1], log[n])
    IN  after[Len(log)]
=============================================================================
