---------------------------- MODULE InputParser -----------------------------
(***************************************************************************)
(* How the client cuts a typed line into tokens                            *)
(* (src/src/client/input_parser.cpp).  A line is a sequence of blanks,     *)
(* quotes and words; a word is a run of other characters, taken as one.    *)
(***************************************************************************)
EXTENDS Integers, SequencesExt

Quote  == "\""
Blanks == {" ", "\t", "\r", "\n"}

\* The first position from i on where the line has one of these characters, or
\* the one past its end.
Position(line, chars, i) ==
    Min({j \in i .. Len(line) : line[j] \in chars} \cup {Len(line) + 1})

Unterminated == <<"unterminated string">>

\* The tokens from position i on.  A quote opens a string wherever a token could
\* begin, and only there: inside of a word it is a character like any other.
Scan(line) ==
    LET from[i \in 1 .. Len(line) + 1] ==
            IF i > Len(line) THEN <<>>
            ELSE IF line[i] \in Blanks THEN from[i + 1]
            ELSE IF line[i] = Quote THEN
                 LET end == Position(line, {Quote}, i + 1)
                 IN  IF end > Len(line) THEN <<Unterminated>>
                     ELSE <<SubSeq(line, i + 1, end - 1)>> \o from[end + 1]
            ELSE LET end == Position(line, Blanks, i + 1)
                 IN  <<SubSeq(line, i, end - 1)>> \o from[end]
    IN  from[1]

\* A line with an unterminated string is dropped, like one without tokens.
Tokens(line) == IF Unterminated \in ToSet(Scan(line)) THEN <<>> ELSE Scan(line)

-----------------------------------------------------------------------------
(* What the tokens of a line should be, said of the line as a whole *)

BlankBetween(line, i, j) == \A p \in i .. j : line[p] \in Blanks

InQuotes(line, i, j) ==
    /\ i < j /\ line[i] = Quote /\ line[j] = Quote
    /\ \A p \in i + 1 .. j - 1 : line[p] # Quote

IsWord(line, i, j) ==
    /\ i <= j /\ line[i] # Quote
    /\ \A p \in i .. j : line[p] \notin Blanks
    /\ j < Len(line) => line[j + 1] \in Blanks

\* What stands from i to j is read as t: a string without its quotes, or a word.
IsToken(line, i, j, t) ==
    \/ InQuotes(line, i, j) /\ t = SubSeq(line, i + 1, j - 1)
    \/ IsWord(line, i, j) /\ t = SubSeq(line, i, j)

\* Where each token may begin, or end.
Positions(line, tokens) == [1 .. Len(tokens) -> 1 .. Len(line)]

\* The line up to m is these tokens: token k stands from first[k] to last[k],
\* and there are only blanks before, between and after.
IsWriting(line, m, tokens, first, last) ==
    LET n == Len(tokens)
        after(k) == IF k = 0 THEN 1 ELSE last[k] + 1
    IN  /\ \A k \in 1 .. n :
              /\ after(k - 1) <= first[k] /\ last[k] <= m
              /\ BlankBetween(line, after(k - 1), first[k] - 1)
              /\ IsToken(line, first[k], last[k], tokens[k])
        /\ BlankBetween(line, after(n), m)
=============================================================================
