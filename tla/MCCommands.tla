----------------------------- MODULE MCCommands -----------------------------
(* Commands of two users.  The one lists and selects, the other erases and   *)
(* draws what the first has listed; both draw and leave.                     *)
EXTENDS Commands, TLC

CONSTANTS u1, u2

Numerals == "0" :> 0 @@ "1" :> 1 @@ "256" :> 256

\* A line of words with blanks between them.
Say(words) == FoldLeft(LAMBDA line, w : IF line = <<>> THEN <<w>> ELSE line \o <<" ", w>>, <<>>, words)

Quoted(chars) == <<Quote>> \o chars \o <<Quote>>

Selecting == {
    Say(<<"tool", "text">>), Say(<<"draw", "0", "1">>) \o <<" ">> \o Quoted(<<"a", " ", "b">>),
    Say(<<"list", "all", "all">>), Say(<<"list", "text", "mine">>),
    Say(<<"select", "0">>), Say(<<"select", "1">>), Say(<<"exit">>)}

Erasing == {
    Say(<<"colour", "0", "0", "256">>), Say(<<"colour", "0", "0", "0">>),
    Say(<<"draw", "0", "0", "1", "1">>), Say(<<"delete", "0">>), Say(<<"undo">>),
    Say(<<"clear", "all">>), Say(<<"clear", "mine">>), Say(<<"select", "none">>),
    Say(<<"delete", Quote, "0">>)}

TwoUsers == (u1 :> Selecting) @@ (u2 :> Erasing)

\* Every short line is a writing of its tokens; or the beginning of it is, and a
\* string begins behind them that has no end, for which the line is dropped.
\* CommandsProofs has this and the converse, for lines of any length.
ShortLines == UNION {[1 .. n -> {"a", Quote, " "}] : n \in 0 .. 5}

IsRead(line, m, tokens) ==
    \E first, last \in Positions(line, tokens) : IsWriting(line, m, tokens, first, last)

ASSUME ShortLinesAreRead ==
    \A line \in ShortLines :
        \/ IsRead(line, Len(line), Tokens(line))
        \/ /\ Tokens(line) = <<>>
           /\ \E q \in DOMAIN line :
                /\ line[q] = Quote
                /\ Quote \notin ToSet(SubSeq(line, q + 1, Len(line)))
                /\ IsRead(line, q - 1, Tokens(SubSeq(line, 1, q - 1)))

\* Words that are written out, in quotes where they need them, are read back as
\* they were (input_parser.cpp), whatever the blanks around them.
Words == {<<"a">>, <<"a", "b">>, <<"a", Quote>>}
Strings == {<<>>, <<"a", " ">>, <<" ", " ">>, <<"a">>}
Written(x) == IF x.quoted THEN Quoted(x.chars) ELSE x.chars
Texts == [quoted : {TRUE}, chars : Strings] \cup [quoted : {FALSE}, chars : Words]
Blank == {<<" ">>, <<"\t", " ">>}

ASSUME ParserReadsWhatIsWritten ==
    \A x, y \in Texts, b \in Blank \cup {<<>>}, s \in Blank :
        /\ Tokens(b \o Written(x) \o s \o Written(y) \o b) = <<x.chars, y.chars>>
        /\ Tokens(Written(x) \o s \o <<Quote>> \o y.chars) \in {<<>>} \cup
              (IF Quote \in ToSet(y.chars) THEN {<<x.chars, Front(y.chars)>>} ELSE {})
=============================================================================
