------------------------------- MODULE MCFlow -------------------------------
(* A small instance of the search flow: one query extends the other, and    *)
(* after a change of the index the ids mean other files.                    *)
EXTENDS SearchFlow

TypedQueries == {"abc", "abcd"}

LengthOf == [q \in TypedQueries |-> IF q = "abc" THEN 3 ELSE 4]

PrefixPairs == {<<"abcd", "abc">>}

MatchPairs == {<<"abc", "abc.txt">>, <<"abc", "abcdef">>, <<"abcd", "abcdef">>}

GenerationContents == [g \in 0 .. 1 |->
    IF g = 0 THEN [d \in {"C"} |-> <<"abc.txt", "other", "abcdef">>]
             ELSE [d \in {"C"} |-> <<"abcdef", "abc.txt">>]]
=============================================================================
