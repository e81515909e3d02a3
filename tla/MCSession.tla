----------------------------- MODULE MCSession -----------------------------
(* A small instance of the search session: three names on two drives, one   *)
(* of which comes later, and ids that mean another file afterwards. On two  *)
(* drives "abc" finds more than the budget; "abcd." finds nothing.          *)
EXTENDS SearchSession

TypedQueries == {"ab", "abc", "abcd", "abcde", "abcd.", "xyz", "xyz."}

PrefixPairs == {<<"abc", "ab">>, <<"abcd", "ab">>, <<"abcd", "abc">>,
                <<"abcde", "ab">>, <<"abcde", "abc">>, <<"abcde", "abcd">>,
                <<"abcd.", "ab">>, <<"abcd.", "abc">>, <<"abcd.", "abcd">>,
                <<"xyz.", "xyz">>}

LengthOf == [q \in TypedQueries |->
    CASE q = "ab" -> 2 [] q \in {"abc", "xyz"} -> 3 [] q \in {"abcd", "xyz."} -> 4 [] OTHER -> 5]

MatchPairs ==
    {<<"ab", "abc.txt">>, <<"abc", "abc.txt">>,
     <<"ab", "abcdef">>, <<"abc", "abcdef">>, <<"abcd", "abcdef">>,
     <<"abcde", "abcdef">>, <<"xyz", "xyz.log">>,
     <<"xyz.", "xyz.log">>}

OneDrive == [d \in {"C"} |-> <<"abc.txt", "xyz.log", "abcdef">>]
Renumbered == [d \in {"C"} |-> <<"abcdef", "abc.txt", "xyz.log">>]
SecondDrive == [d \in {"C", "D"} |->
    IF d = "C" THEN <<"abcdef", "abc.txt">> ELSE <<"xyz.log", "abcdef", "abc.txt">>]

GenerationContents == [g \in 0 .. 2 |->
    CASE g = 0 -> OneDrive [] g = 1 -> Renumbered [] OTHER -> SecondDrive]
=============================================================================
