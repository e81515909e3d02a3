---------------------------- MODULE MCResultList ----------------------------
(* Two files and two texts, one of which searches in a folder.             *)
EXTENDS ResultList, TLC

CONSTANTS f, g

Found(file, score) == [item |-> File(file), score |-> score]

(* One text finds f at once and, later, f again and g, or g alone; the     *)
(* other finds nothing at once and later f or nothing.                     *)
MCImmediate == ("t" :> <<Found(f, 2), Found(g, 1)>>) @@ ("in" :> << >>)

MCAnswers == ("t" :> {<<Found(g, 3), Found(f, 1)>>, << >>}) @@ ("in" :> {<<Found(g, 1)>>})

MCTitle == (f :> 1) @@ (g :> 2)

MCBoost == [n \in 0 .. 99 |-> IF n = 0 THEN 0 ELSE 1]
=============================================================================
