---------------------------- MODULE MCIndexFeed ----------------------------
(* Small instances of the index feed and its searches for TLC.              *)
EXTENDS IndexSearch

CONSTANTS rootRec, docsRec, tempRec, fileRec \* record numbers
CONSTANTS nameA, nameB                       \* names
CONSTANTS longA, longB, shortA               \* queries

(* A directory and a file in it.                                          *)
OneFile == (rootRec :> [parent |-> NoRec, name |-> RootName])
        @@ (docsRec :> [parent |-> rootRec, name |-> nameA])
        @@ (fileRec :> [parent |-> docsRec, name |-> nameB])

(* nameA is in nameB, nameB begins with longB, and both hold the letters    *)
(* that nameA begins with.                                                  *)
Matching ==
    (longA :> ((nameA :> 1000) @@ (nameB :> 800) @@ (RootName :> 0)))
        @@ (longB :> ((nameA :> 0) @@ (nameB :> 900) @@ (RootName :> 0)))
        @@ (shortA :> ((nameA :> 900) @@ (nameB :> 800) @@ (RootName :> 0)))
=============================================================================
