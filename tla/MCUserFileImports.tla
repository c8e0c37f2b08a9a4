------------------------- MODULE MCUserFileImports --------------------------
(* A sample and a portal import that want the same directory.              *)
EXTENDS UserFileImports
MCKindOf == [i \in Imports |-> IF i = "sample1" THEN "sample" ELSE "portal"]
MCDestOf == [i \in Imports |-> "dest"]
=============================================================================
