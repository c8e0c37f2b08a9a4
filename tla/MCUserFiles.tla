---------------------------- MODULE MCUserFiles -----------------------------
(* Two requests of one user and two of another, on a disk that both fill.  *)
EXTENDS UserFiles, TLC

CONSTANTS ann, bob, o1, o2, o3

MCUserOf == (o1 :> ann) @@ (o2 :> ann) @@ (o3 :> bob)
MCKindsOf == (o1 :> {"upload", "folder"})
          @@ (o2 :> {"upload", "move", "delete", "download"})
          @@ (o3 :> {"export"})
MCFirstPolicy == (ann :> 4) @@ (bob :> Unlimited)
=============================================================================
