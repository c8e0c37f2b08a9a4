------------------------ MODULE MCWorkspaceRuntime -------------------------
(* Two Workspaces of ann and one of bob, one more to be made by ann.       *)
EXTENDS WorkspaceRuntime
MCOwnerOf == [w \in Workspaces |-> IF w = "b1" THEN "bob" ELSE "ann"]
MCKindsOf == [o1 |-> {"open"},
              o2 |-> {"open", "close", "delete"},
              o3 |-> {"mutate", "create", "import"}] 
=============================================================================
