-------------------------- MODULE WorkspaceAtomic ---------------------------
(***************************************************************************)
(* What the Workspace store promises its callers: a Workspace is one value *)
(* that a command replaces as a whole or not at all, and an open Workspace *)
(* that no command is changing shows that value.  WorkspaceStore           *)
(* implements it with plan files, a metadata file and a garbage collector. *)
(***************************************************************************)
CONSTANTS
  Contents, \* what a Workspace may hold
  Empty,    \* what a new Workspace holds
  Hidden    \* not in Contents: no one may look, or no change is under way

VARIABLES
  committed, \* the value on disk
  pending,   \* the value the command in progress will commit, or Hidden
  shown      \* what the open Workspace holds between commands, or Hidden

vars == <<committed, pending, shown>>

Init == committed = Empty /\ pending = Hidden /\ shown = Hidden

\* A command takes the Workspace away from its readers and prepares a value.
Begin ==
  /\ pending = Hidden
  /\ pending' \in Contents
  /\ shown' = Hidden
  /\ UNCHANGED committed

Commit ==
  /\ pending # Hidden
  /\ committed' = pending
  /\ pending' = Hidden
  /\ UNCHANGED shown

\* A command is rejected, or the server stops.
Abandon ==
  /\ pending' = Hidden
  /\ shown' = Hidden
  /\ UNCHANGED committed

\* Opening a Workspace, and a command that has ended, show what is on disk.
Show ==
  /\ pending = Hidden
  /\ shown' = committed
  /\ UNCHANGED <<committed, pending>>

Next == Begin \/ Commit \/ Abandon \/ Show

Spec == Init /\ [][Next]_vars

=============================================================================
