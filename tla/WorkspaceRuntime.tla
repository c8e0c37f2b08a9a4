-------------------------- MODULE WorkspaceRuntime --------------------------
(***************************************************************************)
(* Which Workspaces exist and which are open (services/workspace.py and    *)
(* services/workspace_lifecycle.py): creation, opening, mutation, closing  *)
(* and deletion, the gate of every Workspace, the lifecycle gate of every  *)
(* user, and the memory that open Workspaces may take together.            *)
(*                                                                         *)
(* Admitted analysis work is a flag a Workspace has until its runner ends  *)
(* (AnalysisExecution has the rest); what a snapshot holds is its size and *)
(* its revision (WorkspaceStore has the rest).  An operation is one        *)
(* request.                                                                *)
(***************************************************************************)
EXTENDS Sums, FiniteSetsExt

CONSTANTS
  Users, Workspaces,
  OwnerOf,      \* the user whom a Workspace belongs to
  Existing,     \* Workspaces there at first
  Ops, KindsOf, \* requests, and the kinds each may be
  Sizes,        \* serialized bytes of a snapshot, tabs and analyses included
  Limit,        \* max_open_workspace_bytes
  MaxWork,      \* bounds submissions of work
  MaxFaults     \* bounds failures of storage

NoOp == "no operation"

ASSUME RuntimeAssumption ==
  /\ IsFiniteSet(Workspaces) /\ Workspaces # {} /\ IsFiniteSet(Ops)
  /\ OwnerOf \in [Workspaces -> Users] /\ Existing \subseteq Workspaces
  /\ KindsOf \in [Ops -> SUBSET {"open", "close", "delete", "mutate", "create", "import"}]
  /\ NoOp \notin Ops
  /\ Sizes \subseteq Nat \ {0} /\ Sizes # {}
  /\ {Limit, MaxWork, MaxFaults} \subseteq Nat

VARIABLES
  pc, kind, target,  \* of every operation: its step, what it is and its Workspace
  seen,              \* revisions a listing has read in the metadata files
  siblings,          \* Workspaces an opening has still to close
  held,              \* open capacity an operation has reserved
  staged,            \* the size of the snapshot a mutation has staged
  live, size, revision,    \* of the Workspace directories
  slot,              \* "closed", "open" or "closing"
  slotSize, slotRevision,  \* of the aggregate in memory, 0 without one
  gate, userGate,    \* the operation that holds a gate
  capacity,          \* _open_capacity_bytes
  work,              \* Workspaces with admitted work
  unfinished,        \* Workspaces with a record that says queued or running
  finalizing,        \* Workspaces whose runner has ended, before finalize_close_if_idle
  accepting,         \* _accepting_mutations
  faults, works,     \* bounds
  lost,              \* history: capacity given back that was never reserved
  missed             \* history: open Workspaces a listing took for unavailable

opVars == <<pc, kind, target, seen, siblings, staged>>
diskVars == <<live, size, revision>>
slotVars == <<slot, slotSize, slotRevision>>
workVars == <<work, unfinished, finalizing, works>>
runtimeVars == <<opVars, held, diskVars, slotVars, gate, userGate, capacity, workVars,
          accepting, faults, lost, missed>>

Owned(u) == {w \in Workspaces : OwnerOf[w] = u}
Loaded(w) == slot[w] # "closed"
UserOf(o) == OwnerOf[target[o]]
Goto(o, step) == pc' = [pc EXCEPT ![o] = step]
Fault == faults < MaxFaults /\ faults' = faults + 1
NoFault == UNCHANGED faults
Growth(n, old) == IF n > old THEN n - old ELSE 0

TakeGate(o) == gate[target[o]] = NoOp /\ gate' = [gate EXCEPT ![target[o]] = o]
LeaveGate(o) == gate' = [gate EXCEPT ![target[o]] = NoOp]
LeaveUserGate(o) == userGate' = [userGate EXCEPT ![UserOf(o)] = NoOp]

\* _clear_slot gives back what the aggregate took; the counter stops at 0.
Less(n) == Growth(capacity, n)
Clear(w) ==
  /\ slot' = [slot EXCEPT ![w] = "closed"]
  /\ slotSize' = [slotSize EXCEPT ![w] = 0]
  /\ slotRevision' = [slotRevision EXCEPT ![w] = 0]
  /\ capacity' = Less(slotSize[w])

Load(w, n, r, state) ==
  /\ slot' = [slot EXCEPT ![w] = state]
  /\ slotSize' = [slotSize EXCEPT ![w] = n]
  /\ slotRevision' = [slotRevision EXCEPT ![w] = r]

-----------------------------------------------------------------------------
RuntimeInit ==
  /\ pc = [o \in Ops |-> "idle"] /\ kind = [o \in Ops |-> "none"]
  /\ target = [o \in Ops |-> CHOOSE w \in Workspaces : TRUE]
  /\ staged = [o \in Ops |-> 0]
  /\ seen = [o \in Ops |-> [w \in Workspaces |-> 0]]
  /\ siblings = [o \in Ops |-> {}] /\ held = [o \in Ops |-> 0]
  /\ live = Existing
  /\ size = [w \in Workspaces |-> IF w \in Existing THEN Min(Sizes) ELSE 0]
  /\ revision = [w \in Workspaces |-> IF w \in Existing THEN 1 ELSE 0]
  /\ slot = [w \in Workspaces |-> "closed"]
  /\ slotSize = [w \in Workspaces |-> 0] /\ slotRevision = [w \in Workspaces |-> 0]
  /\ gate = [w \in Workspaces |-> NoOp] /\ userGate = [u \in Users |-> NoOp]
  /\ capacity = 0 /\ work = {} /\ unfinished = {} /\ finalizing = {}
  /\ accepting = TRUE /\ faults = 0 /\ works = 0 /\ lost = 0 /\ missed = {}

\* A request; closing and reading need no _accepting_mutations.
Begin(o) ==
  /\ pc[o] = "idle" /\ accepting
  /\ \E k \in KindsOf[o], w \in Workspaces :
       /\ k \in {"create", "import"} => w \notin live /\ revision[w] = 0
       /\ kind' = [kind EXCEPT ![o] = k]
       /\ target' = [target EXCEPT ![o] = w]
       /\ Goto(o, IF k \in {"open", "close", "delete"} THEN "userGate" ELSE k)
  /\ UNCHANGED <<seen, siblings, held, staged, diskVars, slotVars, gate, userGate,
                 capacity, workVars, accepting, faults, lost, missed>>

\* Mutant: the lifecycle of a user has no gate.
EnterAtOnce(o) ==
  /\ pc[o] = "userGate"
  /\ Goto(o, IF kind[o] = "open" THEN "get" ELSE kind[o])
  /\ UNCHANGED <<kind, target, seen, siblings, held, staged, diskVars, slotVars, gate, userGate,
                 capacity, workVars, accepting, faults, lost, missed>>

\* WorkspaceLifecycleService._user_gate.
EnterUserGate(o) ==
  /\ pc[o] = "userGate" /\ userGate[UserOf(o)] = NoOp
  /\ userGate' = [userGate EXCEPT ![UserOf(o)] = o]
  /\ Goto(o, IF kind[o] = "open" THEN "get" ELSE kind[o])
  /\ UNCHANGED <<kind, target, seen, siblings, held, staged, diskVars, slotVars, gate,
                 capacity, workVars, accepting, faults, lost, missed>>

-----------------------------------------------------------------------------
(* Opening: the target is looked at, the open siblings are closed, then it *)
(* is loaded.                                                              *)

OpenUnchanged == UNCHANGED <<kind, target, staged, diskVars, workVars, accepting, lost>>

GetTarget(o) ==
  /\ pc[o] = "get" /\ gate[target[o]] = NoOp
  /\ IF target[o] \in live
     THEN Goto(o, "scan") /\ UNCHANGED userGate
     ELSE Goto(o, "done") /\ LeaveUserGate(o)
  /\ OpenUnchanged /\ NoFault
  /\ UNCHANGED <<seen, siblings, held, slotVars, gate, capacity, missed>>

\* _scan_records_sync reads the metadata files without any gate ...
Scan(o) ==
  /\ pc[o] = "scan"
  /\ seen' = [seen EXCEPT ![o] = revision]
  /\ Goto(o, "look")
  /\ OpenUnchanged /\ NoFault
  /\ UNCHANGED <<siblings, held, slotVars, gate, userGate, capacity, missed>>

\* ... and then the plan files they name: a commit has removed those of an
\* older revision, and the Workspace seems corrupt.
Readable(o, w) == w \in live /\ revision[w] = seen[o][w]
LookAtSiblings(o) ==
  LET open == {w \in Owned(UserOf(o)) \ {target[o]} : slot[w] = "open"} IN
  /\ pc[o] = "look"
  /\ siblings' = [siblings EXCEPT ![o] = {w \in open : Readable(o, w)}]
  /\ missed' = missed \cup {w \in open : ~Readable(o, w)}
  /\ Goto(o, "switch")
  /\ OpenUnchanged /\ NoFault
  /\ UNCHANGED <<seen, held, slotVars, gate, userGate, capacity>>

\* request_close: at once without admitted work, when it has drained with some.
RequestClose(w) ==
  IF w \in live /\ slot[w] = "open" /\ w \in work
  THEN /\ slot' = [slot EXCEPT ![w] = "closing"]
       /\ UNCHANGED <<slotSize, slotRevision, capacity>>
  ELSE IF slot[w] # "closing" /\ Loaded(w)
  THEN Clear(w)
  ELSE UNCHANGED <<slotVars, capacity>>

CloseSibling(o) ==
  /\ pc[o] = "switch"
  /\ \E w \in siblings[o] :
       /\ gate[w] = NoOp
       /\ RequestClose(w)
       /\ missed' = missed \ {w}
       /\ siblings' = [siblings EXCEPT ![o] = @ \ {w}]
  /\ OpenUnchanged /\ NoFault
  /\ UNCHANGED <<pc, seen, held, gate, userGate>>

\* open_workspace: an aggregate in memory is open again, another is inspected,
\* which leaves its tabs and analyses out, and that size is reserved.
OpenEnters(o) ==
  LET w == target[o] IN
  /\ pc[o] = "switch" /\ siblings[o] = {} /\ gate[w] = NoOp
  /\ IF ~accepting \/ w \notin live
     THEN Goto(o, "done") /\ LeaveUserGate(o) /\ UNCHANGED <<slot, gate, held, capacity>>
     ELSE IF Loaded(w)
     THEN /\ slot' = [slot EXCEPT ![w] = "open"]
          /\ Goto(o, "done") /\ LeaveUserGate(o) /\ UNCHANGED <<gate, held, capacity>>
     ELSE \E inspected \in 1..size[w] :
          IF capacity + inspected > Limit
          THEN Goto(o, "done") /\ LeaveUserGate(o) /\ UNCHANGED <<slot, gate, held, capacity>>
          ELSE /\ capacity' = capacity + inspected
               /\ held' = [held EXCEPT ![o] = inspected]
               /\ TakeGate(o) /\ Goto(o, "load") /\ UNCHANGED <<slot, userGate>>
  /\ missed' = missed \ {w}
  /\ OpenUnchanged /\ NoFault
  /\ UNCHANGED <<seen, siblings, slotSize, slotRevision>>

\* Mutant: what was reserved is kept when loading fails.
LoadKeepsReserved(o) ==
  LET w == target[o]  more == size[w] - held[o] IN
  /\ pc[o] = "load"
  /\ \/ /\ capacity + more <= Limit
        /\ capacity' = capacity + more
        /\ Load(w, size[w], revision[w], "open") /\ NoFault
     \/ /\ more > 0 /\ capacity + more > Limit
        /\ UNCHANGED <<slotVars, capacity>> /\ NoFault
     \/ Fault /\ UNCHANGED <<slotVars, capacity>>
  /\ held' = [held EXCEPT ![o] = 0]
  /\ LeaveGate(o) /\ LeaveUserGate(o) /\ Goto(o, "done")
  /\ OpenUnchanged /\ UNCHANGED <<seen, siblings, missed>>

\* The whole snapshot is larger; when that does not fit, or loading fails,
\* what was reserved is given back.
OpenLoads(o) ==
  LET w == target[o]  more == size[w] - held[o] IN
  /\ pc[o] = "load"
  /\ \/ /\ capacity + more <= Limit
        /\ capacity' = capacity + more
        /\ Load(w, size[w], revision[w], "open") /\ NoFault
     \/ /\ more > 0 /\ capacity + more > Limit
        /\ capacity' = Less(held[o]) /\ UNCHANGED slotVars /\ NoFault
     \/ /\ Fault
        /\ capacity' = Less(held[o]) /\ UNCHANGED slotVars
  /\ held' = [held EXCEPT ![o] = 0]
  /\ LeaveGate(o) /\ LeaveUserGate(o) /\ Goto(o, "done")
  /\ OpenUnchanged /\ UNCHANGED <<seen, siblings, missed>>

OpenStep(o) ==
  \/ GetTarget(o) \/ Scan(o) \/ LookAtSiblings(o) \/ CloseSibling(o)
  \/ OpenEnters(o) \/ OpenLoads(o)

-----------------------------------------------------------------------------
(* Closing and deleting.                                                   *)

Close(o) ==
  /\ pc[o] = "close" /\ gate[target[o]] = NoOp
  /\ RequestClose(target[o])
  /\ missed' = missed \ {target[o]}
  /\ LeaveUserGate(o) /\ Goto(o, "done")
  /\ NoFault
  /\ UNCHANGED <<kind, target, seen, siblings, held, staged, diskVars, gate, workVars,
                 accepting, lost>>

\* deletion_context holds the gate while the work is stopped.
DeleteEnters(o) ==
  /\ pc[o] = "delete" /\ gate[target[o]] = NoOp
  /\ IF accepting /\ target[o] \in live
     THEN TakeGate(o) /\ Goto(o, "remove") /\ UNCHANGED userGate
     ELSE Goto(o, "done") /\ LeaveUserGate(o) /\ UNCHANGED gate
  /\ NoFault
  /\ UNCHANGED <<kind, target, seen, siblings, held, staged, diskVars, slotVars,
                 capacity, workVars, accepting, lost, missed>>

\* The directory moves to the trash, then the slot is cleared.  When the move
\* fails the work is stopped all the same.
DeleteRemoves(o) ==
  LET w == target[o] IN
  /\ pc[o] = "remove"
  /\ \/ /\ live' = live \ {w} /\ Clear(w) /\ NoFault
        /\ unfinished' = unfinished \ {w}
        /\ missed' = missed \ {w}
     \/ Fault /\ UNCHANGED <<live, slotVars, capacity, unfinished, missed>>
  /\ work' = work \ {w}
  /\ finalizing' = IF w \in work THEN finalizing \cup {w} ELSE finalizing
  /\ LeaveGate(o) /\ LeaveUserGate(o) /\ Goto(o, "done")
  /\ UNCHANGED <<kind, target, seen, siblings, held, staged, size, revision, works, accepting, lost>>

-----------------------------------------------------------------------------
(* Creating, and installing an imported archive: both publish a directory  *)
(* under a fresh name and leave it closed.                                 *)

CreateUnchanged ==
  UNCHANGED <<kind, target, seen, siblings, held, staged, slotVars, userGate, capacity,
              workVars, accepting, lost, missed>>

Create(o) ==
  /\ pc[o] = "create" /\ gate[target[o]] = NoOp /\ target[o] \notin live
  /\ \/ /\ accepting
        /\ live' = live \cup {target[o]}
        /\ size' = [size EXCEPT ![target[o]] = Min(Sizes)]
        /\ revision' = [revision EXCEPT ![target[o]] = 1] /\ NoFault
     \/ /\ \/ ~accepting /\ NoFault
           \/ accepting /\ Fault
        /\ UNCHANGED diskVars
  /\ Goto(o, "done")
  /\ CreateUnchanged /\ UNCHANGED gate

\* install_staged_archive, whose staging may be found too large or broken, and
\* _publish_staged_import_sync: the directory is there while its plans are
\* moved to it and it is read once more, and is removed if that fails.
ImportPublishes(o) ==
  /\ pc[o] = "import" /\ target[o] \notin live
  /\ \/ /\ accepting /\ TakeGate(o) /\ NoFault
        /\ live' = live \cup {target[o]}
        /\ \E n \in Sizes : size' = [size EXCEPT ![target[o]] = n]
        /\ revision' = [revision EXCEPT ![target[o]] = 1]
        /\ Goto(o, "verify")
     \/ /\ \/ ~accepting /\ NoFault
           \/ accepting /\ Fault
        /\ Goto(o, "done") /\ UNCHANGED <<diskVars, gate>>
  /\ CreateUnchanged

ImportVerifies(o) ==
  /\ pc[o] = "verify"
  /\ \/ UNCHANGED live /\ NoFault
     \/ live' = live \ {target[o]} /\ Fault
  /\ LeaveGate(o) /\ Goto(o, "done")
  /\ CreateUnchanged /\ UNCHANGED <<size, revision>>

-----------------------------------------------------------------------------
(* mutation_context and _persist.                                          *)

MutateUnchanged ==
  UNCHANGED <<kind, target, seen, siblings, live, userGate, workVars, accepting, missed>>

\* The body of a command asks for a commit, finds nothing to change, or
\* refuses after it has changed a part of the live Workspace.
BodyEnds == {"persist", "leave", "restore"}

MutateEnters(o) ==
  /\ pc[o] = "mutate" /\ gate[target[o]] = NoOp
  /\ IF accepting /\ target[o] \in live /\ slot[target[o]] = "open"
     THEN TakeGate(o) /\ \E end \in BodyEnds : Goto(o, end)
     ELSE Goto(o, "done") /\ UNCHANGED gate
  /\ MutateUnchanged /\ NoFault
  /\ UNCHANGED <<held, staged, size, revision, slotVars, capacity, lost>>

\* The next snapshot is staged and its growth reserved.  When the growth does
\* not fit, it is given back although it was not taken.
PersistReserves(o) ==
  /\ pc[o] = "persist"
  /\ \E n \in Sizes :
       LET growth == Growth(n, slotSize[target[o]]) IN
       /\ staged' = [staged EXCEPT ![o] = n]
       /\ IF growth > 0 /\ capacity + growth > Limit
          THEN /\ capacity' = Less(growth)
               /\ lost' = lost + (capacity - Less(growth))
               /\ Goto(o, "restore") /\ UNCHANGED held
          ELSE /\ capacity' = capacity + growth
               /\ held' = [held EXCEPT ![o] = growth]
               /\ Goto(o, "commit") /\ UNCHANGED lost
  /\ NoFault
  /\ MutateUnchanged /\ UNCHANGED <<size, revision, slotVars, gate>>

\* commit_staged may also fail after it has published.
PersistCommits(o) ==
  LET w == target[o]  n == staged[o]
      publish == /\ size' = [size EXCEPT ![w] = n]
                 /\ revision' = [revision EXCEPT ![w] = @ + 1]
  IN /\ pc[o] = "commit"
     /\ \/ /\ publish /\ NoFault
           /\ Load(w, n, revision[w] + 1, slot[w])
           /\ capacity' = Less(Growth(slotSize[w], n))
           /\ LeaveGate(o) /\ Goto(o, "done")
        \/ /\ Fault
           /\ publish \/ UNCHANGED <<size, revision>>
           /\ capacity' = Less(held[o])
           /\ Goto(o, "restore") /\ UNCHANGED <<slotVars, gate>>
     /\ held' = [held EXCEPT ![o] = 0]
     /\ MutateUnchanged /\ UNCHANGED <<staged, lost>>

\* Mutant: the slot is kept as it was, although the commit may have happened.
RestoreNothing(o) ==
  /\ pc[o] = "restore"
  /\ LeaveGate(o) /\ Goto(o, "done")
  /\ MutateUnchanged /\ NoFault
  /\ UNCHANGED <<held, staged, size, revision, slotVars, capacity, lost>>

\* _restore_slot reads what is committed; failing that, the slot is cleared.
Restore(o) ==
  LET w == target[o]  growth == Growth(size[w], slotSize[w]) IN
  /\ pc[o] = "restore"
  /\ \/ /\ growth = 0 \/ capacity + growth <= Limit
        /\ capacity' = Less(Growth(slotSize[w], size[w])) + growth
        /\ Load(w, size[w], revision[w], slot[w]) /\ NoFault
     \/ growth > 0 /\ capacity + growth > Limit /\ Clear(w) /\ NoFault
     \/ Fault /\ Clear(w)
  /\ LeaveGate(o) /\ Goto(o, "done")
  /\ MutateUnchanged /\ UNCHANGED <<held, staged, size, revision, lost>>

NothingChanged(o) ==
  /\ pc[o] = "leave" /\ LeaveGate(o) /\ Goto(o, "done")
  /\ MutateUnchanged /\ NoFault
  /\ UNCHANGED <<held, staged, size, revision, slotVars, capacity, lost>>

MutateStep(o) == NothingChanged(o) \/ PersistReserves(o) \/ PersistCommits(o) \/ Restore(o)

-----------------------------------------------------------------------------
(* Analysis work: submission_context, the completion, the end of the       *)
(* runner.                                                                 *)

WorkUnchanged == UNCHANGED <<opVars, held, live, userGate, gate, accepting, missed, lost>>

SubmitWork(w) ==
  /\ accepting /\ works < MaxWork /\ w \notin work \cup unfinished
  /\ gate[w] = NoOp /\ w \in live /\ slot[w] = "open"
  /\ work' = work \cup {w} /\ unfinished' = unfinished \cup {w}
  /\ works' = works + 1
  /\ WorkUnchanged /\ NoFault
  /\ UNCHANGED <<size, revision, slotVars, capacity, finalizing>>

\* Mutant: the end of a runner does not finalize a closing Workspace.
WorkEndsQuietly(w) ==
  /\ w \in work /\ gate[w] = NoOp
  /\ unfinished' = unfinished \ {w} /\ work' = work \ {w}
  /\ revision' = [revision EXCEPT ![w] = @ + 1]
  /\ slotRevision' = [slotRevision EXCEPT ![w] = @ + 1]
  /\ WorkUnchanged /\ NoFault
  /\ UNCHANGED <<size, slot, slotSize, capacity, works, finalizing>>

\* The completion commits its record, also while the Workspace closes; a
\* Workspace that is no longer open has lost it.
WorkEnds(w) ==
  /\ w \in work /\ gate[w] = NoOp
  /\ IF w \in live /\ Loaded(w)
     THEN /\ unfinished' = unfinished \ {w}
          /\ revision' = [revision EXCEPT ![w] = @ + 1]
          /\ slotRevision' = [slotRevision EXCEPT ![w] = @ + 1]
     ELSE UNCHANGED <<unfinished, revision, slotRevision>>
  /\ work' = work \ {w} /\ finalizing' = finalizing \cup {w}
  /\ WorkUnchanged /\ NoFault
  /\ UNCHANGED <<size, slot, slotSize, capacity, works>>

\* finalize_close_if_idle.
Finalize(w) ==
  /\ w \in finalizing /\ gate[w] = NoOp
  /\ IF slot[w] = "closing" /\ w \notin work
     THEN Clear(w)
     ELSE UNCHANGED <<slotVars, capacity>>
  /\ finalizing' = finalizing \ {w}
  /\ WorkUnchanged /\ NoFault
  /\ UNCHANGED <<size, revision, work, unfinished, works>>

\* close: nothing is accepted any more, then every slot is cleared.
Stop ==
  /\ accepting /\ accepting' = FALSE
  /\ UNCHANGED <<opVars, held, diskVars, slotVars, gate, userGate, capacity,
                 workVars, faults, lost, missed>>

StopClears(w) ==
  /\ ~accepting /\ gate[w] = NoOp /\ Loaded(w)
  /\ Clear(w)
  /\ missed' = missed \ {w}
  /\ UNCHANGED <<opVars, held, diskVars, gate, userGate, workVars, accepting,
                 faults, lost>>

OpStep(o) ==
  \/ EnterUserGate(o) \/ OpenStep(o) \/ Close(o) \/ DeleteEnters(o)
  \/ DeleteRemoves(o) \/ Create(o) \/ ImportPublishes(o) \/ ImportVerifies(o)
  \/ MutateEnters(o) \/ MutateStep(o)

RuntimeNext ==
  \/ \E o \in Ops : Begin(o) \/ OpStep(o)
  \/ \E w \in Workspaces : \/ SubmitWork(w) \/ WorkEnds(w) \/ Finalize(w)
                           \/ StopClears(w)
  \/ Stop

RuntimeSpec == RuntimeInit /\ [][RuntimeNext]_runtimeVars

\* Requests proceed and a runner ends, as a worker that returns or is
\* cancelled lets it; no one is obliged to make a request or to submit work.
Fairness ==
  /\ \A o \in Ops : WF_runtimeVars(OpStep(o))
  /\ \A w \in Workspaces : WF_runtimeVars(WorkEnds(w)) /\ WF_runtimeVars(Finalize(w))

RuntimeFairSpec == RuntimeSpec /\ Fairness

-----------------------------------------------------------------------------
RuntimeTypeOK ==
  /\ pc \in [Ops -> {"idle", "userGate", "get", "scan", "look", "switch", "load", "close",
                     "delete", "remove", "create", "import", "verify", "mutate", "persist",
                     "commit", "restore", "leave", "done"}]
  /\ target \in [Ops -> Workspaces] /\ siblings \in [Ops -> SUBSET Workspaces]
  /\ {held, staged} \subseteq [Ops -> Nat] /\ {capacity, lost} \subseteq Nat
  /\ {live, work, unfinished, finalizing, missed} \subseteq SUBSET Workspaces
  /\ {size, revision, slotSize, slotRevision} \subseteq [Workspaces -> Nat]
  /\ slot \in [Workspaces -> {"closed", "open", "closing"}]
  /\ gate \in [Workspaces -> Ops \cup {NoOp}] /\ userGate \in [Users -> Ops \cup {NoOp}]

\* The counter of open capacity is what the aggregates in memory take and what
\* operations under way have reserved, whatever failed in between, and is
\* within the limit; less only what failing mutations have given back without
\* having taken it (`lost`).
CapacityIsExact ==
  /\ RuntimeTypeOK
  /\ capacity <= Limit
  /\ capacity + lost >= Sum(slotSize, Workspaces) + Sum(held, Ops)
  /\ lost = 0 => capacity = Sum(slotSize, Workspaces) + Sum(held, Ops)

\* A user has one open Workspace at most: also when opening races with the
\* mutation, the closing or the deletion of another; unless a listing took the
\* other for unavailable while it was committed.
OneIsOpen ==
  \A u \in Users : Cardinality({w \in Owned(u) : slot[w] = "open"} \ missed) <= 1

\* What is open is the committed snapshot of a directory that exists, whenever
\* nobody holds the gate: failing commits, deletions and imports included.
MemoryIsCommitted ==
  \A w \in Workspaces : Loaded(w) /\ gate[w] = NoOp =>
    w \in live /\ slotSize[w] = size[w] /\ slotRevision[w] = revision[w]

\* Closing ends: once the admitted work has drained, unless it is opened again.
ClosingEnds ==
  \A w \in Workspaces : slot[w] = "closing" ~> slot[w] # "closing"
=============================================================================
