--------------------------- MODULE UserFileImports --------------------------
(***************************************************************************)
(* Imports into the files of one user (services/user_file_imports.py, its  *)
(* scheduler and its process executor, and the two kinds of import in      *)
(* sample_data.py and data_portal.py).                                     *)
(*                                                                         *)
(* An import has a request that submits it, a runner the scheduler starts, *)
(* perhaps a request that cancels or deletes it, and, during shutdown, a   *)
(* task that interrupts it while queued.  All but the first take the gate  *)
(* of the import; a runner leaves its work by a cancellation at any await  *)
(* outside a shield.  The order among pending imports is FairQueue's.      *)
(***************************************************************************)
EXTENDS Naturals, FiniteSets

CONSTANTS
  Imports,
  KindOf,        \* "sample" or "portal"
  DestOf,        \* the directory the result is published as
  Capacity,      \* max_active of the scheduler
  MaxFaults,     \* bounds failures of storage
  MaxRestarts    \* bounds crashes and orderly shutdowns

Dests == {DestOf[i] : i \in Imports}
NoImport == "no import"

ASSUME ImportsAssumption ==
  /\ IsFiniteSet(Imports) /\ NoImport \notin Imports
  /\ KindOf \in [Imports -> {"sample", "portal"}]
  /\ DOMAIN DestOf = Imports
  /\ Capacity \in Nat \ {0} /\ MaxFaults \in Nat /\ MaxRestarts \in Nat

VARIABLES
  \* in memory
  mem,         \* _records: the state of an import, "none" without a record
  creq,        \* its cancellation_requested_at is set
  table,       \* it is in _queued_executions and _queued_reservations
  queue,       \* the scheduler: "none", "pending" or "active"
  asked,       \* active imports whose scope is cancelled, or will be at once
  reserved,    \* its storage is reserved
  submit,      \* where the submission stands
  run,         \* where its runner stands
  outcome,     \* how the runner left its work: "none", "cancelled", "failure"
  user,        \* where a request that cancels it stands
  interrupt,   \* where _interrupt_queued stands
  phase,       \* of the service: "serving", "draining", "closing", "down"
  \* outside
  disk,        \* the state saved in the import's file, "none" without one
  staging,     \* its private directory exists
  proc,        \* its child process is alive
  owner,       \* of every destination: the import its marker names
  \* bounds and history
  faults, restarts,
  faulted,     \* imports whose storage failed in a way the code gives up on
  installed    \* imports whose files have been published

memory == <<mem, creq, table, queue, asked, reserved, submit, run, outcome,
            user, interrupt, phase>>
importVars == <<memory, disk, staging, proc, owner, faults, restarts, faulted, installed>>

Terminal == {"succeeded", "failed", "cancelled"}
Records == {"none", "queued", "running"} \cup Terminal

\* The steps of a runner that hold the gate of its import.
GatedSteps == {"starting", "started", "rechecking", "installing", "installed", "saved"}
\* The steps at which a cancelled scope raises.
Cancellable == GatedSteps \cup {"dispatched", "launching", "executing", "result"}
RunSteps == Cancellable \cup {"none", "terminating", "cleanup", "release", "finish", "ended"}

GateIsFree(i) == /\ run[i] \notin GatedSteps
                 /\ user[i] = "none"
                 /\ interrupt[i] \in {"none", "waiting"}

Alive == phase # "down"
Set(f, i, v) == [f EXCEPT ![i] = v]

\* A failure of storage; LosesTrack when nobody retries what failed.
Fault == faults < MaxFaults /\ faults' = faults + 1
LosesTrack(i) == Fault /\ faulted' = faulted \cup {i}
NoFault == UNCHANGED <<faults, faulted>>

-----------------------------------------------------------------------------
ImportsInit ==
  /\ mem = [i \in Imports |-> "none"] /\ creq = [i \in Imports |-> FALSE]
  /\ table = [i \in Imports |-> FALSE] /\ queue = [i \in Imports |-> "none"]
  /\ asked = {} /\ reserved = [i \in Imports |-> FALSE]
  /\ submit = [i \in Imports |-> "new"] /\ run = [i \in Imports |-> "none"]
  /\ outcome = [i \in Imports |-> "none"] /\ user = [i \in Imports |-> "none"]
  /\ interrupt = [i \in Imports |-> "none"] /\ phase = "serving"
  /\ disk = [i \in Imports |-> "none"] /\ staging = [i \in Imports |-> FALSE]
  /\ proc = [i \in Imports |-> FALSE] /\ owner = [d \in Dests |-> NoImport]
  /\ faults = 0 /\ restarts = 0 /\ faulted = {} /\ installed = {}

-----------------------------------------------------------------------------
(* submit_sample and submit_data_portal.                                   *)

SubmitUnchanged ==
  UNCHANGED <<creq, asked, run, outcome, user, interrupt, phase, proc, owner,
              restarts, installed>>

\* The private directory, and whether the import may publish what is in it.
PrepareStage(i) == staging' = Set(staging, i, TRUE)
RemoveStage(i) == staging' = Set(staging, i, FALSE)
StageIsSound(i) == staging[i]
DestinationIsFree(i) == owner[DestOf[i]] = NoImport

\* _require_accepting, then room is reserved.
Acquire(i) ==
  /\ submit[i] = "new" /\ phase = "serving"
  /\ submit' = Set(submit, i, "acquired")
  /\ reserved' = Set(reserved, i, TRUE)
  /\ SubmitUnchanged /\ NoFault
  /\ UNCHANGED <<mem, table, queue, disk, staging>>

Refuse(i) == /\ submit' = Set(submit, i, "refused")
             /\ reserved' = Set(reserved, i, FALSE)

\* A sample that is installed already, or is not in the catalogue, is refused.
PrepareSample(i) ==
  /\ submit[i] = "acquired" /\ Alive /\ KindOf[i] = "sample"
  /\ \/ /\ DestinationIsFree(i) /\ PrepareStage(i)
        /\ submit' = Set(submit, i, "prepared") /\ UNCHANGED reserved /\ NoFault
     \/ /\ \/ ~DestinationIsFree(i) /\ NoFault
           \/ Fault /\ UNCHANGED faulted
        /\ Refuse(i) /\ UNCHANGED staging
  /\ SubmitUnchanged /\ UNCHANGED <<mem, table, queue, disk>>

\* A portal import has its stage before its credential; without one it
\* removes the stage itself, the submission returns the room.
PreparePortal(i) ==
  /\ Alive /\ KindOf[i] = "portal"
  /\ \/ /\ submit[i] = "acquired" /\ PrepareStage(i)
        /\ submit' = Set(submit, i, "staged") /\ UNCHANGED reserved /\ NoFault
     \/ /\ submit[i] = "staged" /\ submit' = Set(submit, i, "prepared")
        /\ UNCHANGED <<reserved, staging>> /\ NoFault
     \/ /\ submit[i] = "staged" /\ Refuse(i)
        /\ \/ RemoveStage(i) /\ Fault /\ UNCHANGED faulted
           \/ UNCHANGED staging /\ LosesTrack(i)
  /\ SubmitUnchanged /\ UNCHANGED <<mem, table, queue, disk>>

SaveQueued(i) ==
  /\ submit[i] = "prepared" /\ Alive
  /\ \/ /\ submit' = Set(submit, i, "persisted")
        /\ disk' = Set(disk, i, "queued") /\ NoFault
     \/ /\ Fault /\ UNCHANGED <<faulted, disk>>
        /\ submit' = Set(submit, i, "undoStage")
  /\ SubmitUnchanged /\ UNCHANGED <<mem, table, queue, reserved, staging>>

Register(i) ==
  /\ submit[i] = "persisted" /\ Alive
  /\ submit' = Set(submit, i, "registered")
  /\ mem' = Set(mem, i, "queued")
  /\ table' = Set(table, i, TRUE)
  /\ SubmitUnchanged /\ NoFault
  /\ UNCHANGED <<queue, reserved, disk, staging>>

\* A scheduler that has stopped meanwhile refuses, and the record is undone.
Enqueue(i) ==
  /\ submit[i] = "registered" /\ Alive
  /\ IF phase = "serving"
     THEN /\ queue' = Set(queue, i, "pending")
          /\ submit' = Set(submit, i, "accepted")
          /\ UNCHANGED <<mem, table>>
     ELSE /\ mem' = Set(mem, i, "none") /\ table' = Set(table, i, FALSE)
          /\ submit' = Set(submit, i, "undoStage")
          /\ UNCHANGED queue
  /\ SubmitUnchanged /\ NoFault /\ UNCHANGED <<reserved, disk, staging>>

\* The way back: the stage, the file, the reservation; a failure of one
\* leaves the rest undone.
UndoStage(i) ==
  /\ submit[i] = "undoStage" /\ Alive
  /\ \/ /\ RemoveStage(i)
        /\ submit' = Set(submit, i, "undoRecord") /\ NoFault
     \/ /\ LosesTrack(i)
        /\ submit' = Set(submit, i, "refused") /\ UNCHANGED staging
  /\ SubmitUnchanged /\ UNCHANGED <<mem, table, queue, reserved, disk>>

UndoRecord(i) ==
  /\ submit[i] = "undoRecord" /\ Alive
  /\ \/ /\ disk' = Set(disk, i, "none")
        /\ reserved' = Set(reserved, i, FALSE) /\ NoFault
     \/ LosesTrack(i) /\ UNCHANGED <<disk, reserved>>
  /\ submit' = Set(submit, i, "refused")
  /\ SubmitUnchanged /\ UNCHANGED <<mem, table, queue, staging>>

SubmitStep(i) ==
  \/ PrepareSample(i) \/ PreparePortal(i) \/ SaveQueued(i) \/ Register(i) \/ Enqueue(i)
  \/ UndoStage(i) \/ UndoRecord(i)

-----------------------------------------------------------------------------
(* UserFileImportScheduler._run and _run_one, UserFileImportService._run.  *)

Dispatch(i) ==
  /\ phase = "serving" /\ queue[i] = "pending"
  /\ Cardinality({j \in Imports : queue[j] = "active"}) < Capacity
  /\ queue' = Set(queue, i, "active")
  /\ run' = Set(run, i, "dispatched")
  /\ UNCHANGED <<mem, creq, table, asked, reserved, submit, outcome, user,
                 interrupt, phase, disk, staging, proc, owner, restarts, installed>>
  /\ NoFault

Moves(i, from, to) == /\ run[i] = from /\ i \notin asked /\ Alive
                      /\ run' = Set(run, i, to)

\* The work is left: what it held is cleaned up next.
Leaves(i, why) == run' = Set(run, i, "cleanup") /\ outcome' = Set(outcome, i, why)

RunUnchanged ==
  UNCHANGED <<creq, queue, submit, user, interrupt, phase, owner, restarts, installed>>

\* Without its queued record and what was prepared for it, there is nothing to run.
RunEnters(i) ==
  /\ GateIsFree(i)
  /\ Moves(i, "dispatched", IF mem[i] = "queued" /\ table[i] THEN "starting" ELSE "ended")
  /\ RunUnchanged /\ NoFault
  /\ UNCHANGED <<mem, table, asked, reserved, outcome, disk, staging, proc>>

RunSaves(i) ==
  /\ \/ /\ Moves(i, "starting", "started")
        /\ disk' = Set(disk, i, "running") /\ NoFault /\ UNCHANGED outcome
     \/ /\ run[i] = "starting" /\ i \notin asked /\ Alive
        /\ Fault /\ UNCHANGED <<faulted, disk>>
        /\ Leaves(i, "failure")
  /\ RunUnchanged /\ UNCHANGED <<mem, table, asked, reserved, staging, proc>>

RunStarts(i) ==
  /\ Moves(i, "started", IF KindOf[i] = "portal" THEN "launching" ELSE "executing")
  /\ mem' = Set(mem, i, "running")
  /\ table' = Set(table, i, FALSE)
  /\ RunUnchanged /\ NoFault
  /\ UNCHANGED <<asked, reserved, outcome, disk, staging, proc>>

\* UserFileImportProcessExecutor.execute; close comes after cancel_active, so
\* no launch of an import that was not asked to stop finds it closed.
Launch(i) ==
  /\ Moves(i, "launching", "executing")
  /\ proc' = Set(proc, i, TRUE)
  /\ RunUnchanged /\ NoFault
  /\ UNCHANGED <<mem, table, asked, reserved, outcome, disk, staging>>

\* A sample is downloaded by the runner itself, a portal import by its child,
\* under its storage limit: with a result, or with an error.
DownloadEnds(i) == KindOf[i] = "sample" /\ UNCHANGED proc
ProcessEnds(i) == KindOf[i] = "portal" /\ proc' = Set(proc, i, FALSE)

ExecuteEnds(i) ==
  /\ run[i] = "executing" /\ i \notin asked /\ Alive
  /\ DownloadEnds(i) \/ ProcessEnds(i)
  /\ \/ run' = Set(run, i, "result") /\ UNCHANGED outcome
     \/ Leaves(i, "failure")
  /\ RunUnchanged /\ NoFault
  /\ UNCHANGED <<mem, table, asked, reserved, disk, staging>>

\* report_progress fails an import that reports nonsense, then stops it.
ReportInvalid(i) ==
  /\ run[i] = "executing" /\ i \notin asked /\ Alive
  /\ mem[i] = "running" /\ GateIsFree(i)
  /\ mem' = Set(mem, i, "failed") /\ disk' = Set(disk, i, "failed")
  /\ asked' = asked \cup {i}
  /\ RunUnchanged /\ NoFault
  /\ UNCHANGED <<table, reserved, run, outcome, staging, proc>>

\* Its early exits are dead: whoever ends the record or asks for its
\* cancellation has cancelled the scope, and the runner never gets here.
CompleteEnters(i) ==
  /\ GateIsFree(i) /\ mem[i] = "running" /\ ~creq[i]
  /\ Moves(i, "result", "rechecking")
  /\ RunUnchanged /\ NoFault
  /\ UNCHANGED <<mem, table, asked, reserved, outcome, disk, staging, proc>>

\* The quota may not allow what was staged.
Recheck(i) ==
  /\ run[i] = "rechecking" /\ i \notin asked /\ Alive
  /\ \/ run' = Set(run, i, "installing") /\ UNCHANGED outcome
     \/ Leaves(i, "failure")
  /\ RunUnchanged /\ NoFault
  /\ UNCHANGED <<mem, table, asked, reserved, disk, staging, proc>>

\* The stage moves to its destination, with a marker that names its import.
Publishes(i) == /\ owner' = Set(owner, DestOf[i], i)
                /\ RemoveStage(i)
                /\ installed' = installed \cup {i}

\* install_import_staging: a destination that exists is a conflict, and the
\* last flush may fail after the move.
Install(i) ==
  /\ run[i] = "installing" /\ i \notin asked /\ Alive
  /\ \/ /\ DestinationIsFree(i) /\ StageIsSound(i) /\ Publishes(i)
        /\ \/ run' = Set(run, i, "installed") /\ UNCHANGED outcome /\ NoFault
           \/ Leaves(i, "failure") /\ Fault /\ UNCHANGED faulted
     \/ /\ ~(DestinationIsFree(i) /\ StageIsSound(i)) /\ NoFault
        /\ Leaves(i, "failure") /\ UNCHANGED <<owner, staging, installed>>
  /\ UNCHANGED <<mem, creq, table, queue, asked, reserved, submit, user,
                 interrupt, phase, disk, proc, restarts>>

SaveSucceeded(i) ==
  /\ \/ /\ Moves(i, "installed", "saved")
        /\ disk' = Set(disk, i, "succeeded") /\ NoFault /\ UNCHANGED outcome
     \/ /\ run[i] = "installed" /\ i \notin asked /\ Alive
        /\ Fault /\ UNCHANGED <<faulted, disk>>
        /\ Leaves(i, "failure")
  /\ RunUnchanged /\ UNCHANGED <<mem, table, asked, reserved, staging, proc>>

MarkSucceeded(i) ==
  /\ Moves(i, "saved", "cleanup")
  /\ mem' = Set(mem, i, "succeeded")
  /\ RunUnchanged /\ NoFault
  /\ UNCHANGED <<table, asked, reserved, outcome, disk, staging, proc>>

\* Mutant: the child is left to itself.
RunnerLeavesChild(i) ==
  /\ run[i] \in Cancellable /\ i \in asked /\ Alive
  /\ run' = Set(run, i, IF run[i] = "dispatched" THEN "finish" ELSE "cleanup")
  /\ outcome' = Set(outcome, i, "cancelled")
  /\ RunUnchanged /\ NoFault
  /\ UNCHANGED <<mem, table, asked, reserved, disk, staging, proc>>

\* The cancellation of a runner's scope, delivered at its next await; one
\* that has read nothing yet has nothing to clean up.
RunnerCancelled(i) ==
  /\ run[i] \in Cancellable /\ i \in asked /\ Alive
  /\ run' = Set(run, i, CASE run[i] = "dispatched" -> "finish"
                          [] run[i] # "dispatched" /\ proc[i] -> "terminating"
                          [] OTHER -> "cleanup")
  /\ outcome' = Set(outcome, i, "cancelled")
  /\ RunUnchanged /\ NoFault
  /\ UNCHANGED <<mem, table, asked, reserved, disk, staging, proc>>

\* From here on the runner is shielded.
Terminate(i) ==
  /\ run[i] = "terminating" /\ Alive
  /\ proc' = Set(proc, i, FALSE)
  /\ run' = Set(run, i, "cleanup")
  /\ RunUnchanged /\ NoFault
  /\ UNCHANGED <<mem, table, asked, reserved, outcome, disk, staging>>

\* _cleanup_execution; a failure is logged.
RunCleans(i) ==
  /\ run[i] = "cleanup" /\ Alive
  /\ \/ RemoveStage(i) /\ NoFault
     \/ staging[i] /\ LosesTrack(i) /\ UNCHANGED staging
  /\ run' = Set(run, i, "release")
  /\ RunUnchanged /\ UNCHANGED <<mem, table, asked, reserved, outcome, disk, proc>>

RunReleases(i) ==
  /\ run[i] = "release" /\ Alive
  /\ reserved' = Set(reserved, i, FALSE)
  /\ run' = Set(run, i, IF outcome[i] = "none" THEN "ended" ELSE "finish")
  /\ RunUnchanged /\ NoFault
  /\ UNCHANGED <<mem, table, asked, outcome, disk, staging, proc>>

\* Mutants: the interruption ends whatever there is; the failure only what runs.
FinalWhatever(i) ==
  CASE outcome[i] = "cancelled" -> IF creq[i] THEN "cancelled" ELSE "failed"
    [] outcome[i] = "failure" /\ mem[i] \in {"queued", "running"} -> "failed"
    [] OTHER -> mem[i]
FinalRunning(i) ==
  CASE outcome[i] = "cancelled" /\ mem[i] = "running" ->
         IF creq[i] THEN "cancelled" ELSE "failed"
    [] outcome[i] = "failure" /\ mem[i] = "running" -> "failed"
    [] OTHER -> mem[i]

\* _finish_interruption and _fail: the record the runner ends with.  An
\* interruption ends only what runs; a failure also what is still queued.
FinalRecord(i) ==
  CASE outcome[i] = "cancelled" /\ mem[i] = "running" ->
         IF creq[i] THEN "cancelled" ELSE "failed"
    [] outcome[i] = "failure" /\ mem[i] \in {"queued", "running"} -> "failed"
    [] OTHER -> mem[i]

RunFinishes(i) ==
  /\ run[i] = "finish" /\ Alive /\ GateIsFree(i)
  /\ \/ FinalRecord(i) = mem[i] /\ NoFault /\ UNCHANGED <<mem, disk>>
     \/ /\ FinalRecord(i) # mem[i]
        /\ \/ /\ mem' = Set(mem, i, FinalRecord(i))
              /\ disk' = Set(disk, i, FinalRecord(i)) /\ NoFault
           \/ LosesTrack(i) /\ UNCHANGED <<mem, disk>>
  /\ run' = Set(run, i, "ended")
  /\ RunUnchanged /\ UNCHANGED <<table, asked, reserved, outcome, staging, proc>>

RunnerEnds(i) ==
  /\ run[i] = "ended" /\ Alive
  /\ queue' = Set(queue, i, "none")
  /\ run' = Set(run, i, "none")
  /\ outcome' = Set(outcome, i, "none")
  /\ asked' = asked \ {i}
  /\ NoFault
  /\ UNCHANGED <<mem, creq, table, reserved, submit, user, interrupt, phase,
                 disk, staging, proc, owner, restarts, installed>>

RunnerStep(i) ==
  \/ RunEnters(i) \/ RunSaves(i) \/ RunStarts(i) \/ Launch(i) \/ ExecuteEnds(i)
  \/ CompleteEnters(i) \/ Recheck(i) \/ Install(i) \/ SaveSucceeded(i)
  \/ MarkSucceeded(i) \/ RunnerCancelled(i) \/ Terminate(i) \/ RunCleans(i)
  \/ RunReleases(i) \/ RunFinishes(i) \/ RunnerEnds(i)

-----------------------------------------------------------------------------
(* cancel and delete.                                                      *)

UserUnchanged ==
  UNCHANGED <<submit, run, outcome, interrupt, phase, proc, owner, restarts, installed>>

\* The scheduler gives a pending import up, or cancels the scope of its
\* runner; what was prepared is then the request's to return.
CancelQueued(i) ==
  /\ GateIsFree(i) /\ Alive /\ mem[i] = "queued" /\ queue[i] # "none"
  /\ IF queue[i] = "pending"
     THEN queue' = Set(queue, i, "none") /\ UNCHANGED asked
     ELSE asked' = asked \cup {i} /\ UNCHANGED queue
  /\ table' = Set(table, i, FALSE)
  /\ user' = IF table[i] THEN Set(user, i, "cleaning") ELSE user
  /\ UserUnchanged /\ NoFault
  /\ UNCHANGED <<mem, creq, reserved, disk, staging>>

CancelCleans(i) ==
  /\ user[i] = "cleaning" /\ Alive
  /\ \/ /\ RemoveStage(i)
        /\ reserved' = Set(reserved, i, FALSE)
        /\ user' = Set(user, i, "saving") /\ NoFault
     \/ /\ staging[i] /\ LosesTrack(i) /\ UNCHANGED <<staging, reserved>>
        /\ user' = Set(user, i, "none")
  /\ UserUnchanged /\ UNCHANGED <<mem, creq, table, queue, asked, disk>>

CancelSaves(i) ==
  /\ user[i] = "saving" /\ Alive
  /\ \/ /\ disk' = Set(disk, i, "cancelled")
        /\ mem' = Set(mem, i, "cancelled") /\ NoFault
     \/ LosesTrack(i) /\ UNCHANGED <<disk, mem>>
  /\ user' = Set(user, i, "none")
  /\ UserUnchanged /\ UNCHANGED <<creq, table, queue, asked, reserved, staging>>

CancelRunning(i) ==
  /\ GateIsFree(i) /\ Alive /\ mem[i] = "running" /\ queue[i] = "active"
  /\ asked' = asked \cup {i}
  /\ user' = IF creq[i] THEN user ELSE Set(user, i, "requesting")
  /\ UserUnchanged /\ NoFault
  /\ UNCHANGED <<mem, creq, table, queue, reserved, disk, staging>>

\* Saving that a cancellation was requested leaves the state as it is.
CancelRequested(i) ==
  /\ user[i] = "requesting" /\ Alive
  /\ \/ /\ creq' = Set(creq, i, TRUE)
        /\ disk' = Set(disk, i, "running") /\ NoFault
     \/ Fault /\ UNCHANGED <<faulted, creq, disk>>
  /\ user' = Set(user, i, "none")
  /\ UserUnchanged /\ UNCHANGED <<mem, table, queue, asked, reserved, staging>>

\* Mutant: the record is forgotten although its file could not be removed.
DeleteForgets(i) ==
  /\ GateIsFree(i) /\ Alive /\ mem[i] \in Terminal
  /\ mem' = Set(mem, i, "none")
  /\ \/ disk' = Set(disk, i, "none") /\ NoFault
     \/ UNCHANGED <<disk, faulted>> /\ Fault
  /\ UserUnchanged
  /\ UNCHANGED <<creq, table, queue, asked, reserved, user, staging>>

Delete(i) ==
  /\ GateIsFree(i) /\ Alive /\ mem[i] \in Terminal
  /\ mem' = Set(mem, i, "none")
  /\ disk' = Set(disk, i, "none")
  /\ UserUnchanged /\ NoFault
  /\ UNCHANGED <<creq, table, queue, asked, reserved, user, staging>>

UserStep(i) == CancelCleans(i) \/ CancelSaves(i) \/ CancelRequested(i)

-----------------------------------------------------------------------------
(* close: dispatch stops, the active are cancelled, the queued interrupted.*)

StopDispatch ==
  /\ phase = "serving" /\ restarts < MaxRestarts
  /\ phase' = "draining"
  /\ interrupt' = [i \in Imports |-> IF queue[i] = "pending" THEN "waiting" ELSE "none"]
  /\ queue' = [i \in Imports |-> IF queue[i] = "pending" THEN "none" ELSE queue[i]]
  /\ NoFault
  /\ UNCHANGED <<mem, creq, table, asked, reserved, submit, run, outcome, user,
                 disk, staging, proc, owner, restarts, installed>>

CancelActive ==
  /\ phase = "draining"
  /\ phase' = "closing"
  /\ asked' = {i \in Imports : queue[i] = "active"}
  /\ NoFault
  /\ UNCHANGED <<mem, creq, table, queue, reserved, submit, run, outcome, user,
                 interrupt, disk, staging, proc, owner, restarts, installed>>

\* UserFileImportProcessExecutor.close.
ExecutorTerminates(i) ==
  /\ phase = "closing" /\ proc[i]
  /\ proc' = Set(proc, i, FALSE)
  /\ NoFault
  /\ UNCHANGED <<memory, disk, staging, owner, restarts, installed>>

InterruptUnchanged ==
  UNCHANGED <<creq, queue, asked, submit, run, outcome, user, phase, proc,
              owner, restarts, installed>>

InterruptEnters(i) ==
  /\ phase = "closing" /\ interrupt[i] = "waiting" /\ GateIsFree(i)
  /\ interrupt' = Set(interrupt, i, CASE table[i] -> "cleaning"
                                      [] ~table[i] /\ mem[i] = "queued" -> "saving"
                                      [] OTHER -> "none")
  /\ table' = Set(table, i, FALSE)
  /\ InterruptUnchanged /\ NoFault
  /\ UNCHANGED <<mem, reserved, disk, staging>>

InterruptCleans(i) ==
  /\ interrupt[i] = "cleaning" /\ Alive
  /\ \/ /\ RemoveStage(i)
        /\ reserved' = Set(reserved, i, FALSE)
        /\ interrupt' = Set(interrupt, i, IF mem[i] = "queued" THEN "saving" ELSE "none")
        /\ NoFault
     \/ /\ Fault /\ UNCHANGED <<faulted, staging, reserved>>
        /\ interrupt' = Set(interrupt, i, "none")
  /\ InterruptUnchanged /\ UNCHANGED <<mem, table, disk>>

InterruptSaves(i) ==
  /\ interrupt[i] = "saving" /\ Alive
  /\ \/ /\ disk' = Set(disk, i, "failed")
        /\ mem' = Set(mem, i, "failed") /\ NoFault
     \/ Fault /\ UNCHANGED <<faulted, disk, mem>>
  /\ interrupt' = Set(interrupt, i, "none")
  /\ InterruptUnchanged /\ UNCHANGED <<table, reserved, staging>>

\* The end of a process: its memory is gone.
Forget ==
  /\ phase' = "down" /\ restarts' = restarts + 1
  /\ mem' = [i \in Imports |-> "none"] /\ creq' = [i \in Imports |-> FALSE]
  /\ table' = [i \in Imports |-> FALSE] /\ queue' = [i \in Imports |-> "none"]
  /\ asked' = {} /\ reserved' = [i \in Imports |-> FALSE]
  /\ submit' = [i \in Imports |-> IF submit[i] = "new" THEN "new" ELSE "refused"]
  /\ run' = [i \in Imports |-> "none"]
  /\ outcome' = [i \in Imports |-> "none"] /\ user' = [i \in Imports |-> "none"]
  /\ interrupt' = [i \in Imports |-> "none"]
  /\ UNCHANGED <<disk, staging, proc, owner, installed>> /\ NoFault

Closed ==
  /\ phase = "closing" /\ restarts < MaxRestarts
  /\ \A i \in Imports : run[i] = "none" /\ interrupt[i] = "none"
  /\ Forget

\* A child outlives the process that started it.
Crash == Alive /\ restarts < MaxRestarts /\ Forget

\* It can fill its stage but never make one.
OrphanEnds(i) ==
  /\ proc[i] /\ run[i] = "none"
  /\ proc' = Set(proc, i, FALSE)
  /\ NoFault
  /\ UNCHANGED <<memory, disk, staging, owner, restarts, installed>>

\* No import is active when the stages are reconciled: all of them go.
ReconcileStages == staging' = [i \in Imports |-> FALSE]

\* start: lost work fails; a user whose record cannot be saved is corrupt.
Boot ==
  LET lost == {i \in Imports : disk[i] \in {"queued", "running"}} IN
  /\ phase = "down"
  /\ phase' = "serving"
  /\ \E unsaved \in SUBSET lost :
       /\ \/ unsaved = {} /\ UNCHANGED faults
          \/ Cardinality(unsaved) = 1 /\ Fault
       /\ faulted' = unsaved
       /\ disk' = [i \in Imports |-> IF i \in lost \ unsaved THEN "failed" ELSE disk[i]]
       /\ mem' = [i \in Imports |-> IF i \in unsaved THEN "none" ELSE disk'[i]]
  /\ ReconcileStages
  /\ UNCHANGED <<creq, table, queue, asked, reserved, submit, run, outcome,
                 user, interrupt, proc, owner, restarts, installed>>

CloseStep ==
  \/ CancelActive \/ Closed
  \/ \E i \in Imports : \/ ExecutorTerminates(i) \/ InterruptEnters(i)
                        \/ InterruptCleans(i) \/ InterruptSaves(i)

ImportsNext ==
  \/ \E i \in Imports : \/ Acquire(i) \/ SubmitStep(i) \/ Dispatch(i)
                        \/ RunnerStep(i) \/ ReportInvalid(i)
                        \/ CancelQueued(i) \/ CancelRunning(i) \/ UserStep(i)
                        \/ Delete(i) \/ OrphanEnds(i)
  \/ StopDispatch \/ CloseStep \/ Crash \/ Boot

ImportsSpec == ImportsInit /\ [][ImportsNext]_importVars

\* The event loop runs every task that can run, the supervisor starts the
\* server again; no one is obliged to cancel, to delete or to stop it.
Fairness ==
  /\ \A i \in Imports : /\ WF_importVars(SubmitStep(i)) /\ WF_importVars(Dispatch(i))
                        /\ WF_importVars(RunnerStep(i)) /\ WF_importVars(UserStep(i))
  /\ WF_importVars(CloseStep) /\ WF_importVars(Boot)

ImportsFairSpec == ImportsSpec /\ Fairness

-----------------------------------------------------------------------------
ImportsTypeOK ==
  /\ mem \in [Imports -> Records] /\ disk \in [Imports -> Records]
  /\ {creq, table, reserved, staging, proc} \subseteq [Imports -> BOOLEAN]
  /\ queue \in [Imports -> {"none", "pending", "active"}]
  /\ asked \subseteq Imports /\ faulted \subseteq Imports /\ installed \subseteq Imports
  /\ submit \in [Imports -> {"new", "acquired", "staged", "prepared", "persisted", "registered",
                             "undoStage", "undoRecord", "accepted", "refused"}]
  /\ run \in [Imports -> RunSteps]
  /\ outcome \in [Imports -> {"none", "cancelled", "failure"}]
  /\ user \in [Imports -> {"none", "cleaning", "saving", "requesting"}]
  /\ interrupt \in [Imports -> {"none", "waiting", "cleaning", "saving"}]
  /\ phase \in {"serving", "draining", "closing", "down"}
  /\ owner \in [Dests -> Imports \cup {NoImport}]
  /\ faults \in 0..MaxFaults /\ restarts \in 0..MaxRestarts

\* Nothing is at work on an import.
Quiet(i) == /\ Alive /\ i \notin faulted
            /\ submit[i] \in {"accepted", "refused"} /\ run[i] = "none"
            /\ user[i] = "none" /\ interrupt[i] = "none"

\* An import that is over, or that was refused, holds neither its private
\* directory nor its reservation, whoever ended it: the runner, a cancelling
\* request, shutdown, the submission's own way back, or the next start.
\* And nothing writes into a directory that is being, or has been, removed:
\* while a runner writes, stages or publishes, and while a child process works
\* for one, the stage is there and its room is reserved.
StageLastsAsLongAsItsWork ==
  /\ ImportsTypeOK
  /\ \A i \in Imports :
       /\ Quiet(i) /\ mem[i] \in Terminal \cup {"none"} => ~staging[i] /\ ~reserved[i]
       /\ \/ proc[i] /\ run[i] # "none"
          \/ run[i] \in {"launching", "executing", "result", "rechecking", "installing"}
          => staging[i] /\ reserved[i]

\* The history a user reads is the one on disk, also after every race of the
\* runner with a cancellation or a deletion, and says succeeded only of an
\* import whose files were published; shutdown may leave it behind, and the
\* next start brings it up to date.
HistoryIsTruthful ==
  \A i \in Imports :
    /\ phase = "serving" /\ Quiet(i) => mem[i] = disk[i]
    /\ "succeeded" \in {mem[i], disk[i]} => i \in installed

\* A saved record that has ended changes by deletion only; except that
\* shutdown may cancel a runner after it has saved its success and before
\* memory has it: the import is then cancelled or interrupted all the same.
EndedRecordsLast ==
  [][\A i \in Imports : disk[i] \in Terminal =>
       \/ disk'[i] \in {disk[i], "none"}
       \/ disk[i] = "succeeded" /\ mem[i] = "running" /\ phase # "serving"]_importVars

\* Every import that was saved ends, by its runner, a cancellation, shutdown
\* or the next start; unless saving its end has failed.
EveryImportEnds ==
  \A i \in Imports : <>[](disk[i] \in Terminal \cup {"none"} \/ i \in faulted)
=============================================================================
