--------------------------- MODULE FairScheduler ---------------------------
(***************************************************************************)
(* AnalysisScheduler (services/analysis_scheduler.py): one dispatch loop   *)
(* that feeds the waiting items of a FairUserQueue to at most Capacity     *)
(* runner tasks.  Everything runs on one event loop and every public       *)
(* method holds the scheduler's lock, so a method is one step; the         *)
(* dispatch loop is three, because it releases the lock before it waits    *)
(* for the wake event and takes it again to replace the event.             *)
(***************************************************************************)
EXTENDS FairQueue, FiniteSets

CONSTANTS
  Owner,      \* item -> the user that owns it
  Workspaces, \* workspace ids
  Home,       \* item -> the workspace it belongs to
  Capacity    \* runner tasks that may be active at once

ASSUME CapacityIsPositive == Capacity \in Nat \ {0}
ASSUME OwnerIsUser == Owner \in [Items -> Users]
ASSUME HomeIsWorkspace == Home \in [Items -> Workspaces]

VARIABLES
  active,     \* _active
  accepting,  \* _accepting
  stopping,   \* _stopping
  loop,       \* the dispatch loop: not started, at the lock, waiting, ...
  wake,       \* the current _wake event is set
  idle,       \* the current _idle event is set
  waiter,     \* the shutdown task that calls wait_idle
  fate        \* history: what became of each item

schedulerVars == <<queueVars, active, accepting, stopping, loop, wake, idle, waiter, fate>>

Pending == UNION {items[u] : u \in Users}
WorkspaceItems(u, w) == {i \in Items : Owner[i] = u /\ Home[i] = w}

Fate == {"new", "waiting", "running", "removed", "returned", "ended"}
Mark(S, f) == fate' = [i \in Items |-> IF i \in S THEN f ELSE fate[i]]

----------------------------------------------------------------------------

SchedulerInit ==
  /\ QueueInit
  /\ active = {}
  /\ accepting = TRUE
  /\ stopping = FALSE
  /\ loop = "off"
  /\ wake = FALSE
  /\ idle = TRUE
  /\ waiter = "off"
  /\ fate = [i \in Items |-> "new"]

\* start: the runtime binds the scheduler once, before it serves requests.
Start ==
  /\ loop = "off"
  /\ loop' = "check"
  /\ UNCHANGED <<queueVars, active, accepting, stopping, wake, idle, waiter, fate>>

\* Mutant of Enqueue: the dispatch loop is not woken.
EnqueueSilently(i) ==
  /\ fate[i] = "new"
  /\ accepting /\ loop # "off"
  /\ i \notin active \union Pending
  /\ Add(Owner[i], i)
  /\ Mark({i}, "waiting")
  /\ UNCHANGED <<active, accepting, stopping, loop, wake, idle, waiter>>

\* enqueue; it raises when the scheduler is not accepting or was not started
\* and when the key is already scheduled, which leaves everything alone.
Enqueue(i) ==
  /\ fate[i] = "new"
  /\ accepting /\ loop # "off"
  /\ i \notin active \union Pending
  /\ Add(Owner[i], i)
  /\ wake' = TRUE
  /\ Mark({i}, "waiting")
  /\ UNCHANGED <<active, accepting, stopping, loop, idle, waiter>>

\* cancel, for a key that is still queued.  A key that is active is passed on
\* to the process executor, any other is ignored: neither changes this state.
CancelQueued(i) ==
  /\ i \in items[Owner[i]]
  /\ Remove(Owner[i], {i})
  /\ wake' = TRUE
  /\ Mark({i}, "removed")
  /\ UNCHANGED <<active, accepting, stopping, loop, idle, waiter>>

\* cancel_workspace, the queued part.
CancelWorkspace(u, w) ==
  LET queued == items[u] \intersect WorkspaceItems(u, w)
  IN  /\ queued # {}
      /\ Remove(u, queued)
      /\ wake' = TRUE
      /\ Mark(queued, "removed")
      /\ UNCHANGED <<active, accepting, stopping, loop, idle, waiter>>

\* stop_dispatch; a second call returns at once.
StopDispatch ==
  /\ ~stopping
  /\ accepting' = FALSE
  /\ stopping' = TRUE
  /\ Clear
  /\ wake' = TRUE
  /\ Mark(Pending, "returned")
  /\ UNCHANGED <<active, loop, idle, waiter>>

----------------------------------------------------------------------------
\* The dispatch loop (_run)

CanDispatch == order # <<>> /\ Cardinality(active) < Capacity

LoopStops ==
  /\ loop = "check" /\ stopping
  /\ loop' = "done"
  /\ UNCHANGED <<queueVars, active, accepting, stopping, wake, idle, waiter, fate>>

LoopDispatches ==
  /\ loop = "check" /\ ~stopping
  /\ CanDispatch
  /\ Pop
  /\ active' = active \union {NextItem}
  /\ idle' = FALSE
  /\ Mark({NextItem}, "running")
  /\ UNCHANGED <<accepting, stopping, loop, wake, waiter>>

LoopFindsNothing ==
  /\ loop = "check" /\ ~stopping
  /\ ~CanDispatch
  /\ loop' = "wait"
  /\ UNCHANGED <<queueVars, active, accepting, stopping, wake, idle, waiter, fate>>

LoopWakes ==
  /\ loop = "wait" /\ wake
  /\ loop' = "reset"
  /\ UNCHANGED <<queueVars, active, accepting, stopping, wake, idle, waiter, fate>>

\* The loop replaces the event it waited for by a fresh one, then looks again.
LoopResets ==
  /\ loop = "reset"
  /\ wake' = FALSE
  /\ loop' = "check"
  /\ UNCHANGED <<queueVars, active, accepting, stopping, idle, waiter, fate>>

Loop == LoopStops \/ LoopDispatches \/ LoopFindsNothing \/ LoopWakes \/ LoopResets

\* Mutant of RunnerEnds: the dispatch loop is not woken.
RunnerEndsSilently(i) ==
  /\ i \in active
  /\ active' = active \ {i}
  /\ idle' = (idle \/ active' = {})
  /\ Mark({i}, "ended")
  /\ UNCHANGED <<queueVars, accepting, stopping, loop, wake, waiter>>

\* _run_one's finally: the runner has returned, raised or been cancelled.
RunnerEnds(i) ==
  /\ i \in active
  /\ active' = active \ {i}
  /\ idle' = (idle \/ active' = {})
  /\ wake' = TRUE
  /\ Mark({i}, "ended")
  /\ UNCHANGED <<queueVars, accepting, stopping, loop, waiter>>

----------------------------------------------------------------------------
\* wait_idle, called at shutdown after stop_dispatch

WaiterStarts ==
  /\ waiter = "off" /\ stopping
  /\ waiter' = "check"
  /\ UNCHANGED <<queueVars, active, accepting, stopping, loop, wake, idle, fate>>

WaiterLooks ==
  /\ waiter = "check"
  /\ waiter' = IF active = {} THEN "done" ELSE "wait"
  /\ UNCHANGED <<queueVars, active, accepting, stopping, loop, wake, idle, fate>>

WaiterWakes ==
  /\ waiter = "wait" /\ idle
  /\ waiter' = "check"
  /\ UNCHANGED <<queueVars, active, accepting, stopping, loop, wake, idle, fate>>

Waiter == WaiterLooks \/ WaiterWakes

----------------------------------------------------------------------------

SchedulerNext ==
  \/ Start
  \/ \E i \in Items : Enqueue(i) \/ CancelQueued(i) \/ RunnerEnds(i)
  \/ \E u \in Users, w \in Workspaces : CancelWorkspace(u, w)
  \/ StopDispatch
  \/ Loop
  \/ WaiterStarts
  \/ Waiter

SchedulerSpec == SchedulerInit /\ [][SchedulerNext]_schedulerVars

\* The event loop runs every task that is ready; a runner's process is
\* assumed to end sooner or later.
SchedulerFairSpec ==
  /\ SchedulerSpec
  /\ WF_schedulerVars(Loop)
  /\ WF_schedulerVars(Waiter)
  /\ \A i \in Items : WF_schedulerVars(RunnerEnds(i))

----------------------------------------------------------------------------
\* Properties

SchedulerTypeOK ==
  /\ QueueTypeOK
  /\ active \in SUBSET Items
  /\ accepting \in BOOLEAN
  /\ stopping \in BOOLEAN
  /\ loop \in {"off", "check", "wait", "reset", "done"}
  /\ wake \in BOOLEAN
  /\ idle \in BOOLEAN
  /\ waiter \in {"off", "check", "wait", "done"}
  /\ fate \in [Items -> Fate]

\* No wake-up is lost: whenever the loop sleeps on an event nobody has set,
\* there is nothing it could do.  This is the "work-conserving" of the class
\* (analysis_scheduler.py:36): the loop reads the queue, releases the lock,
\* waits, and only later replaces the event (lines 186-202).
SleepsOnlyWithoutWork ==
  loop = "wait" /\ ~wake => ~stopping /\ ~CanDispatch

\* The global capacity holds, and an active item is not also waiting: a key
\* is never run twice at a time or run again (lines 85-89, 190-196).
RunsOnceWithinCapacity ==
  /\ Cardinality(active) <= Capacity
  /\ \A i \in Items :
       /\ i \in active <=> fate[i] = "running"
       /\ i \in Pending <=> fate[i] = "waiting"
       /\ \A u \in Users : i \in items[u] => u = Owner[i]

\* Once wait_idle has returned after stop_dispatch no runner is or becomes
\* active, so shutdown may commit the interruptions (analysis_execution.py
\* 123-132).
DrainedMeansDrained ==
  waiter = "done" => active = {} /\ Pending = {}

\* The idle event tells the truth, or wait_idle would spin or hang.
IdleEventIsTruthful == idle <=> active = {}

\* Whatever is enqueued does not wait for ever: it is dispatched, cancelled
\* or handed back at shutdown.
WaitingWorkMoves == \A i \in Items : fate[i] = "waiting" ~> fate[i] # "waiting"

=============================================================================
