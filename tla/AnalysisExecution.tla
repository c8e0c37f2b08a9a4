------------------------- MODULE AnalysisExecution -------------------------
(***************************************************************************)
(* One Workspace and the Analyses of one of its Tabs, from submission to   *)
(* the terminal record: AnalysisService (services/analyses.py) owns the    *)
(* records, AnalysisScheduler selects them, AnalysisExecutionRuntime       *)
(* (services/analysis_execution.py) drives one runner task per selected    *)
(* Analysis, AnalysisProcessExecutor (services/analysis_executor.py) owns  *)
(* the worker processes, and WorkspaceService's gate (services/            *)
(* workspace.py) serialises every mutation of the records.                 *)
(*                                                                         *)
(* All of it runs on one event loop: tasks interleave where the code       *)
(* awaits.  A section under the Workspace gate that commits before it      *)
(* releases the gate is one step; admission, which reserves a process      *)
(* entry before its commit, and deletion, which cancels work before it     *)
(* removes the directory, hold the gate over two.  Records are always as   *)
(* durable as they are visible: a mutation that cannot be persisted is     *)
(* rolled back and raises (mutation_context).                              *)
(*                                                                         *)
(* Which waiting item is selected is left open here; FairScheduler has it. *)
(***************************************************************************)
EXTENDS Naturals, FiniteSets

CONSTANTS
  Analyses,    \* analysis ids; each is submitted at most once
  NoAnalysis,  \* no analysis: the parent of a root, the holder of a free gate
  Kind,        \* analysis -> "plain", "group", "source" or "supporting"
  Parent,      \* analysis -> the analysis it is submitted under
  Supersedes,  \* analysis -> the analyses its success replaces
  Capacity,    \* runner tasks that may be active at once
  Stimuli,     \* the disturbances of a run, of those AllStimuli names
  MaxFaults,   \* bound: commits that may fail
  MaxRestarts  \* bound: times the backend may stop and start again

AllStimuli == {"clear", "close", "delete", "badProgress", "stop", "crash"}

ASSUME KindOK == Kind \in [Analyses -> {"plain", "group", "source", "supporting"}]
ASSUME ParentOK == Parent \in [Analyses -> Analyses \union {NoAnalysis}]
ASSUME NoAnalysisOK == NoAnalysis \notin Analyses \union {"deletion"}
ASSUME AnalysesOK == "deletion" \notin Analyses
ASSUME RootsOK == \A a \in Analyses : Kind[a] \in {"plain", "group"} <=> Parent[a] = NoAnalysis
ASSUME SourcesOK == \A a \in Analyses : Kind[a] = "source" => Kind[Parent[a]] = "group"
ASSUME SupersedesOK == Supersedes \in [Analyses -> SUBSET Analyses]
ASSUME CapacityOK == Capacity \in Nat \ {0}
ASSUME BoundsOK == MaxFaults \in Nat /\ MaxRestarts \in Nat
ASSUME StimuliOK == Stimuli \subseteq AllStimuli

VARIABLES
  rec,         \* analysis -> its record: state, cancellation request, Tab link
  unscheduled, \* committed by submit, not yet offered to the scheduler
  undo,        \* group roots whose submit was refused and must be cancelled
  pending,     \* the scheduler's queue
  active,      \* the scheduler's active keys
  pc,          \* analysis -> where its runner task is
  entry,       \* analysis -> the executor's launch entry
  proc,        \* analysis -> its worker process
  signals,     \* cancellations committed, not yet passed to the scheduler
  callbacks,   \* _work_removed calls that have not run
  gate,        \* holder of the Workspace gate across steps
  ws,          \* runtime state of the Workspace
  phase,       \* how far shutdown has come
  interrupts,  \* queued items that shutdown has still to fail
  selected,    \* active keys that shutdown has still to fail
  faults,      \* failed commits so far
  restarts     \* restarts so far

recVars == <<rec, unscheduled, undo>>
schedVars == <<pending, active>>
procVars == <<entry, proc>>
shutVars == <<phase, interrupts, selected>>
vars == <<recVars, schedVars, pc, procVars, signals, callbacks, gate, ws,
          shutVars, faults, restarts>>

----------------------------------------------------------------------------
\* Records

Terminal == {"succeeded", "failed", "cancelled"}
Working == {"queued", "running"}
Gone == {"absent", "removed"}

\* live: some Tab lists the analysis.
Record ==
  {r \in [state: Working \union Terminal \union Gone, creq: BOOLEAN, live: BOOLEAN] :
     r.live => r.state \notin Gone}

\* The analyses above a: what every set closed under Parent contains that
\* contains a's parent.
ClosedUpwards(S) == \A b \in S : Parent[b] \in S \union {NoAnalysis}

Lineage[a \in Analyses] ==
  IF Parent[a] = NoAnalysis THEN {}
  ELSE {b \in Analyses :
          \A S \in SUBSET Analyses : Parent[a] \in S /\ ClosedUpwards(S) => b \in S}

RootOf(a) == CHOOSE r \in {a} \union Lineage[a] : Parent[r] = NoAnalysis

\* The operators below take the map of records R they read, so that one
\* mutation can apply several of them in the order the code does.

Tree(R, a) == {b \in Analyses : R[b].state \notin Gone /\ (b = a \/ a \in Lineage[b])}

ChildrenOf(R, g) == {c \in Analyses : Parent[c] = g /\ R[c].state \notin Gone}

Put(R, S, f(_)) == [b \in Analyses |-> IF b \in S THEN f(R[b]) ELSE R[b]]

Failed(r) == [r EXCEPT !.state = "failed"]

Requested(r) == [r EXCEPT !.creq = TRUE]
CancelledNow(r) == [r EXCEPT !.state = "cancelled", !.creq = TRUE]

Erased(r) == [r EXCEPT !.state = "removed", !.live = FALSE]

\* remove_analysis: a record goes with all its descendants.
RemoveTree(R, a) == Put(R, Tree(R, a), Erased)

\* _apply_success_supersession: what a superseded record is replaced with, its
\* descendants included, whatever they are doing.
Supersede(R, a) ==
  Put(R, UNION {Tree(R, b) : b \in Supersedes[a]}, Erased)

\* Mutant of GroupEnds: the first child that ends is taken for the last.
GroupEndsEarly(R, g) ==
  /\ g # NoAnalysis
  /\ Kind[g] = "group"
  /\ R[g].state = "running"
  /\ \E c \in ChildrenOf(R, g) : R[c].state \in Terminal

\* _finalize_concordance_group, for a record whose parent is a running group:
\* the group ends once all of its children have.
GroupEnds(R, g) ==
  /\ g # NoAnalysis
  /\ Kind[g] = "group"
  /\ R[g].state = "running"
  /\ ChildrenOf(R, g) # {}
  /\ \A c \in ChildrenOf(R, g) : R[c].state \in Terminal

SomeChild(R, g, s) == \E c \in ChildrenOf(R, g) : R[c].state = s

GroupSucceeds(R, g) ==
  /\ GroupEnds(R, g)
  /\ ~R[g].creq /\ ~SomeChild(R, g, "cancelled") /\ ~SomeChild(R, g, "failed")

\* The result of a group is made of its children's: one that is no source has
\* none of the right shape, and the finalisation raises.
GroupRaises(R, g) ==
  GroupSucceeds(R, g) /\ \E c \in ChildrenOf(R, g) : Kind[c] # "source"

EndGroup(R, g) ==
  IF GroupSucceeds(R, g) THEN Supersede([R EXCEPT ![g].state = "succeeded"], g)
  ELSE IF R[g].creq \/ SomeChild(R, g, "cancelled")
    THEN [R EXCEPT ![g] = CancelledNow(@)]
  ELSE [R EXCEPT ![g] = Failed(@)]

\* Mutant of FinalizeGroup: the group is never ended.
FinalizeNothing(R, a) ==
  R

FinalizeGroup(R, a) ==
  IF GroupEnds(R, Parent[a]) THEN EndGroup(R, Parent[a]) ELSE R

\* _remove_terminal_detached_tree of the tree that a belongs to.
DropDetached(R, a) ==
  LET r == RootOf(a)
  IN  IF ~R[r].live /\ \A b \in Tree(R, r) : R[b].state \in Terminal
        THEN RemoveTree(R, r)
        ELSE R

\* What every commit of a terminal state does after replacing the record.
Settle(R, a) == DropDetached(FinalizeGroup(R, a), a)

----------------------------------------------------------------------------
\* The Workspace gate

GateFree == gate = NoAnalysis

\* mutation_context(internal=True) and mutation_context(): phase "down" is
\* the time after the Workspace service has closed.
Internal == GateFree /\ ws \in {"open", "closing"} /\ phase # "down"
External == GateFree /\ ws = "open" /\ phase # "down"

\* The gate is free and the context raises: not found or not open.
NotOpen == GateFree /\ ws \notin {"open", "closing"}

HasWork == pending \union active # {}

\* AnalysisProcessExecutor.cancel for the keys S: the entry remembers the
\* request and a process that is still alive is terminated.
CancelEntries(S) ==
  /\ entry' = [a \in Analyses |->
                 IF a \in S /\ entry[a] # "none" THEN "flagged" ELSE entry[a]]
  /\ proc' = [a \in Analyses |->
                IF a \in S /\ proc[a] = "alive" /\ entry[a] # "none"
                  THEN "dead" ELSE proc[a]]

Init ==
  /\ rec = [a \in Analyses |-> [state |-> "absent", creq |-> FALSE, live |-> FALSE]]
  /\ unscheduled = {} /\ undo = {}
  /\ pending = {} /\ active = {}
  /\ pc = [a \in Analyses |-> "none"]
  /\ entry = [a \in Analyses |-> "none"]
  /\ proc = [a \in Analyses |-> "none"]
  /\ signals = {} /\ callbacks = {}
  /\ gate = NoAnalysis
  /\ ws = "open"
  /\ phase = "serving"
  /\ interrupts = {} /\ selected = {}
  /\ faults = 0 /\ restarts = 0

----------------------------------------------------------------------------
\* Submission (submit, _schedule_created)

Members(r) == IF Kind[r] = "group" THEN {c \in Analyses : Parent[c] = r} ELSE {r}

\* A record that was detached from its Tab still counts.
TabIsBusy ==
  \E a \in Analyses : Kind[a] \in {"plain", "group"} /\ rec[a].state \in Working

MaySubmit(r) ==
  /\ \/ Kind[r] \in {"plain", "group"} /\ ~TabIsBusy
     \/ Kind[r] = "supporting" /\ rec[Parent[r]].live
  /\ \A b \in Supersedes[r] :
       rec[b].live /\ rec[b].state \in Terminal /\ b \notin Lineage[r]

\* A group root is created running and is never scheduled itself.
Submit(r) ==
  /\ phase = "serving" /\ External
  /\ rec[r].state = "absent"
  /\ MaySubmit(r)
  /\ rec' = [a \in Analyses |->
               IF a = r /\ Kind[r] = "group"
                 THEN [state |-> "running", creq |-> FALSE, live |-> TRUE]
               ELSE IF a = r \/ (a \in Members(r) /\ Kind[a] = "source")
                 THEN [state |-> "queued", creq |-> FALSE, live |-> TRUE]
               ELSE rec[a]]
  /\ unscheduled' = unscheduled \union {a \in Members(r) : a = r \/ Kind[a] = "source"}
  /\ UNCHANGED <<undo, schedVars, pc, procVars, signals, callbacks, gate, ws,
                 shutVars, faults, restarts>>

SchedulerAccepts == phase \in {"serving", "refusing"}

Enqueue(a) ==
  /\ a \in unscheduled
  /\ SchedulerAccepts
  /\ unscheduled' = unscheduled \ {a}
  /\ pending' = pending \union {a}
  /\ UNCHANGED <<rec, undo, active, pc, procVars, signals, callbacks, gate, ws,
                 shutVars, faults, restarts>>

\* _remove_unscheduled_analysis after the scheduler refused; submit then stops
\* offering the group's other sources and cancels the group.
EnqueueRefused(a) ==
  /\ a \in unscheduled
  /\ ~SchedulerAccepts /\ GateFree
  /\ rec' = IF Internal /\ rec[a].state = "queued" THEN RemoveTree(rec, a) ELSE rec
  /\ IF Kind[a] = "source"
       THEN /\ unscheduled' = {b \in unscheduled : ~(Kind[b] = "source" /\ Parent[b] = Parent[a])}
            /\ undo' = undo \union {Parent[a]}
       ELSE /\ unscheduled' = unscheduled \ {a}
            /\ UNCHANGED undo
  /\ UNCHANGED <<schedVars, pc, procVars, signals, callbacks, gate, ws,
                 shutVars, faults, restarts>>

----------------------------------------------------------------------------
\* Cancellation

\* The records that cancelling a rewrites, and what it commits.
CancelMembers(a) ==
  {b \in Tree(rec, a) : \/ rec[b].state = "queued"
                        \/ rec[b].state = "running" /\ ~rec[b].creq}

CancelledRec(a) ==
  LET R == [b \in Analyses |->
              IF b \notin CancelMembers(a) THEN rec[b]
              ELSE IF rec[b].state = "queued" THEN CancelledNow(rec[b])
              ELSE Requested(rec[b])]
      ended == {g \in Analyses : /\ GroupEnds(R, g)
                                 /\ \E b \in CancelMembers(a) : Parent[b] = g}
  IN  IF ended = {} THEN R ELSE EndGroup(R, CHOOSE g \in ended : TRUE)

\* A group root has no runner, so only the others are signalled.
CancelCommits(a) ==
  /\ rec' = CancelledRec(a)
  /\ signals' = signals \union
       {b \in CancelMembers(a) : ~(b = a /\ Kind[a] = "group")}

Cancel(a) ==
  /\ Internal
  /\ rec[a].live /\ rec[a].state \in Working
  /\ CancelCommits(a)
  /\ UNCHANGED <<unscheduled, undo, schedVars, pc, procVars, callbacks, gate, ws,
                 shutVars, faults, restarts>>

\* The compensating cancel of a group whose submission was refused.
UndoGroup(g) ==
  /\ g \in undo
  /\ GateFree
  /\ undo' = undo \ {g}
  /\ IF Internal /\ rec[g].live /\ rec[g].state \in Working
       THEN CancelCommits(g)
       ELSE UNCHANGED <<rec, signals>>
  /\ UNCHANGED <<unscheduled, schedVars, pc, procVars, callbacks, gate, ws,
                 shutVars, faults, restarts>>

\* clear_tab and delete_tab: every tree of the Tab is detached; one that has
\* nothing running is removed at once (_detach_analysis_tree).
HasRunning(a) == \E b \in Tree(rec, a) : rec[b].state = "running"

Detached(r) ==
  [r EXCEPT !.live = FALSE,
            !.state = IF r.state = "queued" THEN "cancelled" ELSE @,
            !.creq = @ \/ r.state \in Working]

ClearTab ==
  /\ "clear" \in Stimuli
  /\ External
  /\ \E a \in Analyses : rec[a].live
  /\ rec' = [a \in Analyses |->
               IF ~rec[a].live THEN rec[a]
               ELSE IF HasRunning(RootOf(a)) THEN Detached(rec[a])
               ELSE Erased(rec[a])]
  /\ signals' = signals \union {a \in Analyses : rec[a].live /\ rec[a].state \in Working}
  /\ UNCHANGED <<unscheduled, undo, schedVars, pc, procVars, callbacks, gate, ws,
                 shutVars, faults, restarts>>

\* AnalysisScheduler.cancel, called after the commit with the gate released.
DeliverCancel(a) ==
  /\ a \in signals
  /\ signals' = signals \ {a}
  /\ IF a \in pending
       THEN /\ pending' = pending \ {a}
            /\ callbacks' = callbacks \union {a}
            /\ UNCHANGED procVars
       ELSE /\ CancelEntries({a} \intersect active)
            /\ UNCHANGED <<pending, callbacks>>
  /\ UNCHANGED <<recVars, active, pc, gate, ws, shutVars, faults, restarts>>

----------------------------------------------------------------------------
\* The runner task (_run_one, _run, _run_admitted)

Go(a, place) == pc' = [pc EXCEPT ![a] = place]

Dispatch(a) ==
  /\ SchedulerAccepts
  /\ a \in pending
  /\ Cardinality(active) < Capacity
  /\ pending' = pending \ {a}
  /\ active' = active \union {a}
  /\ Go(a, "start")
  /\ UNCHANGED <<recVars, procVars, signals, callbacks, gate, ws, shutVars,
                 faults, restarts>>

\* admit_storage is refused, or the Workspace is gone or not open.
NotAdmitted(a) ==
  /\ pc[a] = "start"
  /\ Go(a, "fallback")
  /\ UNCHANGED <<recVars, schedVars, procVars, signals, callbacks, gate, ws,
                 shutVars, faults, restarts>>

ExecutorIsClosed == phase \in {"closed", "interrupting"}

\* admit_execution: the record is no longer queued.
AdmitSkips(a) ==
  /\ pc[a] = "start" /\ Internal
  /\ rec[a].state # "queued"
  /\ Go(a, "release")
  /\ UNCHANGED <<recVars, schedVars, procVars, signals, callbacks, gate, ws,
                 shutVars, faults, restarts>>

\* admit_execution: preparation or the launch reservation fails.
AdmitFails(a) ==
  /\ pc[a] = "start" /\ Internal
  /\ rec[a].state = "queued"
  /\ rec' = Settle([rec EXCEPT ![a] = Failed(@)], a)
  /\ Go(a, "release")
  /\ UNCHANGED <<unscheduled, undo, schedVars, procVars, signals, callbacks,
                 gate, ws, shutVars, faults, restarts>>

\* admit_execution: the launch entry is reserved; the commit is to come.
AdmitReserves(a) ==
  /\ pc[a] = "start" /\ Internal
  /\ rec[a].state = "queued"
  /\ ~ExecutorIsClosed
  /\ entry' = [entry EXCEPT ![a] = "reserved"]
  /\ gate' = a
  /\ Go(a, "commit")
  /\ UNCHANGED <<recVars, schedVars, proc, signals, callbacks, ws, shutVars,
                 faults, restarts>>

AdmitCommits(a) ==
  /\ pc[a] = "commit"
  /\ rec' = [rec EXCEPT ![a].state = "running"]
  /\ gate' = NoAnalysis
  /\ Go(a, "launch")
  /\ UNCHANGED <<unscheduled, undo, schedVars, procVars, signals, callbacks, ws,
                 shutVars, faults, restarts>>

\* The commit fails: the reservation is discarded and _run fails the record.
AdmitRollsBack(a) ==
  /\ pc[a] = "commit" /\ faults < MaxFaults
  /\ faults' = faults + 1
  /\ entry' = [entry EXCEPT ![a] = "none"]
  /\ gate' = NoAnalysis
  /\ Go(a, "fallback")
  /\ UNCHANGED <<recVars, schedVars, proc, signals, callbacks, ws, shutVars,
                 restarts>>

\* execute_reserved up to the process start, under the executor's lock.
LaunchSuppressed(a) ==
  /\ pc[a] = "launch" /\ entry[a] = "flagged"
  /\ entry' = [entry EXCEPT ![a] = "none"]
  /\ Go(a, "confirm")
  /\ UNCHANGED <<recVars, schedVars, proc, signals, callbacks, gate, ws, shutVars,
                 faults, restarts>>

LaunchFails(a) ==
  /\ pc[a] = "launch" /\ entry[a] = "reserved"
  /\ entry' = [entry EXCEPT ![a] = "none"]
  /\ Go(a, "fail")
  /\ UNCHANGED <<recVars, schedVars, proc, signals, callbacks, gate, ws, shutVars,
                 faults, restarts>>

Launch(a) ==
  /\ pc[a] = "launch" /\ entry[a] = "reserved"
  /\ proc' = [proc EXCEPT ![a] = "alive"]
  /\ Go(a, "monitor")
  /\ UNCHANGED <<recVars, schedVars, entry, signals, callbacks, gate, ws, shutVars,
                 faults, restarts>>

\* The worker returns a result, reports a failure or breaks its storage
\* budget, or dies without an answer.
WorkerEnds(a, outcome) ==
  /\ proc[a] = "alive"
  /\ proc' = [proc EXCEPT ![a] = outcome]
  /\ UNCHANGED <<recVars, schedVars, pc, entry, signals, callbacks, gate, ws,
                 shutVars, faults, restarts>>

\* _receive_result returns or raises; the entry is popped in every case.
Receive(a) ==
  /\ pc[a] = "monitor" /\ proc[a] # "alive"
  /\ Go(a, CASE proc[a] = "ok" -> "complete"
             [] proc[a] = "dead" /\ entry[a] = "flagged" -> "confirm"
             [] OTHER -> "fail")
  /\ entry' = [entry EXCEPT ![a] = "none"]
  /\ UNCHANGED <<recVars, schedVars, proc, signals, callbacks, gate, ws, shutVars,
                 faults, restarts>>

\* Mutant of BadProgress: the process is left to run.
BadProgressUnsignalled(a) ==
  /\ "badProgress" \in Stimuli
  /\ pc[a] = "monitor" /\ Internal
  /\ rec[a].live /\ rec[a].state = "running"
  /\ rec' = [rec EXCEPT ![a] = Failed(@)]
  /\ UNCHANGED <<unscheduled, undo, schedVars, pc, procVars, signals, callbacks,
                 gate, ws, shutVars, faults, restarts>>

\* report_progress with an invalid report: only the record itself is failed.
BadProgress(a) ==
  /\ "badProgress" \in Stimuli
  /\ pc[a] = "monitor" /\ Internal
  /\ rec[a].live /\ rec[a].state = "running"
  /\ rec' = [rec EXCEPT ![a] = Failed(@)]
  /\ signals' = signals \union {a}
  /\ UNCHANGED <<unscheduled, undo, schedVars, pc, procVars, callbacks, gate, ws,
                 shutVars, faults, restarts>>

\* report_progress raises, because the Workspace is gone: the process is
\* terminated and its entry popped.
ProgressRaises(a) ==
  /\ pc[a] = "monitor" /\ NotOpen
  /\ proc' = [proc EXCEPT ![a] = IF @ = "alive" THEN "dead" ELSE @]
  /\ entry' = [entry EXCEPT ![a] = "none"]
  /\ Go(a, "fail")
  /\ UNCHANGED <<recVars, schedVars, signals, callbacks, gate, ws, shutVars,
                 faults, restarts>>

\* complete_execution: the result is published unless the tree was detached
\* and cancelled; missing inputs or an invalid result fail the record.  Only a
\* source finalises its group here.
Succeeded(a) == Supersede([rec EXCEPT ![a].state = "succeeded"], a)

CompletionRaises(a) ==
  /\ pc[a] = "complete" /\ rec[a].state = "running"
  /\ Kind[a] = "source" /\ GroupRaises(Succeeded(a), Parent[a])

CompletedRecords(a) ==
  LET detached == ~rec[RootOf(a)].live
      settle(R) == DropDetached(IF Kind[a] = "source" THEN FinalizeGroup(R, a) ELSE R, a)
  IN  IF detached /\ rec[a].creq
        THEN {settle([rec EXCEPT ![a] = CancelledNow(@)])}
        ELSE {settle([rec EXCEPT ![a] = Failed(@)])}
             \union (IF CompletionRaises(a) THEN {} ELSE {settle(Succeeded(a))})

Complete(a) ==
  /\ pc[a] = "complete" /\ Internal
  /\ IF rec[a].state = "running"
       THEN rec' \in CompletedRecords(a)
       ELSE UNCHANGED rec
  /\ Go(a, "release")
  /\ UNCHANGED <<unscheduled, undo, schedVars, procVars, signals, callbacks, gate,
                 ws, shutVars, faults, restarts>>

\* confirm_cancellation
Confirm(a) ==
  /\ pc[a] = "confirm" /\ Internal
  /\ rec' = IF rec[a].state = "running" /\ rec[a].creq
              THEN Settle([rec EXCEPT ![a] = CancelledNow(@)], a)
              ELSE rec
  /\ Go(a, "release")
  /\ UNCHANGED <<unscheduled, undo, schedVars, procVars, signals, callbacks, gate,
                 ws, shutVars, faults, restarts>>

\* fail_execution, from _run_admitted or as the last resort of _run.
FailExecution(a) ==
  /\ pc[a] \in {"fail", "fallback"} /\ Internal
  /\ rec' = IF rec[a].state \in Working
              THEN Settle([rec EXCEPT ![a] = Failed(@)], a)
              ELSE rec
  /\ Go(a, "release")
  /\ UNCHANGED <<unscheduled, undo, schedVars, procVars, signals, callbacks, gate,
                 ws, shutVars, faults, restarts>>

\* One of these three raises: the Workspace is gone or not open, or its
\* commit fails.  _run tries fail_execution once; if that raises too,
\* _run_one logs it and gives up.
Raises(a) ==
  /\ pc[a] \in {"complete", "confirm", "fail", "fallback"}
  /\ \/ NotOpen /\ UNCHANGED faults
     \/ Internal /\ CompletionRaises(a) /\ UNCHANGED faults
     \/ /\ Internal /\ rec[a].state \in Working
        /\ faults < MaxFaults
        /\ faults' = faults + 1
  /\ Go(a, IF pc[a] = "fallback" THEN "release" ELSE "fallback")
  /\ UNCHANGED <<recVars, schedVars, procVars, signals, callbacks, gate, ws,
                 shutVars, restarts>>

\* Mutant of Release: nobody looks whether the Workspace is waiting to close.
ReleaseSilently(a) ==
  /\ pc[a] = "release"
  /\ active' = active \ {a}
  /\ Go(a, "none")
  /\ UNCHANGED <<recVars, pending, procVars, signals, callbacks, gate, ws, shutVars,
                 faults, restarts>>

Release(a) ==
  /\ pc[a] = "release"
  /\ active' = active \ {a}
  /\ callbacks' = callbacks \union {a}
  /\ Go(a, "none")
  /\ UNCHANGED <<recVars, pending, procVars, signals, gate, ws, shutVars, faults,
                 restarts>>

----------------------------------------------------------------------------
\* Closing, opening and deleting the Workspace

\* finalize_close_if_idle, from _work_removed; it ends a deferred close.
FinalizeClose(a) ==
  /\ a \in callbacks /\ GateFree
  /\ callbacks' = callbacks \ {a}
  /\ ws' = IF ws = "closing" /\ ~HasWork THEN "closed" ELSE ws
  /\ UNCHANGED <<recVars, schedVars, pc, procVars, signals, gate, shutVars,
                 faults, restarts>>

RequestClose ==
  /\ "close" \in Stimuli
  /\ GateFree /\ phase # "down" /\ ws = "open"
  /\ ws' = IF HasWork THEN "closing" ELSE "closed"
  /\ UNCHANGED <<recVars, schedVars, pc, procVars, signals, callbacks, gate,
                 shutVars, faults, restarts>>

Reopen ==
  /\ GateFree /\ phase # "down" /\ ws \in {"closing", "closed"}
  /\ ws' = "open"
  /\ UNCHANGED <<recVars, schedVars, pc, procVars, signals, callbacks, gate,
                 shutVars, faults, restarts>>

\* Mutant of DeleteBegin: only queued work is stopped.
DeleteBeginQueued ==
  /\ "delete" \in Stimuli
  /\ GateFree /\ phase # "down" /\ ws # "deleted"
  /\ gate' = "deletion"
  /\ pending' = {}
  /\ UNCHANGED <<recVars, active, pc, procVars, signals, callbacks, ws, shutVars,
                 faults, restarts>>

\* deletion_context around cancel_workspace: the queued work is dropped
\* without a callback and the active work is signalled, then the directory
\* goes, or its removal fails and the Workspace stays.
DeleteBegin ==
  /\ "delete" \in Stimuli
  /\ GateFree /\ phase # "down" /\ ws # "deleted"
  /\ gate' = "deletion"
  /\ pending' = {}
  /\ CancelEntries(active)
  /\ UNCHANGED <<recVars, active, pc, signals, callbacks, ws, shutVars, faults,
                 restarts>>

DeleteEnd ==
  /\ gate = "deletion"
  /\ gate' = NoAnalysis
  /\ ws' = "deleted"
  /\ rec' = Put(rec, {a \in Analyses : rec[a].state \notin Gone}, Erased)
  /\ UNCHANGED <<unscheduled, undo, schedVars, pc, procVars, signals, callbacks,
                 shutVars, faults, restarts>>

DeleteFails ==
  /\ gate = "deletion" /\ faults < MaxFaults
  /\ faults' = faults + 1
  /\ gate' = NoAnalysis
  /\ UNCHANGED <<recVars, schedVars, pc, procVars, signals, callbacks, ws,
                 shutVars, restarts>>

----------------------------------------------------------------------------
\* Shutdown (AnalysisExecutionRuntime.close) and restart

MayStop == restarts < MaxRestarts

StopAccepting ==
  /\ "stop" \in Stimuli /\ MayStop
  /\ phase = "serving"
  /\ phase' = "refusing"
  /\ UNCHANGED <<recVars, schedVars, pc, procVars, signals, callbacks, gate, ws,
                 interrupts, selected, faults, restarts>>

\* Mutant of StopDispatch: the queued items are not handed over.
StopDispatchForgets ==
  /\ phase = "refusing"
  /\ phase' = "stopping"
  /\ pending' = {}
  /\ UNCHANGED <<recVars, active, pc, procVars, signals, callbacks, gate, ws,
                 interrupts, selected, faults, restarts>>

StopDispatch ==
  /\ phase = "refusing"
  /\ phase' = "stopping"
  /\ interrupts' = pending
  /\ pending' = {}
  /\ UNCHANGED <<recVars, active, pc, procVars, signals, callbacks, gate, ws,
                 selected, faults, restarts>>

\* Mutant of ReadActive: the active keys are read when there are none left.
ReadActiveLate ==
  /\ phase = "stopping"
  /\ phase' = "draining"
  /\ selected' = {}
  /\ UNCHANGED <<recVars, schedVars, pc, procVars, signals, callbacks, gate, ws,
                 interrupts, faults, restarts>>

ReadActive ==
  /\ phase = "stopping"
  /\ phase' = "draining"
  /\ selected' = active
  /\ UNCHANGED <<recVars, schedVars, pc, procVars, signals, callbacks, gate, ws,
                 interrupts, faults, restarts>>

CloseExecutor ==
  /\ phase = "draining"
  /\ phase' = "closed"
  /\ CancelEntries(Analyses)
  /\ UNCHANGED <<recVars, schedVars, pc, signals, callbacks, gate, ws,
                 interrupts, selected, faults, restarts>>

\* What a commit of shutdown does to the record: it applies, finds nothing to
\* do, or raises, which is logged and forgotten.
Interrupt(a, applies, settled) ==
  /\ GateFree
  /\ \/ /\ rec' = IF Internal /\ applies THEN settled ELSE rec
        /\ UNCHANGED faults
     \/ /\ Internal /\ applies /\ faults < MaxFaults
        /\ faults' = faults + 1
        /\ UNCHANGED rec

\* interrupt_queued_execution, concurrent with the closing of the executor.
InterruptQueued(a) ==
  /\ phase \in {"draining", "closed"} /\ a \in interrupts
  /\ interrupts' = interrupts \ {a}
  /\ Interrupt(a, rec[a].state = "queued", Settle([rec EXCEPT ![a] = Failed(@)], a))
  /\ UNCHANGED <<unscheduled, undo, schedVars, pc, procVars, signals, callbacks,
                 gate, ws, phase, selected, restarts>>

\* wait_idle returns.
WaitIdle ==
  /\ phase = "closed" /\ interrupts = {} /\ active = {}
  /\ phase' = "interrupting"
  /\ UNCHANGED <<recVars, schedVars, pc, procVars, signals, callbacks, gate, ws,
                 interrupts, selected, faults, restarts>>

\* interrupt_execution
InterruptSelected(a) ==
  /\ phase = "interrupting" /\ a \in selected
  /\ selected' = selected \ {a}
  /\ Interrupt(a, rec[a].state \in Working,
       Settle([rec EXCEPT ![a] = IF @.state = "running" /\ @.creq
                                   THEN CancelledNow(@) ELSE Failed(@)], a))
  /\ UNCHANGED <<unscheduled, undo, schedVars, pc, procVars, signals, callbacks,
                 gate, ws, phase, interrupts, restarts>>

\* The process ends: what is not durable is gone.
Vanish ==
  /\ phase' = "down"
  /\ unscheduled' = {} /\ undo' = {}
  /\ pending' = {} /\ active' = {}
  /\ pc' = [a \in Analyses |-> "none"]
  /\ entry' = [a \in Analyses |-> "none"]
  /\ proc' = [a \in Analyses |-> "none"]
  /\ signals' = {} /\ callbacks' = {}
  /\ interrupts' = {} /\ selected' = {}
  /\ gate' = NoAnalysis
  /\ ws' = IF ws = "deleted" THEN ws ELSE "closed"
  /\ UNCHANGED <<rec, faults, restarts>>

\* WorkspaceService.close takes the gate, then the process exits.
Down ==
  /\ phase = "interrupting" /\ selected = {} /\ GateFree
  /\ Vanish

\* A crash, or a shutdown that reaches its deadline.
Crash ==
  /\ "crash" \in Stimuli /\ MayStop
  /\ phase # "down"
  /\ Vanish

\* reconcile_interrupted_analyses, before the backend serves again.
Interrupted ==
  LET R == Put(rec, {a \in Analyses : rec[a].state \in Working}, Failed)
  IN  Put(R, {a \in Analyses : R[a].state \notin Gone /\ ~R[RootOf(a)].live}, Erased)

Restart ==
  /\ phase = "down" /\ MayStop
  /\ phase' = "serving"
  /\ restarts' = restarts + 1
  /\ \/ rec' = Interrupted /\ UNCHANGED faults
     \/ /\ faults < MaxFaults
        /\ faults' = faults + 1
        /\ UNCHANGED rec
  /\ UNCHANGED <<unscheduled, undo, schedVars, pc, procVars, signals, callbacks,
                 gate, ws, interrupts, selected>>

----------------------------------------------------------------------------

Outcomes == {"ok", "error", "dead"}

Submission ==
  \E a \in Analyses : Submit(a) \/ Enqueue(a) \/ EnqueueRefused(a) \/ UndoGroup(a)

Cancellation == \E a \in Analyses : Cancel(a) \/ DeliverCancel(a)

Admission(a) ==
  \/ NotAdmitted(a) \/ AdmitSkips(a) \/ AdmitFails(a)
  \/ AdmitReserves(a) \/ AdmitCommits(a) \/ AdmitRollsBack(a)

Execution(a) ==
  \/ LaunchSuppressed(a) \/ LaunchFails(a) \/ Launch(a)
  \/ Receive(a) \/ BadProgress(a) \/ ProgressRaises(a)

Conclusion(a) ==
  \/ Complete(a) \/ Confirm(a) \/ FailExecution(a) \/ Raises(a) \/ Release(a)

Runner ==
  \E a \in Analyses :
    \/ Dispatch(a) \/ Admission(a) \/ Execution(a) \/ Conclusion(a)
    \/ \E outcome \in Outcomes : WorkerEnds(a, outcome)

WorkspaceLifecycle ==
  \/ \E a \in Analyses : FinalizeClose(a)
  \/ RequestClose \/ Reopen \/ DeleteBegin \/ DeleteEnd \/ DeleteFails

Shutdown ==
  \/ StopAccepting \/ StopDispatch \/ ReadActive \/ CloseExecutor
  \/ \E a \in Analyses : InterruptQueued(a) \/ InterruptSelected(a)
  \/ WaitIdle \/ Down \/ Crash \/ Restart

Next == Submission \/ Cancellation \/ ClearTab \/ Runner \/ WorkspaceLifecycle \/ Shutdown

Spec == Init /\ [][Next]_vars

\* The event loop runs every task that is ready, the gate is handed on in the
\* order it was asked for, and a worker process ends sooner or later.
FairSpec ==
  /\ Spec
  /\ \A a \in Analyses :
       /\ WF_vars(Enqueue(a)) /\ WF_vars(EnqueueRefused(a)) /\ WF_vars(UndoGroup(a))
       /\ WF_vars(DeliverCancel(a))
       /\ WF_vars(Dispatch(a))
       /\ WF_vars(Admission(a))
       /\ WF_vars(LaunchSuppressed(a) \/ LaunchFails(a) \/ Launch(a))
       /\ WF_vars(\E outcome \in Outcomes : WorkerEnds(a, outcome))
       /\ WF_vars(Receive(a))
       /\ WF_vars(Conclusion(a))
       /\ WF_vars(FinalizeClose(a))
       /\ WF_vars(InterruptQueued(a)) /\ WF_vars(InterruptSelected(a))
  /\ WF_vars(DeleteEnd \/ DeleteFails)
  /\ WF_vars(StopDispatch) /\ WF_vars(ReadActive) /\ WF_vars(CloseExecutor)
  /\ WF_vars(WaitIdle) /\ WF_vars(Down) /\ WF_vars(Restart)

----------------------------------------------------------------------------
\* Properties

TypeOK ==
  /\ rec \in [Analyses -> Record]
  /\ unscheduled \in SUBSET Analyses
  /\ undo \in SUBSET Analyses
  /\ pending \in SUBSET Analyses
  /\ active \in SUBSET Analyses
  /\ pc \in [Analyses -> {"none", "start", "commit", "launch", "monitor", "complete",
                          "confirm", "fail", "fallback", "release"}]
  /\ entry \in [Analyses -> {"none", "reserved", "flagged"}]
  /\ proc \in [Analyses -> {"none", "alive"} \union Outcomes]
  /\ signals \in SUBSET Analyses
  /\ callbacks \in SUBSET Analyses
  /\ gate \in Analyses \union {NoAnalysis, "deletion"}
  /\ ws \in {"open", "closing", "closed", "deleted"}
  /\ phase \in {"serving", "refusing", "stopping", "draining", "closed",
                "interrupting", "down"}
  /\ interrupts \in SUBSET Analyses
  /\ selected \in SUBSET Analyses
  /\ faults \in 0..MaxFaults
  /\ restarts \in 0..MaxRestarts

\* How the parts agree with one another; together inductive.

\* A runner task holds a capacity slot, only a monitored process is alive, and
\* admission holds the gate until it has committed.
RunnersAgree ==
  \A a \in Analyses :
    /\ pc[a] # "none" => a \in active
    /\ proc[a] = "alive" => pc[a] = "monitor" /\ entry[a] # "none"
    /\ pc[a] = "commit" => gate = a

\* A process that is alive, or may still be started.
MayLive(a) ==
  pc[a] = "commit" \/ (pc[a] = "launch" /\ entry[a] = "reserved") \/ proc[a] = "alive"

\* There is none without a loaded Workspace, nor while it is being deleted.
WorkspaceHolds ==
  \A a \in Analyses : MayLive(a) => ws \in {"open", "closing"} /\ gate # "deletion"

\* A record is queued until its admission commits, and cannot end as cancelled
\* while its process is monitored.
RecordsAgree ==
  \A a \in Analyses :
    /\ pc[a] = "commit" => rec[a].state = "queued"
    /\ pc[a] \in {"launch", "monitor"} => rec[a].state \notin {"absent", "queued", "cancelled"}

\* A group root is never scheduled, and its sources come with it.
GroupsAreRoots ==
  \A a \in Analyses :
    /\ Kind[a] = "group" => a \notin unscheduled \union pending \union active
    /\ Kind[a] = "source" /\ rec[Parent[a]].state = "absent" => rec[a].state = "absent"

\* Every Analysis is handed on once, from the request that committed it to
\* the queue and on to a runner.
ScheduledOnce ==
  /\ unscheduled \intersect (pending \union active) = {}
  /\ pending \intersect active = {}
  /\ \A a \in Analyses :
       rec[a].state = "absent" => a \notin unscheduled \union pending \union active

\* Once shutdown has seen no runner there is none until the restart.
StoppedIsQuiet == phase \in {"interrupting", "down"} => active = {}

IInv ==
  /\ TypeOK
  /\ RunnersAgree
  /\ WorkspaceHolds
  /\ RecordsAgree
  /\ GroupsAreRoots
  /\ ScheduledOnce
  /\ StoppedIsQuiet

\* No worker process outlives its Workspace: it can neither be closed nor be
\* deleted under one, although the runners are told through the scheduler
\* and the executor and never hold the gate while they run
\* (workspace.py:1602-1632, workspace_lifecycle.py:83-86).
NoProcessWithoutWorkspace ==
  ws \in {"closed", "deleted"} => \A a \in Analyses : proc[a] # "alive"

\* "Commit cancelled only after the executor confirms process exit"
\* (analyses.py:1151), whichever of the cancellation, the group's
\* finalisation, the clearing of the Tab or the shutdown commits it.
CancelledHasNoProcess ==
  \A a \in Analyses : rec[a].state = "cancelled" => proc[a] # "alive"

\* Trees that a success superseded; the processes of their members are left
\* to finish (analyses.py:147-157).
SupersededMembers ==
  {a \in Analyses : \E b \in Analyses :
                      \E c \in Supersedes[b] : a = c \/ c \in Lineage[a]}

\* Every live process is monitored by an active runner, and unless it works
\* for a running record somebody is about to stop it: a cancellation on its
\* way to the scheduler, or the executor's own closing.  The exception is the
\* descendant of a superseded record.
EveryProcessIsWanted ==
  \A a \in Analyses :
    proc[a] = "alive" =>
      /\ a \in active /\ pc[a] = "monitor"
      /\ \/ rec[a].state = "running"
         \/ a \in signals
         \/ phase \in {"stopping", "draining"}
         \/ rec[a].state = "removed" /\ a \in SupersededMembers

\* As long as every commit succeeds, a queued or running record that is
\* executed by itself is in somebody's hands: a client's request, the queue, a
\* runner, or shutdown; else it would stay as it is, pin its input Data Blocks
\* and block its Tab until the next restart (analyses.py:424-432,
\* analysis_scheduler.py:159-169, analysis_execution.py:113-130).  While a
\* deletion has the gate it has dropped the queued items of records it is about
\* to remove.
NoWorkIsLost ==
  faults = 0 =>
    \A a \in Analyses :
      Kind[a] # "group" /\ rec[a].state \in Working =>
        \/ a \in unscheduled \union pending \union active \union interrupts \union selected
        \/ Parent[a] \in undo
        \/ gate = "deletion" \/ phase = "down"

\* A deferred close is never forgotten: while the scheduler works and nothing
\* fails, somebody who will look again whether the Workspace is idle is still
\* to come.  The close reads the scheduler once and leaves; runners that end,
\* cancelled items, new submissions and deletions pass it
\* (workspace.py:1600-1632, analysis_execution.py:287-302).
ClosingIsAwaited ==
  ws = "closing" /\ gate # "deletion" /\ SchedulerAccepts /\ faults = 0
    => HasWork \/ callbacks # {}

\* "Stop dispatch, terminate runners, and commit truthful terminal state"
\* (analysis_execution.py:103): after an orderly shutdown, and while every
\* commit succeeds, no record that a runner executes claims to be active,
\* requests still under way set aside.
\* A group whose submission the shutdown refused is left running: nobody
\* drives it any more, and the restart fails it.
TruthfulShutdown ==
  [][Down /\ unscheduled = {} /\ undo = {} /\ faults = 0
       => \A a \in Analyses : Kind[a] # "group" => rec[a].state \notin Working]_vars

\* The records live by AnalysisLifecycle.
Lifecycle ==
  INSTANCE AnalysisLifecycle
    WITH state <- [a \in Analyses |-> rec[a].state],
         requested <- [a \in Analyses |-> rec[a].creq]

ImplementsLifecycle == Lifecycle!Spec

\* Whatever is submitted ends, and what was detached from its Tab meanwhile is
\* removed, whichever commit ends it: "Cancel one Analysis execution head and
\* every active descendant" (analyses.py:592), "Detach a Tab's complete forest
\* and cancel all active work" (analyses.py:656).  A group that is detached
\* while it runs is excepted: nothing ends it but the next start.
EverySubmissionEnds ==
  \A a \in Analyses :
    rec[a].state \in Working ~>
      \/ rec[a].state \in Terminal /\ rec[a].live
      \/ rec[a].state = "removed"
      \/ Kind[RootOf(a)] = "group" /\ ~rec[a].live
=============================================================================
