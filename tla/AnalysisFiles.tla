---------------------------- MODULE AnalysisFiles ----------------------------
(***************************************************************************)
(* The private storage of the Analyses of one open Workspace:              *)
(* analyses/<id>/.execution (input and output), artifacts and query-input, *)
(* and the Data Blocks that Analyses publish into data/.  The directories  *)
(* are made, moved, read and removed by the preparation of a dispatch, the *)
(* worker processes, the publication of a result, the rollback of a failed *)
(* commit, the collection after a successful one, the start-up, and by     *)
(* readers of results, who copy what they need under the Workspace's gate  *)
(* and work on the copy after leaving it.  AnalysisExecution is about the  *)
(* records; here a commit has its steps and its files, and one command at  *)
(* a time runs under the gate.                                             *)
(***************************************************************************)
EXTENDS Naturals, FiniteSets

CONSTANTS
  Analyses,
  NoAnalysis,
  KindOf,      \* "table": publishes artifacts, "block": a Data Block made of
               \* its parent's artifacts, "preview": keeps its input for queries
  ParentOf,    \* the Analysis a "block" derives from, or NoAnalysis
  Unchecked,   \* blocks of a topic model, accepted under any listed parent
  Replaces,    \* the Analyses the success of one supersedes
  Readers,     \* requests for a query's page or for an artifact
  Scenes,      \* the Analyses and requests that may come in one behaviour
  NoOne, User, \* holders of the gate that are neither
  Slots,       \* response_snapshots: concurrent copies
  MaxDisturbances \* bound on failures, cancelled requests and crashes

ASSUME KindsAreKnown ==
  /\ KindOf \in [Analyses -> {"table", "block", "preview"}]
  /\ ParentOf \in [Analyses -> Analyses \cup {NoAnalysis}]
  /\ \A a \in Analyses : KindOf[a] = "block" <=> ParentOf[a] \in Analyses
  /\ \A a \in Analyses : ParentOf[a] \in Analyses => KindOf[ParentOf[a]] = "table"
  /\ Replaces \in [Analyses -> SUBSET Analyses] /\ Unchecked \subseteq Analyses
  /\ Scenes \subseteq SUBSET (Analyses \cup Readers)
  /\ Slots \in Nat /\ MaxDisturbances \in Nat

\* Identities of different things differ.
ASSUME NamesDiffer ==
  /\ NoAnalysis \notin Analyses /\ NoOne # User
  /\ Analyses \cap Readers = {} /\ {NoOne, User} \cap (Analyses \cup Readers) = {}

VARIABLES
  mem,      \* the open Workspace: records, those a Tab lists, those asked to
            \* stop, and the Analyses whose Data Block is in the graph
  disk,     \* the committed snapshot
  dirs,     \* [Analyses -> what is in the private directory]
  data,     \* Analyses whose Parquet file is in data/
  gate,     \* who holds the Workspace's gate, and what comes next
  rollback, \* what the command has published
  run,      \* [Analyses -> where its runner is]
  proc,     \* [Analyses -> where its worker process is]
  reader,   \* [Readers -> [at, of]]
  copies, rooms, slots,  \* what readers hold: private copies, reservations, slots
  up, faults,
  hurt,     \* Analyses whose committed result a failed command has undone
  messy,    \* a removal has failed, or has been skipped after a commit
  lost,     \* downloads cancelled on leaving the gate
  orphans   \* worker processes that a crash has left

commandVars == <<mem, rollback>>
fileVars    == <<dirs, data>>
readerVars  == <<reader, copies, rooms, slots, lost>>
faultVars   == <<up, faults, hurt, messy, orphans>>
vars == <<commandVars, disk, fileVars, gate, run, proc, readerVars, faultVars>>

States  == {"none", "queued", "running", "succeeded", "failed", "cancelled"}
Working == {"queued", "running"}
Entries == {"input", "output", "artifacts", "query"}
Graphs  == [state : [Analyses -> States], linked : SUBSET Analyses,
            asked : SUBSET Analyses, blocks : SUBSET Analyses]

Init ==
  /\ mem = [state |-> [a \in Analyses |-> "none"], linked |-> {}, asked |-> {}, blocks |-> {}]
  /\ disk = mem
  /\ dirs = [a \in Analyses |-> {}] /\ data = {}
  /\ gate = [by |-> NoOne, step |-> "free"] /\ rollback = {}
  /\ \E asked \in Scenes :
       /\ run = [a \in Analyses |-> IF a \in asked THEN "new" ELSE "over"]
       /\ reader = [r \in Readers |->
                      [at |-> IF r \in asked THEN "idle" ELSE "done", of |-> NoAnalysis]]
  /\ proc = [a \in Analyses |-> "none"]
  /\ copies = {} /\ rooms = {} /\ slots = {} /\ lost = {}
  /\ up = "up" /\ faults = 0 /\ hurt = {} /\ messy = FALSE /\ orphans = {}

----------------------------------------------------------------------------
\* Records of the graph

Tree(a) == {a} \cup {c \in Analyses : ParentOf[c] = a}
Root(a) == IF ParentOf[a] = NoAnalysis THEN a ELSE ParentOf[a]
Works(g, a) == g.state[a] \in Working

With(g, a, s) == [g EXCEPT !.state[a] = s]

\* remove_analysis: a record goes with its descendants.
Without(g, gone) == [g EXCEPT !.state = [a \in Analyses |-> IF a \in gone THEN "none" ELSE @[a]],
                              !.linked = @ \ gone, !.asked = @ \ gone]

\* A detached tree goes when all of it has ended.
DropEnded(g, root) ==
  IF root \notin g.linked /\ \A a \in Tree(root) : ~Works(g, a)
  THEN Without(g, Tree(root)) ELSE g

\* Mutant of DetachTrees: a root that does not run itself is removed.
DetachAtOnce(g, roots) ==
  LET asked == {a \in Analyses : Root(a) \in roots /\ g.state[a] = "running"}
      kept  == asked
      ended == [g EXCEPT !.state = [a \in Analyses |->
                    IF Root(a) \in roots /\ @[a] = "queued" THEN "cancelled" ELSE @[a]],
                         !.linked = {a \in @ : Root(a) \notin roots}, !.asked = @ \cup asked]
  IN Without(ended, roots \ kept)

\* _detach_analysis_tree: queued members are cancelled, running ones asked to
\* stop; a tree goes unless one of it runs.
DetachTrees(g, roots) ==
  LET asked == {a \in Analyses : Root(a) \in roots /\ g.state[a] = "running"}
      kept  == {Root(a) : a \in asked}
      ended == [g EXCEPT !.state = [a \in Analyses |->
                    IF Root(a) \in roots /\ @[a] = "queued" THEN "cancelled" ELSE @[a]],
                         !.linked = {a \in @ : Root(a) \notin roots}, !.asked = @ \cup asked]
  IN Without(ended, {a \in Analyses : Root(a) \in roots \ kept})

----------------------------------------------------------------------------
\* The gate and the commit of a command

Open == up = "up" /\ gate.step = "free"
Hold(who, step) == gate' = [by |-> who, step |-> step]
Free == gate' = [by |-> NoOne, step |-> "free"]
Go(a, place) == run' = [run EXCEPT ![a] = place]

\* Mutant of Owned: the collector does not know query-input.
OwnedButQueries(g, a, e) ==
  \/ e \in {"input", "output"} /\ Works(g, a)
  \/ e = "artifacts" /\ g.state[a] = "succeeded"

\* What the records of a snapshot may keep.  A succeeded member keeps its
\* execution while its parent works.
Owned(g, a, e) ==
  \/ e \in {"input", "output"}
     /\ \/ Works(g, a)
        \/ g.state[a] = "succeeded" /\ ParentOf[a] \in Analyses /\ Works(g, ParentOf[a])
  \/ e = "artifacts" /\ g.state[a] = "succeeded"
  \/ e = "query" /\ g.state[a] = "succeeded" /\ KindOf[a] = "preview"

Collected(g) == [a \in Analyses |-> {e \in dirs[a] : Owned(g, a, e)}]

\* What becomes of a runner whose command has been committed, or rolled back.
\* The launch is followed by the process, the last command of an execution by
\* the removal of its directory, and one that raised by a last fail_execution.
AfterCommit ==
  [submitting |-> "waiting", launching |-> "executing", refusing |-> "over",
   reporting |-> "stopping", completing |-> "cleaning", recording |-> "cleaning",
   lastRecording |-> "over"]
AfterUndo ==
  [submitting |-> "over", launching |-> "falling", refusing |-> "falling",
   reporting |-> "executing", completing |-> "clearing", recording |-> "clearing",
   lastRecording |-> "over"]

\* A report that could not be recorded terminates the process.
ReturnTo(after) ==
  IF gate.by \in Analyses
  THEN /\ Go(gate.by, after[run[gate.by]])
       /\ proc' = CASE run[gate.by] = "launching" /\ after = AfterCommit ->
                         [proc EXCEPT ![gate.by] = "running"]
                    [] run[gate.by] = "reporting" /\ after = AfterUndo ->
                         [proc EXCEPT ![gate.by] = "failed"]
                    [] OTHER -> proc
  ELSE UNCHANGED <<run, proc>>

\* The metadata of the staged snapshot replaces the old: the commit point.
Commit ==
  /\ gate.step = "commit"
  /\ disk' = mem
  /\ rollback' = {}
  /\ Hold(gate.by, "collect")
  /\ UNCHANGED <<mem, fileVars, run, proc, readerVars, faultVars>>

\* Staging, admission or a move has failed; or, after the commit point, the
\* flush of the directory has: the caller cannot tell and undoes the command.
CommitFails ==
  /\ gate.step = "commit" /\ faults < MaxDisturbances
  /\ faults' = faults + 1
  /\ \/ UNCHANGED <<disk, hurt, messy>>
     \/ disk' = mem /\ hurt' = hurt \cup {p[1] : p \in rollback} /\ messy' = TRUE
  /\ Hold(gate.by, "undo")
  /\ UNCHANGED <<commandVars, fileVars, run, proc, readerVars, up, orphans>>

\* Mutant of Undo: memory is restored, the published directories stay.
UndoMemoryOnly ==
  /\ gate.step = "undo"
  /\ mem' = disk /\ rollback' = {}
  /\ ReturnTo(AfterUndo)
  /\ Free
  /\ UNCHANGED <<disk, fileVars, readerVars, faultVars>>

\* _remove_rollback_paths, _remove_rollback_analysis_directories, _restore_slot
Undo ==
  /\ gate.step = "undo"
  /\ dirs' = [a \in Analyses |-> {e \in dirs[a] : <<a, e>> \notin rollback}]
  /\ data' = {a \in data : <<a, "data">> \notin rollback}
  /\ mem' = disk /\ rollback' = {}
  /\ ReturnTo(AfterUndo)
  /\ Free
  /\ UNCHANGED <<disk, readerVars, faultVars>>

\* After the commit whatever no committed record owns is removed; a failure is
\* logged and the next commit tries again.  Then the gate is free.
Collect ==
  /\ gate.step = "collect"
  /\ \/ dirs' = Collected(disk) /\ data' = data \cap disk.blocks
        /\ UNCHANGED <<faults, messy>>
     \/ faults < MaxDisturbances /\ faults' = faults + 1 /\ messy' = TRUE /\ UNCHANGED fileVars
  /\ ReturnTo(AfterCommit)
  /\ Free
  /\ UNCHANGED <<commandVars, disk, readerVars, up, hurt, orphans>>

----------------------------------------------------------------------------
\* Commands of users

\* The parent of a block is listed by its Tab; that it has succeeded is checked
\* for concordances and quotations only.
Submit(a) ==
  /\ Open /\ run[a] = "new"
  /\ IF ParentOf[a] \in Analyses
     THEN /\ ParentOf[a] \in mem.linked
          /\ a \in Unchecked \/ mem.state[ParentOf[a]] = "succeeded"
     ELSE \A b \in Analyses : ParentOf[b] = NoAnalysis => ~Works(mem, b)
  /\ \A b \in Replaces[a] : b \in mem.linked /\ ~Works(mem, b)
  /\ mem' = [With(mem, a, "queued") EXCEPT !.linked = @ \cup {a}]
  /\ Go(a, "submitting")
  /\ Hold(a, "commit")
  /\ UNCHANGED <<disk, fileVars, rollback, proc, readerVars, faultVars>>

\* The Tab is cleared: all its trees are detached.
Clear ==
  /\ Open /\ mem.linked # {}
  /\ mem' = DetachTrees(mem, {Root(a) : a \in mem.linked})
  /\ Hold(User, "commit")
  /\ UNCHANGED <<disk, fileVars, rollback, run, proc, readerVars, faultVars>>

\* A working Analysis is cancelled with its working descendants.
Cancel(a) ==
  /\ Open /\ a \in mem.linked /\ Works(mem, a)
  /\ ~(\A b \in Tree(a) : b \in mem.asked \/ ~Works(mem, b))
  /\ mem' = [mem EXCEPT !.state = [b \in Analyses |->
                IF b \in Tree(a) /\ @[b] = "queued" THEN "cancelled" ELSE @[b]],
                        !.asked = @ \cup {b \in Tree(a) : mem.state[b] = "running"}]
  /\ Hold(User, "commit")
  /\ UNCHANGED <<disk, fileVars, rollback, run, proc, readerVars, faultVars>>

----------------------------------------------------------------------------
\* A runner and its process

\* The paths of the parent's artifacts resolve.  The Data Blocks of a
\* concordance read those of the sources of the group, which come and go with
\* it: here the parent stands for its sources.
ParentIsReadable(a) == ParentOf[a] \in Analyses => "artifacts" \in dirs[ParentOf[a]]

\* The parent of a block has a result.
ParentHasResult(a) == ParentOf[a] \in Analyses => mem.state[ParentOf[a]] = "succeeded"

\* What the invocation tells a worker to read is there.
InputsAreThere(a) == "input" \in dirs[a] /\ ParentIsReadable(a)

MakeInput(a)   == dirs' = [dirs EXCEPT ![a] = @ \cup {"input"}]
RemoveStage(a) == dirs' = [dirs EXCEPT ![a] = @ \ {"input", "output"}]

Ends(a, g) == mem' = DropEnded(g, Root(a))

\* admit_execution, prepare: the input is copied from the Workspace and the
\* paths of the artifacts of the parent's result are resolved, or the record
\* fails.
Admit(a) ==
  /\ Open /\ run[a] = "waiting"
  /\ IF mem.state[a] # "queued"
     THEN Go(a, "over") /\ UNCHANGED <<commandVars, fileVars, gate>>
     ELSE /\ Hold(a, "commit")
          /\ \/ /\ ParentHasResult(a) /\ ParentIsReadable(a) /\ MakeInput(a)
                /\ mem' = With(mem, a, "running") /\ Go(a, "launching")
             \/ /\ RemoveStage(a)
                /\ Ends(a, With(mem, a, "failed")) /\ Go(a, "refusing")
          /\ UNCHANGED <<data, rollback>>
  /\ UNCHANGED <<disk, proc, readerVars, faultVars>>

\* A worker reads its input and its parent's artifacts without the gate.
Reads(a) ==
  /\ proc[a] = "running"
  /\ proc' = [proc EXCEPT ![a] = IF InputsAreThere(a) THEN "read" ELSE "failed"]
  /\ UNCHANGED <<commandVars, disk, fileVars, gate, run, readerVars, faultVars>>

\* It makes the output directory, also one that was removed meanwhile.
Writes(a) ==
  /\ proc[a] = "read"
  /\ proc' = [proc EXCEPT ![a] = "done"]
  /\ dirs' = IF KindOf[a] = "preview" THEN dirs ELSE [dirs EXCEPT ![a] = @ \cup {"output"}]
  /\ UNCHANGED <<commandVars, disk, data, gate, run, readerVars, faultVars>>

WorkerFails(a) ==
  /\ proc[a] \in {"running", "read"}
  /\ proc' = [proc EXCEPT ![a] = "failed"]
  /\ UNCHANGED <<commandVars, disk, fileVars, gate, run, readerVars, faultVars>>

\* The declared files are in the output directory, and no others.
OutputIsDeclared(a) == "output" \in dirs[a]

\* os.replace of the output directory
PublishArtifacts(a) ==
  /\ KindOf[a] = "table" /\ OutputIsDeclared(a) /\ "artifacts" \notin dirs[a]
  /\ dirs' = [dirs EXCEPT ![a] = (@ \ {"output"}) \cup {"artifacts"}]
  /\ rollback' = {<<a, "artifacts">>} /\ UNCHANGED data

\* The parent's result is still the one the Data Block was made of.
BlockIsValid(a) == mem.state[ParentOf[a]] = "succeeded" /\ a \notin mem.blocks

\* A link in data/ and a node in the graph
PublishDataBlock(a) ==
  /\ KindOf[a] = "block" /\ BlockIsValid(a) /\ OutputIsDeclared(a) /\ a \notin data
  /\ data' = data \cup {a}
  /\ rollback' = {<<a, "data">>} /\ UNCHANGED dirs

\* A copy of the input for the queries to come
PublishQueryInput(a) ==
  /\ KindOf[a] = "preview" /\ "input" \in dirs[a] /\ "query" \notin dirs[a]
  /\ dirs' = [dirs EXCEPT ![a] = @ \cup {"query"}]
  /\ rollback' = {<<a, "query">>} /\ UNCHANGED data

Publish(a) == PublishArtifacts(a) \/ PublishDataBlock(a) \/ PublishQueryInput(a)

\* A result of which one part cannot be published: the nodes and the links of
\* the parts before it are taken back, and the record fails.
UnwindPublication == UNCHANGED <<fileVars, rollback>>

\* _apply_success_supersession, after the record has succeeded
Succeeded(a) ==
  LET own == With(mem, a, "succeeded")
      blk == IF KindOf[a] = "block" THEN [own EXCEPT !.blocks = @ \cup {a}] ELSE own
  IN Without(blk, UNION {Tree(b) : b \in Replaces[a]})

\* complete_execution
Complete(a) ==
  /\ Open /\ run[a] = "executing" /\ proc[a] = "done"
  /\ proc' = [proc EXCEPT ![a] = "none"]
  /\ IF mem.state[a] # "running"
     THEN Go(a, "cleaning") /\ UNCHANGED <<commandVars, fileVars, gate>>
     ELSE /\ Go(a, "completing") /\ Hold(a, "commit")
          /\ \/ /\ Root(a) \notin mem.linked /\ a \in mem.asked
                /\ Ends(a, With(mem, a, "cancelled"))
                /\ UNCHANGED <<fileVars, rollback>>
             \/ /\ ~(Root(a) \notin mem.linked /\ a \in mem.asked)
                /\ \/ Publish(a) /\ Ends(a, Succeeded(a))
                   \/ UnwindPublication /\ Ends(a, With(mem, a, "failed"))
  /\ UNCHANGED <<disk, readerVars, faultVars>>

\* report_progress fails the record of a live process on an invalid report.
BadProgress(a) ==
  /\ Open /\ run[a] = "executing" /\ proc[a] \in {"running", "read"}
  /\ mem.state[a] = "running" /\ a \in mem.linked
  /\ mem' = With(mem, a, "failed")
  /\ Go(a, "reporting") /\ Hold(a, "commit")
  /\ UNCHANGED <<disk, fileVars, rollback, proc, readerVars, faultVars>>

\* The process of a runner that was told to stop has been terminated.
Stopped(a) ==
  /\ up = "up" /\ gate.by # a
  /\ \/ run[a] = "executing" /\ a \in disk.asked
     \/ run[a] = "stopping"
  /\ proc' = [proc EXCEPT ![a] = "none"]
  /\ Go(a, "confirming")
  /\ UNCHANGED <<commandVars, disk, fileVars, gate, readerVars, faultVars>>

\* confirm_cancellation
Confirm(a) ==
  /\ Open /\ run[a] = "confirming"
  /\ IF mem.state[a] = "running" /\ a \in mem.asked
     THEN Ends(a, With(mem, a, "cancelled")) /\ Go(a, "recording") /\ Hold(a, "commit")
     ELSE Go(a, "cleaning") /\ UNCHANGED <<mem, gate>>
  /\ UNCHANGED <<disk, fileVars, rollback, proc, readerVars, faultVars>>

\* fail_execution, for a process that failed and as the last resort of _run
RecordFailure(a) ==
  /\ Open
  /\ \/ run[a] = "falling"
     \/ run[a] = "executing" /\ proc[a] = "failed"
  /\ proc' = [proc EXCEPT ![a] = "none"]
  /\ LET last == run[a] = "falling"
     IN IF Works(mem, a)
        THEN /\ Ends(a, With(mem, a, "failed")) /\ Hold(a, "commit")
             /\ Go(a, IF last THEN "lastRecording" ELSE "recording")
        ELSE Go(a, IF last THEN "over" ELSE "cleaning") /\ UNCHANGED <<mem, gate>>
  /\ UNCHANGED <<disk, fileVars, rollback, readerVars, faultVars>>

\* _cleanup_invocation: the runner removes .execution without the gate.
Clean(a) ==
  /\ up = "up" /\ run[a] \in {"cleaning", "clearing"}
  /\ Go(a, IF run[a] = "cleaning" THEN "over" ELSE "falling")
  /\ \/ RemoveStage(a) /\ UNCHANGED <<faults, messy>>
     \/ faults < MaxDisturbances /\ faults' = faults + 1 /\ messy' = TRUE /\ UNCHANGED dirs
  /\ UNCHANGED <<commandVars, disk, data, gate, proc, readerVars, up, hurt, orphans>>

----------------------------------------------------------------------------
\* Readers of results

At(r, place) == reader' = [reader EXCEPT ![r].at = place]
Aside(r, place) == reader' = [reader EXCEPT ![r] = [at |-> place, of |-> NoAnalysis]]
Query(r) == KindOf[reader[r].of] = "preview"
SourceOf(r) == IF Query(r) THEN "query" ELSE "artifacts"

\* Artifacts are downloaded through a response slot, queries computed.
Downloads(a) == KindOf[a] = "table"

\* The declared artifact is a regular file in the Analysis's directory.
ArtifactsResolve(a) == "artifacts" \in dirs[a]

\* successful_record_context: a listed success is looked up under the gate,
\* and refused when a declared artifact is gone.
Enter(r) ==
  /\ Open /\ reader[r].at = "idle"
  /\ \E a \in mem.linked :
       /\ mem.state[a] = "succeeded" /\ KindOf[a] # "block"
       /\ IF Downloads(a) /\ ~ArtifactsResolve(a)
          THEN Aside(r, "done") /\ UNCHANGED gate
          ELSE /\ reader' = [reader EXCEPT ![r] =
                      [at |-> IF Downloads(a) THEN "slot" ELSE "room", of |-> a]]
               /\ Hold(r, "read")
  /\ UNCHANGED <<commandVars, disk, fileVars, run, proc, copies, rooms, slots, lost, faultVars>>

\* A download waits for one of the response slots, with the gate.
TakeSlot(r) ==
  /\ up = "up" /\ reader[r].at = "slot" /\ Cardinality(slots) < Slots
  /\ slots' = slots \cup {r} /\ At(r, "room")
  /\ UNCHANGED <<commandVars, disk, fileVars, gate, run, proc, copies, rooms, lost, faultVars>>

\* Room for the copy is reserved or refused.
Reserve(r) ==
  /\ up = "up" /\ reader[r].at = "room"
  /\ \/ rooms' = rooms \cup {r} /\ At(r, "copy") /\ UNCHANGED slots
     \/ slots' = slots \ {r} /\ At(r, "leaving") /\ UNCHANGED rooms
  /\ UNCHANGED <<commandVars, disk, fileVars, gate, run, proc, copies, lost, faultVars>>

GiveBack(r) == copies' = copies \ {r} /\ rooms' = rooms \ {r} /\ slots' = slots \ {r}

\* _create_snapshot, or clone_worker_input_snapshot into the query root; one
\* that fails is removed and its resources are returned.
Copy(r) ==
  /\ up = "up" /\ reader[r].at = "copy"
  /\ At(r, "leaving")
  /\ IF SourceOf(r) \in dirs[reader[r].of]
     THEN copies' = copies \cup {r} /\ UNCHANGED <<rooms, slots>>
     ELSE GiveBack(r)
  /\ UNCHANGED <<commandVars, disk, fileVars, gate, run, proc, lost, faultVars>>

\* The gate is left; the computation and the response work on the copy.
Leave(r) ==
  /\ up = "up" /\ reader[r].at = "leaving"
  /\ Free
  /\ Aside(r, IF r \in copies THEN "copied" ELSE "done")
  /\ UNCHANGED <<commandVars, disk, fileVars, run, proc, copies, rooms, slots, lost, faultVars>>

\* Mutant of CleanUp: the slot of a response is not returned.
CleanUpKeepsSlot(r) ==
  /\ up = "up" /\ reader[r].at = "copied"
  /\ Aside(r, "done")
  /\ copies' = copies \ {r} /\ rooms' = rooms \ {r}
  /\ UNCHANGED <<commandVars, disk, fileVars, gate, run, proc, slots, lost, faultVars>>

\* The page is computed from the copy, which goes whether that succeeds, fails
\* or is cancelled: a shielded cleanup in a finally, or after the response.
CleanUp(r) ==
  /\ up = "up" /\ reader[r].at = "copied"
  /\ Aside(r, "done")
  /\ GiveBack(r)
  /\ UNCHANGED <<commandVars, disk, fileVars, gate, run, proc, lost, faultVars>>

\* The request is cancelled under the gate.  What it was making is removed;
\* but leaving the gate waits for the registry's lock, and a download that is
\* cancelled there is lost with its slot, while a query has a finally.
CancelReader(r) ==
  /\ up = "up" /\ faults < MaxDisturbances
  /\ faults' = faults + 1
  /\ reader[r].at \in {"slot", "room", "copy", "leaving"}
  /\ Free
  /\ IF reader[r].at = "leaving" /\ r \in copies
     THEN /\ UNCHANGED <<copies, rooms, slots>>
          /\ IF Query(r) THEN Aside(r, "copied") /\ UNCHANGED lost
             ELSE Aside(r, "done") /\ lost' = lost \cup {r}
     ELSE GiveBack(r) /\ Aside(r, "done") /\ UNCHANGED lost
  /\ UNCHANGED <<commandVars, disk, fileVars, run, proc, up, hurt, messy, orphans>>

----------------------------------------------------------------------------
\* Crash and start

\* Worker processes are no daemons and may outlive the backend.
Crash ==
  /\ up # "down" /\ faults < MaxDisturbances
  /\ faults' = faults + 1 /\ up' = "down"
  /\ \E alive \in SUBSET {a \in Analyses : proc[a] \in {"running", "read"}} :
       /\ orphans' = orphans \cup alive
       /\ proc' = [a \in Analyses |-> IF a \in alive THEN proc[a] ELSE "none"]
  /\ mem' = disk /\ rollback' = {} /\ Free
  /\ run' = [a \in Analyses |-> IF run[a] = "new" THEN "new" ELSE "over"]
  /\ reader' = [r \in Readers |-> IF reader[r].at = "idle" THEN reader[r]
                                  ELSE [at |-> "done", of |-> NoAnalysis]]
  /\ rooms' = {} /\ slots' = {} /\ lost' = {}
  /\ UNCHANGED <<disk, fileVars, copies, hurt, messy>>

\* WorkspaceStore.reconcile removes what the committed records do not own.
Reconcile ==
  /\ up = "down"
  /\ up' = "starting"
  /\ dirs' = Collected(disk) /\ data' = data \cap disk.blocks
  /\ UNCHANGED <<commandVars, disk, gate, run, proc, readerVars, faults, hurt, messy,
                 orphans>>

\* reconcile_interrupted_analyses and its commit, and the removal of the
\* copies of the former process
Interrupt ==
  /\ up = "starting"
  /\ up' = "up"
  /\ LET failed == [disk EXCEPT !.state = [a \in Analyses |->
                      IF @[a] \in Working THEN "failed" ELSE @[a]]]
         detached == {a \in Analyses : Root(a) = a /\ a \notin disk.linked}
     IN disk' = Without(failed, UNION {Tree(a) : a \in detached})
  /\ mem' = disk'
  /\ dirs' = Collected(disk') /\ copies' = {}
  /\ UNCHANGED <<rollback, data, gate, run, proc, reader, rooms, slots, lost, faults,
                 hurt, messy, orphans>>

----------------------------------------------------------------------------
Runs(a) == \/ Submit(a) \/ Cancel(a) \/ Admit(a) \/ Reads(a) \/ Writes(a) \/ WorkerFails(a)
           \/ Complete(a) \/ BadProgress(a) \/ Stopped(a) \/ Confirm(a) \/ RecordFailure(a)
           \/ Clean(a)
Answers(r) == \/ Enter(r) \/ TakeSlot(r) \/ Reserve(r) \/ Copy(r) \/ Leave(r) \/ CleanUp(r)
              \/ CancelReader(r)

Next == \/ Commit \/ CommitFails \/ Undo \/ Collect \/ Clear
        \/ Crash \/ Reconcile \/ Interrupt
        \/ \E a \in Analyses : Runs(a)
        \/ \E r \in Readers : Answers(r)

Spec == Init /\ [][Next]_vars

\* Every await that can proceed does; a worker process ends, and the gate is
\* an anyio.Lock, whose waiters are served in turn.
Fairness ==
  /\ WF_vars(Commit \/ Undo \/ Collect \/ Reconcile \/ Interrupt)
  /\ \A a \in Analyses :
       /\ WF_vars(Reads(a) \/ Writes(a)) /\ WF_vars(Stopped(a)) /\ WF_vars(Clean(a))
       /\ SF_vars(Admit(a) \/ Complete(a) \/ Confirm(a) \/ RecordFailure(a))
  /\ \A r \in Readers :
       WF_vars(TakeSlot(r) \/ Reserve(r) \/ Copy(r) \/ Leave(r) \/ CleanUp(r))

FairSpec == Spec /\ Fairness

----------------------------------------------------------------------------
TypeOK ==
  /\ mem \in Graphs /\ disk \in Graphs
  /\ dirs \in [Analyses -> SUBSET Entries] /\ data \subseteq Analyses
  /\ gate \in [by : Analyses \cup Readers \cup {NoOne, User},
               step : {"free", "commit", "collect", "undo", "read"}]
  /\ rollback \subseteq Analyses \X {"artifacts", "query", "data"}
  /\ run \in [Analyses -> {"new", "over", "waiting", "executing", "stopping", "confirming",
                           "falling", "cleaning", "clearing"} \cup DOMAIN AfterCommit]
  /\ proc \in [Analyses -> {"none", "running", "read", "done", "failed"}]
  /\ reader \in [Readers -> [at : {"idle", "slot", "room", "copy", "leaving", "copied", "done"},
                             of : Analyses \cup {NoAnalysis}]]
  /\ copies \subseteq Readers /\ rooms \subseteq Readers /\ slots \subseteq Readers
  /\ Cardinality(slots) <= Slots /\ lost \subseteq Readers
  /\ up \in {"up", "down", "starting"} /\ faults \in 0..MaxDisturbances
  /\ hurt \subseteq Analyses /\ messy \in BOOLEAN /\ orphans \subseteq Analyses

\* A worker finds what it was told to read for as long as its Analysis runs,
\* although it reads without the gate: its own input, and the artifacts of the
\* parent, which the Tab may have dropped meanwhile.  Commits, collections and
\* cleanups of other commands do not take them away.
InputsLast ==
  /\ TypeOK
  /\ \A a \in Analyses :
       run[a] = "executing" /\ proc[a] = "running" /\ disk.state[a] = "running"
         => InputsAreThere(a)

\* At every moment, also between the steps of a commit, after a crash and
\* before the start has tidied up, the committed snapshot finds the files of
\* its successes and of its Data Blocks, and so does a reader under the gate;
\* except of a success whose commit was reported as failed by the last flush.
ResultsAreThere ==
  /\ \A a \in Analyses \ hurt :
       /\ disk.state[a] = "succeeded" /\ KindOf[a] = "table" => "artifacts" \in dirs[a]
       /\ disk.state[a] = "succeeded" /\ KindOf[a] = "preview" => "query" \in dirs[a]
       /\ a \in disk.blocks => a \in data
  /\ \A r \in Readers : reader[r].at = "copy" /\ reader[r].of \notin hurt
                         => SourceOf(r) \in dirs[reader[r].of]

\* With the gate free nothing is left that no record owns, nor that its runner
\* or a worker of a crashed backend is still at, unless a removal has failed
\* or its commit was reported as failed by the last flush;
\* and a reader that is done has returned its copy, its room and its slot, but
\* for a download that was cancelled on leaving the gate.
NothingIsLeft ==
  /\ Open /\ ~messy =>
       /\ \A a \in Analyses : \A e \in dirs[a] :
            \/ Owned(disk, a, e)
            \/ e \in {"input", "output"} /\ (run[a] # "over" \/ a \in orphans)
       /\ data \subseteq disk.blocks
  /\ up = "up" => \A r \in Readers \ lost :
       reader[r].at \in {"idle", "done"} => r \notin copies \cup rooms \cup slots

\* Every execution and every request ends, unless a download waits, with the
\* gate, for slots that are all lost to cancelled downloads.
EverythingEnds ==
  <>[](\/ \E r \in Readers : reader[r].at = "slot" /\ Cardinality(slots \cap lost) = Slots
       \/ /\ \A a \in Analyses : run[a] \in {"new", "over"}
          /\ \A r \in Readers : reader[r].at \in {"idle", "done"})
=============================================================================
