--------------------------- MODULE WorkspaceStore ---------------------------
(***************************************************************************)
(* One Workspace on disk and in memory: WorkspaceStore                     *)
(* (infrastructure/storage/workspace_store.py), the mutation boundary of   *)
(* WorkspaceService (services/workspace.py), and the plan history of a     *)
(* Node (domain/workspace/node.py).                                        *)
(*                                                                         *)
(* A commit serializes every Data Block's plan and every Tab's record to   *)
(* files of a new generation, moves them beside the committed ones,        *)
(* replaces the metadata, which names the files, and deletes what the new  *)
(* metadata does not reach, Parquet files included.  The Workspace gate    *)
(* admits one command at a time; only the request of a failed import acts  *)
(* without it.                                                             *)
(*                                                                         *)
(* A plan is the set of Parquet files it scans and the generation at which *)
(* it was made.  Analysis records, which are moved and collected as Tab    *)
(* records are, and the byte, node and storage limits, which only reject   *)
(* commands (Refuse, Abandon), are left out.                               *)
(***************************************************************************)
EXTENDS Naturals, Sequences

CONSTANTS
  Nodes,        \* identities of Data Blocks
  Tabs,         \* identities of Tabs
  Sources,      \* names of Parquet files under data/
  NoPlan,       \* no Data Block or Tab, no file, no staged generation
  HistoryLimit, \* PLAN_HISTORY_LIMIT
  MaxGeneration \* bound: generations written

Ids == Nodes \union Tabs

ASSUME NodesAreNotTabs == Nodes \intersect Tabs = {}
ASSUME NodesAreNotSources == Nodes \intersect Sources = {}
ASSUME HistoryLimitOK == HistoryLimit \in Nat \ {0}
ASSUME MaxGenerationOK == MaxGeneration \in Nat

Plans == [scan : SUBSET Sources, made : Nat]
Files == [id : Ids, generation : Nat, plan : Plans]
Snapshots == [revision : Nat, files : [Ids -> Files \union {NoPlan}]]
Contents == [Ids -> Plans \union {NoPlan}]
ASSUME NoPlanIsNone == NoPlan \notin Plans \union Files \union Snapshots \union Contents

VARIABLES
  metadata,   \* workspace.json: its revision and the file of each id
  files,      \* plan and record files beside it
  sources,    \* Parquet files under data/
  staging,    \* the staged metadata, or NoPlan
  generation, \* generations written so far; their names are never reused
  used,       \* Data Block identities and Parquet names given out so far
  slotState,  \* "down": the server is starting; "closed"; "open"
  heldRevision, \* slot.revision
  plan,       \* id -> its current plan, or NoPlan when there is none
  undo,       \* id -> _undo_stack
  redo,       \* id -> _redo_stack
  before,     \* before_node_histories of the command in progress
  phase,      \* where the command in progress is
  rollback,   \* lease.rollback_paths
  own,        \* staged_path of the import in progress
  unlinking,  \* files that the requests of failed imports have still to unlink
  errors      \* history: kinds of I/O error that hit after the commit point
              \* ("late") or during a rollback ("rollback")

disk == <<metadata, files, sources, staging, generation, used>>
graph == <<plan, undo, redo>>
command == <<before, phase, rollback, own>>
storeVars == <<disk, slotState, heldRevision, graph, command, unlinking, errors>>

NoHistory == [i \in Ids |-> <<>>]

\* The files a metadata names, the Parquet files that plan files scan, and
\* whether the snapshot can be loaded.
FilesOf(m) == IF m = NoPlan THEN {} ELSE {m.files[i] : i \in Ids} \ {NoPlan}
SourcesOf(fs) == UNION {f.plan.scan : f \in fs}
Intact(fs) == fs \subseteq files /\ SourcesOf(fs) \subseteq sources

PlanIn(m) == [i \in Ids |-> IF m.files[i] = NoPlan THEN NoPlan ELSE m.files[i].plan]

StoreInit ==
  /\ metadata = [revision |-> 1, files |-> [i \in Ids |-> NoPlan]]
  /\ files = {}
  /\ sources = {}
  /\ staging = NoPlan
  /\ generation = 0
  /\ used = {}
  /\ slotState = "closed"
  /\ heldRevision = 0
  /\ plan = [i \in Ids |-> NoPlan]
  /\ undo = NoHistory /\ redo = NoHistory
  /\ before = [undo |-> NoHistory, redo |-> NoHistory]
  /\ phase = "idle"
  /\ rollback = {} /\ own = {} /\ unlinking = {}
  /\ errors = {}

-----------------------------------------------------------------------------
(* Opening, closing, stopping and starting.                                *)

LoadGraph ==
  /\ plan' = PlanIn(metadata)
  /\ heldRevision' = metadata.revision

ForgetGraph ==
  /\ plan' = [i \in Ids |-> NoPlan]
  /\ undo' = NoHistory /\ redo' = NoHistory
  /\ heldRevision' = 0

NoCommand ==
  /\ before' = [undo |-> NoHistory, redo |-> NoHistory]
  /\ phase' = "idle"
  /\ rollback' = {} /\ own' = {}

\* open_workspace: a snapshot that does not load leaves it closed.
Open ==
  /\ slotState = "closed"
  /\ Intact(FilesOf(metadata))
  /\ slotState' = "open"
  /\ LoadGraph
  /\ UNCHANGED <<disk, undo, redo, command, unlinking, errors>>

\* request_close: the histories are gone, the committed plans are not.
CloseSlot ==
  /\ slotState = "open" /\ phase = "idle"
  /\ slotState' = "closed"
  /\ ForgetGraph
  /\ UNCHANGED <<disk, command, unlinking, errors>>

\* The process dies at any moment.  The next one empties the staging root
\* before it serves requests (reconcile_transient_storage); files already
\* moved beside the committed ones stay.
Crash ==
  /\ slotState' = "down"
  /\ staging' = NoPlan
  /\ ForgetGraph
  /\ NoCommand
  /\ unlinking' = {}
  /\ UNCHANGED <<metadata, files, sources, generation, used, errors>>

\* reconcile_durable_workspaces finds nothing to change here, or cannot load.
StartUp ==
  /\ slotState = "down" /\ phase = "idle"
  /\ slotState' = "closed"
  /\ UNCHANGED <<disk, heldRevision, graph, command, unlinking, errors>>

\* The generation that the plans and records of p would be written as.
Snapshot(r, p) ==
  [revision |-> r,
   files |-> [i \in Ids |->
     IF p[i] = NoPlan THEN NoPlan
     ELSE [id |-> i, generation |-> generation + 1, plan |-> p[i]]]]

\* It finds interrupted Analyses and commits the Workspace: commit writes the
\* new generation in place, without staging it elsewhere.
StartUpSave ==
  /\ slotState = "down" /\ phase = "idle"
  /\ generation < MaxGeneration
  /\ Intact(FilesOf(metadata))
  /\ LoadGraph
  /\ staging' = Snapshot(metadata.revision + 1, PlanIn(metadata))
  /\ generation' = generation + 1
  /\ phase' = "staged"
  /\ UNCHANGED <<metadata, files, sources, used, slotState, undo, redo, before,
                 rollback, own, unlinking, errors>>

-----------------------------------------------------------------------------
(* The commands, each inside mutation_context.                             *)

\* mutation_context takes the gate and remembers the plan histories.
Enter ==
  /\ slotState = "open" /\ phase = "idle"
  /\ generation < MaxGeneration
  /\ before' = [undo |-> undo, redo |-> redo]
  /\ UNCHANGED <<metadata, files, staging, generation, slotState, heldRevision, unlinking, errors>>

Bounded(s) == IF Len(s) > HistoryLimit THEN Tail(s) ELSE s

Scanning(fs) == [scan |-> fs, made |-> generation + 1]

\* Node.data's setter.
SetData(n, p) ==
  /\ plan' = [plan EXCEPT ![n] = p]
  /\ undo' = [undo EXCEPT ![n] = Bounded(Append(@, plan[n]))]
  /\ redo' = [redo EXCEPT ![n] = <<>>]

\* A new Parquet file f, under a name that was never used.
WriteSource(f) ==
  /\ f \in Sources \ used
  /\ sources' = sources \union {f}

\* _create_from_file_admitted: the file is not in rollback_paths, the
\* request unlinks it itself when it fails.
Import(n, f) ==
  /\ Enter
  /\ n \in Nodes \ used
  /\ WriteSource(f)
  /\ used' = used \union {n, f}
  /\ plan' = [plan EXCEPT ![n] = Scanning({f})]
  /\ own' = {f}
  /\ phase' = "changed"
  /\ UNCHANGED <<undo, redo, rollback>>

\* _stage_dataframe fails after os.replace: staged_path was never assigned.
ImportFails(f) ==
  /\ Enter
  /\ WriteSource(f)
  /\ used' = used \union {f}
  /\ phase' = "failing"
  /\ UNCHANGED <<graph, rollback, own>>

\* An Analysis publishes a Data Block it created.
PublishBlock(n, f) ==
  /\ Enter
  /\ n \in Nodes \ used
  /\ WriteSource(f)
  /\ used' = used \union {n, f}
  /\ plan' = [plan EXCEPT ![n] = Scanning({f})]
  /\ rollback' = {f}
  /\ phase' = "changed"
  /\ UNCHANGED <<undo, redo, own>>

\* _publish_annotation_run_all: the Data Block's plan becomes a scan of the
\* annotated file; the plan it had goes to the undo stack.
PublishAnnotation(n, f) ==
  /\ Enter
  /\ n \in Nodes /\ plan[n] # NoPlan
  /\ WriteSource(f)
  /\ used' = used \union {f}
  /\ SetData(n, Scanning({f}))
  /\ rollback' = {f}
  /\ phase' = "changed"
  /\ UNCHANGED own

\* canonical_node_info counts the rows of a plan, which reads its files: the
\* command goes on only when they are there.
ProceedIfReadable(p) ==
  phase' = IF p.scan \subseteq sources THEN "changed" ELSE "failing"

\* _create_derived: the new plan reads the files its parents read.
Derive(n, parents) ==
  /\ Enter
  /\ n \in Nodes \ used
  /\ parents # {} /\ \A m \in parents : plan[m] # NoPlan
  /\ used' = used \union {n}
  /\ LET p == Scanning(UNION {plan[m].scan : m \in parents})
     IN plan' = [plan EXCEPT ![n] = p] /\ ProceedIfReadable(p)
  /\ UNCHANGED <<sources, undo, redo, rollback, own>>

Edit(n) ==
  /\ Enter
  /\ plan[n] # NoPlan
  /\ LET p == Scanning(plan[n].scan)
     IN SetData(n, p) /\ ProceedIfReadable(p)
  /\ UNCHANGED <<sources, used, rollback, own>>

Last(s) == s[Len(s)]
ButLast(s) == SubSeq(s, 1, Len(s) - 1)

Undo(n) ==
  /\ Enter
  /\ plan[n] # NoPlan /\ undo[n] # <<>>
  /\ plan' = [plan EXCEPT ![n] = Last(undo[n])]
  /\ undo' = [undo EXCEPT ![n] = ButLast(@)]
  /\ redo' = [redo EXCEPT ![n] = Bounded(Append(@, plan[n]))]
  /\ ProceedIfReadable(Last(undo[n]))
  /\ UNCHANGED <<sources, used, rollback, own>>

Redo(n) ==
  /\ Enter
  /\ plan[n] # NoPlan /\ redo[n] # <<>>
  /\ plan' = [plan EXCEPT ![n] = Last(redo[n])]
  /\ redo' = [redo EXCEPT ![n] = ButLast(@)]
  /\ undo' = [undo EXCEPT ![n] = Bounded(Append(@, plan[n]))]
  /\ ProceedIfReadable(Last(redo[n]))
  /\ UNCHANGED <<sources, used, rollback, own>>

\* NodeService.delete and remove_tab: children of a deleted Data Block keep
\* their plans, and with them its Parquet file.
Delete(i) ==
  /\ Enter
  /\ plan[i] # NoPlan
  /\ plan' = [plan EXCEPT ![i] = NoPlan]
  /\ undo' = [undo EXCEPT ![i] = <<>>]
  /\ redo' = [redo EXCEPT ![i] = <<>>]
  /\ phase' = "changed"
  /\ UNCHANGED <<sources, used, rollback, own>>

\* A Tab is created or replaced.
WriteTab(t) ==
  /\ Enter
  /\ plan' = [plan EXCEPT ![t] = Scanning({})]
  /\ phase' = "changed"
  /\ UNCHANGED <<sources, used, undo, redo, rollback, own>>

-----------------------------------------------------------------------------
(* _persist: stage, admit, move, replace the metadata, collect.            *)

\* The command raises after it changed the graph, or staging fails.
Refuse ==
  /\ phase = "changed"
  /\ phase' = "failing"
  /\ UNCHANGED <<disk, slotState, heldRevision, graph, before, rollback, own, unlinking, errors>>

Stage ==
  /\ phase = "changed"
  /\ staging' = Snapshot(heldRevision + 1, plan)
  /\ generation' = generation + 1
  /\ phase' = "staged"
  /\ UNCHANGED <<metadata, files, sources, used, slotState, heldRevision, graph, before,
                 rollback, own, unlinking, errors>>

\* commit_staged compares the revision on disk with the slot's.
RevisionMatches == heldRevision = metadata.revision

\* One plan or record file is moved, or written in place at startup; plans
\* come before records.
Move(f) ==
  /\ phase = "staged" /\ RevisionMatches
  /\ f \in FilesOf(staging) \ files
  /\ f.id \in Tabs => \A g \in FilesOf(staging) \ files : g.id \in Tabs
  /\ files' = files \union {f}
  /\ UNCHANGED <<metadata, sources, staging, generation, used, slotState, heldRevision, graph,
                 command, unlinking, errors>>

\* Mutant of PublishMetadata: the metadata is replaced before every file has moved.
PublishMetadataFirst ==
  /\ phase = "staged" /\ RevisionMatches
  /\ metadata' = staging
  /\ phase' = "published"
  /\ UNCHANGED <<files, sources, staging, generation, used, slotState, heldRevision, graph,
                 before, rollback, own, unlinking, errors>>

\* The commit point: workspace.json is replaced.
PublishMetadata ==
  /\ phase = "staged" /\ RevisionMatches
  /\ FilesOf(staging) \subseteq files
  /\ metadata' = staging
  /\ phase' = "published"
  /\ UNCHANGED <<files, sources, staging, generation, used, slotState, heldRevision, graph,
                 before, rollback, own, unlinking, errors>>

\* The directory is flushed.
Flush ==
  /\ phase = "published"
  /\ phase' = "collecting"
  /\ UNCHANGED <<disk, slotState, heldRevision, graph, before, rollback, own, unlinking, errors>>

GarbageFiles == files \ FilesOf(metadata)
GarbageSources == sources \ SourcesOf(FilesOf(metadata) \intersect files)

\* _garbage_collect_workspace_data, then _garbage_collect_workspace_tabs.
CollectFile(f) ==
  /\ phase = "collecting"
  /\ f \in GarbageFiles
  /\ f.id \in Tabs => GarbageSources = {} /\ \A g \in GarbageFiles : g.id \in Tabs
  /\ files' = files \ {f}
  /\ UNCHANGED <<metadata, sources, staging, generation, used, slotState, heldRevision, graph,
                 command, unlinking, errors>>

CollectSource(s) ==
  /\ phase = "collecting"
  /\ s \in GarbageSources
  /\ sources' = sources \ {s}
  /\ UNCHANGED <<metadata, files, staging, generation, used, slotState, heldRevision, graph,
                 command, unlinking, errors>>

\* The command has succeeded.  An error while collecting is only logged, so
\* garbage may be left for the next commit.
Finish ==
  /\ phase = "collecting" /\ slotState = "open"
  /\ heldRevision' = metadata.revision
  /\ staging' = NoPlan
  /\ NoCommand
  /\ UNCHANGED <<metadata, files, sources, generation, used, slotState, graph, unlinking,
                 errors>>

\* The same for a commit at startup, which keeps nothing in memory.
FinishStartUp ==
  /\ phase = "collecting" /\ slotState = "down"
  /\ slotState' = "closed"
  /\ ForgetGraph
  /\ staging' = NoPlan
  /\ NoCommand
  /\ UNCHANGED <<metadata, files, sources, generation, used, unlinking, errors>>

-----------------------------------------------------------------------------
(* Failure.                                                                *)

\* Admission or commit_staged refuses: over quota, another revision on disk,
\* a file that cannot be moved.
Abandon ==
  /\ phase = "staged" /\ slotState = "open"
  /\ phase' = "failing"
  /\ UNCHANGED <<disk, slotState, heldRevision, graph, before, rollback, own, unlinking, errors>>

\* Flushing the directory, or removing the staging directory afterwards,
\* fails: the command is treated as rejected although it is committed.
LateFailure ==
  /\ phase \in {"published", "collecting"} /\ slotState = "open"
  /\ phase' = "failing"
  /\ heldRevision' = IF phase = "collecting" THEN metadata.revision ELSE heldRevision
  /\ errors' = errors \union {"late"}
  /\ UNCHANGED <<disk, slotState, graph, before, rollback, own, unlinking>>

\* _write_workspace at startup discards the generation it created whenever
\* writing raises, which the flush after the replaced metadata may do too.
DiscardStartUp ==
  /\ phase \in {"staged", "published"} /\ slotState = "down"
  /\ files' = files \ FilesOf(staging)
  /\ errors' = IF phase = "published" THEN errors \union {"late"} ELSE errors
  /\ slotState' = "closed"
  /\ ForgetGraph
  /\ staging' = NoPlan
  /\ NoCommand
  /\ UNCHANGED <<metadata, sources, generation, used, unlinking>>

\* mutation_context: files the command published are removed,
Rollback ==
  /\ phase = "failing"
  /\ sources' = sources \ rollback
  /\ rollback' = {}
  /\ staging' = NoPlan
  /\ phase' = "restoring"
  /\ UNCHANGED <<metadata, files, generation, used, slotState, heldRevision, graph, before, own,
                 unlinking, errors>>

\* unless removing one fails, before or after it is gone: nothing else is
\* rolled back, and the Workspace stays open with the rejected change.
RollbackFails ==
  /\ phase = "failing" /\ rollback # {}
  /\ \E gone \in SUBSET rollback : sources' = sources \ gone
  /\ staging' = NoPlan
  /\ NoCommand
  /\ errors' = errors \union {"rollback"}
  /\ UNCHANGED <<metadata, files, generation, used, slotState, heldRevision, graph, unlinking>>

\* Mutant of Restore: only the histories are restored, not the graph.
RestoreHistories ==
  /\ phase = "restoring"
  /\ Intact(FilesOf(metadata))
  /\ undo' = before.undo /\ redo' = before.redo
  /\ NoCommand
  /\ unlinking' = unlinking \union own
  /\ UNCHANGED <<disk, slotState, heldRevision, plan, errors>>

\* _restore_slot: the committed graph is loaded with the histories it had.
RestoreSlot ==
  /\ phase = "restoring"
  /\ Intact(FilesOf(metadata))
  /\ LoadGraph
  /\ undo' = [i \in Ids |-> IF metadata.files[i] = NoPlan THEN <<>> ELSE before.undo[i]]
  /\ redo' = [i \in Ids |-> IF metadata.files[i] = NoPlan THEN <<>> ELSE before.redo[i]]
  /\ NoCommand
  /\ unlinking' = unlinking \union own
  /\ UNCHANGED <<disk, slotState, errors>>

\* It does not load, or loading it meets an error: the slot is cleared.
RestoreFails ==
  /\ phase = "restoring"
  /\ slotState' = "closed"
  /\ ForgetGraph
  /\ NoCommand
  /\ unlinking' = unlinking \union own
  /\ UNCHANGED <<disk, errors>>

\* The request of a failed import unlinks its file, outside the gate.
Unlink(s) ==
  /\ s \in unlinking
  /\ sources' = sources \ {s}
  /\ unlinking' = unlinking \ {s}
  /\ UNCHANGED <<metadata, files, staging, generation, used, slotState, heldRevision, graph,
                 command, errors>>

-----------------------------------------------------------------------------

Command ==
  \/ \E n \in Nodes, f \in Sources :
       Import(n, f) \/ PublishBlock(n, f) \/ PublishAnnotation(n, f)
  \/ \E f \in Sources : ImportFails(f)
  \/ \E n \in Nodes, parents \in SUBSET Nodes : Derive(n, parents)
  \/ \E n \in Nodes : Edit(n) \/ Undo(n) \/ Redo(n)
  \/ \E i \in Ids : Delete(i)
  \/ \E t \in Tabs : WriteTab(t)

Persist ==
  \/ Refuse \/ Stage \/ Abandon
  \/ PublishMetadata \/ Flush \/ Finish \/ FinishStartUp
  \/ \E f \in FilesOf(staging) : Move(f)
  \/ \E f \in files : CollectFile(f)
  \/ \E s \in sources : CollectSource(s)

Recover ==
  \/ LateFailure \/ DiscardStartUp
  \/ Rollback \/ RollbackFails \/ RestoreSlot \/ RestoreFails
  \/ \E s \in unlinking : Unlink(s)

StoreNext == Open \/ CloseSlot \/ Crash \/ StartUp \/ StartUpSave \/ Command \/ Persist \/ Recover

StoreSpec == StoreInit /\ [][StoreNext]_storeVars

-----------------------------------------------------------------------------
(* Properties.                                                             *)

StoreTypeOK ==
  /\ metadata \in Snapshots
  /\ \A i \in Ids : metadata.files[i] # NoPlan => metadata.files[i].id = i
  /\ files \subseteq Files
  /\ sources \subseteq Sources
  /\ staging \in Snapshots \union {NoPlan}
  /\ generation \in Nat
  /\ used \subseteq Nodes \union Sources
  /\ slotState \in {"down", "closed", "open"}
  /\ heldRevision \in Nat
  /\ plan \in Contents
  /\ undo \in [Ids -> Seq(Plans)] /\ redo \in [Ids -> Seq(Plans)]
  /\ before \in [undo : [Ids -> Seq(Plans)], redo : [Ids -> Seq(Plans)]]
  /\ phase \in {"idle", "changed", "staged", "published", "collecting", "failing",
                 "restoring"}
  /\ rollback \subseteq Sources /\ own \subseteq Sources
  /\ unlinking \subseteq Sources
  /\ errors \subseteq {"late", "rollback"}

\* Whatever is interrupted, rejected or collected when, the committed
\* snapshot can be loaded: every plan and record file its metadata names and
\* every Parquet file those plans scan are on disk.  It holds until a step
\* after the commit point, or a rollback, meets an I/O error.
CommittedLoads == errors = {} => Intact(FilesOf(metadata))

\* No two commits share a revision and none is skipped, although a slot may
\* be left with a revision the disk has passed.
OneCommitPerRevision ==
  [][metadata' # metadata => metadata'.revision = metadata.revision + 1]_storeVars

\* A Workspace changes as a whole or not at all, and when a command has ended,
\* well or badly, the open Workspace holds what is committed.  A rollback that
\* fails leaves the rejected change in the open Workspace, which is why
\* nothing is claimed of it from then on.
Atomic == INSTANCE WorkspaceAtomic WITH
  Empty <- [i \in Ids |-> NoPlan],
  Hidden <- NoPlan,
  committed <- PlanIn(metadata),
  pending <- IF phase \in {"changed", "staged"} THEN plan ELSE NoPlan,
  shown <- IF slotState = "open" /\ phase = "idle" /\ "rollback" \notin errors
           THEN plan ELSE NoPlan
ImplementsAtomic == Atomic!Spec

=============================================================================
