-------------------------- MODULE WorkspaceProofs ---------------------------
(***************************************************************************)
(* Proofs about Workspaces: one on disk and in memory (WorkspaceStore), and*)
(* which of them are open (WorkspaceRuntime).                              *)
(***************************************************************************)
EXTENDS WorkspaceStore, WorkspaceRuntime, SumTheorems, FiniteSetTheorems, TLAPS

-----------------------------------------------------------------------------
(***************************************************************************)
(* Proofs about WorkspaceStore, for any number of Data Blocks, Tabs,       *)
(* Parquet files and generations.  The inductive invariant says what a     *)
(* command in progress, the staged generation, the committed metadata and  *)
(* the plan histories know of each other; the committed snapshot loads     *)
(* because files of a failed command are in none of the others.            *)
(***************************************************************************)

-----------------------------------------------------------------------------
(* Histories and plans.                                                    *)

\* Appending to a bounded history keeps it a sequence of plans.
LEMMA BoundedType ==
  ASSUME NEW S, NEW s \in Seq(S), NEW x \in S
  PROVE  Bounded(Append(s, x)) \in Seq(S)
<1>1. Append(s, x) \in Seq(S) /\ Append(s, x) # <<>>
  BY SMTT(30)
<1>2. Tail(Append(s, x)) \in Seq(S)
  BY <1>1
<1> QED  BY <1>1, <1>2 DEF Bounded

\* The last plan of a history is a plan and the others remain a history.
LEMMA LastType ==
  ASSUME NEW S, NEW s \in Seq(S), s # <<>>
  PROVE  Last(s) \in S /\ ButLast(s) \in Seq(S)
<1>1. Len(s) \in Nat /\ Len(s) >= 1 /\ Len(s) - 1 \in 0 .. Len(s)
  OBVIOUS
<1>2. Last(s) \in S
  BY <1>1 DEF Last
<1>3. ButLast(s) \in Seq(S)
  BY <1>1 DEF ButLast
<1> QED  BY <1>2, <1>3

\* A history of some plans is a history of more.
LEMMA SeqGrows ==
  ASSUME NEW S, NEW T, S \subseteq T
  PROVE  Seq(S) \subseteq Seq(T)
  OBVIOUS

\* The Parquet files that a content scans.
Scanned(p) == UNION {p[i].scan : i \in {j \in Ids : p[j] # NoPlan}}

\* The Parquet files that the committed plans scan.
CommittedSources == Scanned(PlanIn(metadata))

\* The plans of a snapshot are a content.
LEMMA PlanInType ==
  ASSUME NEW m \in Snapshots
  PROVE  PlanIn(m) \in Contents
  BY DEF PlanIn, Snapshots, Contents, Files

\* What a snapshot names scans what its plans scan.
LEMMA SourcesAreScanned ==
  ASSUME NEW m \in Snapshots
  PROVE  SourcesOf(FilesOf(m)) = Scanned(PlanIn(m))
<1>1. m # NoPlan
  BY NoPlanIsNone
<1>2. ASSUME NEW i \in Ids, m.files[i] # NoPlan
      PROVE  PlanIn(m)[i] = m.files[i].plan /\ PlanIn(m)[i] # NoPlan
  BY <1>2, NoPlanIsNone DEF PlanIn, Snapshots, Files
<1>3. ASSUME NEW i \in Ids, PlanIn(m)[i] # NoPlan
      PROVE  m.files[i] # NoPlan
  BY <1>3 DEF PlanIn
<1>4. FilesOf(m) = {m.files[i] : i \in {j \in Ids : m.files[j] # NoPlan}}
  BY <1>1 DEF FilesOf
<1>5. SourcesOf(FilesOf(m)) \subseteq Scanned(PlanIn(m))
  BY <1>2, <1>4 DEF SourcesOf, Scanned
<1>6. Scanned(PlanIn(m)) \subseteq SourcesOf(FilesOf(m))
  BY <1>2, <1>3, <1>4 DEF SourcesOf, Scanned
<1> QED  BY <1>5, <1>6

-----------------------------------------------------------------------------
(* Types.                                                                  *)

\* A generation written from a content is a snapshot of exactly that content.
LEMMA SnapshotType ==
  ASSUME StoreTypeOK, NEW r \in Nat, NEW p \in Contents
  PROVE  /\ Snapshot(r, p) \in Snapshots
         /\ Snapshot(r, p).revision = r
         /\ PlanIn(Snapshot(r, p)) = p
         /\ \A i \in Ids : Snapshot(r, p).files[i] # NoPlan =>
              /\ Snapshot(r, p).files[i].id = i
              /\ Snapshot(r, p).files[i].generation = generation + 1
<1> DEFINE file(i) == [id |-> i, generation |-> generation + 1, plan |-> p[i]]
           entry(i) == IF p[i] = NoPlan THEN NoPlan ELSE file(i)
<1>1. Snapshot(r, p) = [revision |-> r, files |-> [i \in Ids |-> entry(i)]]
  BY DEF Snapshot
<1>2. \A i \in Ids : p[i] # NoPlan => file(i) \in Files /\ file(i) # NoPlan
  BY NoPlanIsNone DEF Contents, Files, StoreTypeOK
<1>3. \A i \in Ids : entry(i) \in Files \union {NoPlan}
  BY <1>2
<1>4. Snapshot(r, p) \in Snapshots /\ Snapshot(r, p).revision = r
  BY <1>1, <1>3 DEF Snapshots
<1>5. \A i \in Ids : Snapshot(r, p).files[i] = entry(i)
  BY <1>1
<1>6. ASSUME NEW i \in Ids
      PROVE  PlanIn(Snapshot(r, p))[i] = p[i]
  <2>1. PlanIn(Snapshot(r, p))[i] = IF entry(i) = NoPlan THEN NoPlan ELSE entry(i).plan
    BY <1>5 DEF PlanIn
  <2>2. CASE p[i] = NoPlan
    BY <2>1, <2>2
  <2>3. CASE p[i] # NoPlan
    BY <1>2, <2>1, <2>3
  <2> QED  BY <2>2, <2>3
<1>7. PlanIn(Snapshot(r, p)) = p
  BY <1>6 DEF PlanIn, Contents
<1>8. ASSUME NEW i \in Ids, Snapshot(r, p).files[i] # NoPlan
      PROVE  /\ Snapshot(r, p).files[i].id = i
             /\ Snapshot(r, p).files[i].generation = generation + 1
  <2>1. entry(i) # NoPlan /\ Snapshot(r, p).files[i] = entry(i)
    BY <1>5, <1>8
  <2>2. p[i] # NoPlan
    BY <2>1
  <2>3. Snapshot(r, p).files[i] = file(i)
    BY <2>1, <2>2
  <2> QED  BY <2>3
<1> QED  BY <1>4, <1>7, <1>8

\* The part of the type invariant that commands change.
GraphType ==
  /\ sources \subseteq Sources /\ used \subseteq Nodes \union Sources
  /\ plan \in Contents
  /\ undo \in [Ids -> Seq(Plans)] /\ redo \in [Ids -> Seq(Plans)]
  /\ phase \in {"idle", "changed", "staged", "published", "collecting", "failing",
                 "restoring"}
  /\ rollback \subseteq Sources /\ own \subseteq Sources

\* What every command does: it takes the idle open Workspace, and either is
\* ready to persist or fails.
Entered ==
  /\ Enter
  /\ phase' \in {"changed", "failing"}
  /\ GraphType'

\* Every command enters the gate and has then changed the graph or failed.
LEMMA CommandEnters ==
  ASSUME StoreTypeOK, Command
  PROVE  Entered
<1> USE DEF Entered, GraphType
<1>1. /\ \A S \in SUBSET Sources : Scanning(S) \in Plans
      /\ Nodes \subseteq Ids /\ Tabs \subseteq Ids
  BY DEF Scanning, Plans, StoreTypeOK, Ids
<1>2. ASSUME NEW n \in Nodes, NEW f \in Sources, Import(n, f)
      PROVE  Entered
  BY <1>1, <1>2 DEF StoreTypeOK, Import, WriteSource, Contents
<1>3. ASSUME NEW n \in Nodes, NEW f \in Sources, PublishBlock(n, f)
      PROVE  Entered
  BY <1>1, <1>3 DEF StoreTypeOK, PublishBlock, WriteSource, Contents
<1>4. ASSUME NEW n \in Ids, NEW p \in Plans, plan[n] # NoPlan, SetData(n, p), StoreTypeOK
      PROVE  /\ plan' \in Contents
             /\ undo' \in [Ids -> Seq(Plans)] /\ redo' \in [Ids -> Seq(Plans)]
  <2>1. plan[n] \in Plans /\ undo[n] \in Seq(Plans)
    BY <1>4 DEF StoreTypeOK, Contents
  <2>2. Bounded(Append(undo[n], plan[n])) \in Seq(Plans)
    BY <2>1, BoundedType
  <2>3. <<>> \in Seq(Plans)
    OBVIOUS
  <2> QED  BY <1>4, <2>2, <2>3 DEF StoreTypeOK, SetData, Contents
<1>5. ASSUME NEW n \in Nodes, NEW f \in Sources, PublishAnnotation(n, f)
      PROVE  Entered
  BY <1>1, <1>4, <1>5 DEF StoreTypeOK, PublishAnnotation, WriteSource
<1>6. ASSUME NEW f \in Sources, ImportFails(f)
      PROVE  Entered
  BY <1>6 DEF StoreTypeOK, ImportFails, WriteSource, graph
<1>7. ASSUME NEW n \in Nodes, NEW parents \in SUBSET Nodes, Derive(n, parents)
      PROVE  Entered
  <2> DEFINE p == Scanning(UNION {plan[m].scan : m \in parents})
  <2>1. \A m \in parents : plan[m] \in Plans
    BY <1>1, <1>7 DEF Derive, StoreTypeOK, Contents
  <2>2. UNION {plan[m].scan : m \in parents} \in SUBSET Sources
    BY <2>1 DEF Plans
  <2>3. p \in Plans
    BY <1>1, <2>2
  <2>4. plan' = [plan EXCEPT ![n] = p] /\ phase' \in {"changed", "failing"}
    BY <1>7 DEF Derive, ProceedIfReadable
  <2> HIDE DEF p
  <2> QED  BY <1>7, <2>3, <2>4, ZenonT(60) DEF StoreTypeOK, Derive, Contents
<1>8. ASSUME NEW n \in Nodes, Edit(n)
      PROVE  Entered
  <2>1. plan[n] \in Plans
    BY <1>1, <1>8 DEF Edit, StoreTypeOK, Contents
  <2>2. Scanning(plan[n].scan) \in Plans
    BY <1>1, <2>1 DEF Plans
  <2>3. SetData(n, Scanning(plan[n].scan)) /\ phase' \in {"changed", "failing"}
    BY <1>8 DEF Edit, ProceedIfReadable
  <2>4. /\ plan' \in Contents
        /\ undo' \in [Ids -> Seq(Plans)] /\ redo' \in [Ids -> Seq(Plans)]
    BY <1>1, <1>4, <1>8, <2>2, <2>3 DEF Edit
  <2> QED  BY <1>8, <2>3, <2>4 DEF StoreTypeOK, Edit
<1>9. ASSUME NEW n \in Nodes, Undo(n)
      PROVE  Entered
  <2>1. /\ n \in Ids /\ plan[n] \in Plans
        /\ undo[n] \in Seq(Plans) /\ redo[n] \in Seq(Plans) /\ undo[n] # <<>>
    BY <1>1, <1>9 DEF Undo, StoreTypeOK, Contents
  <2>2. Last(undo[n]) \in Plans /\ ButLast(undo[n]) \in Seq(Plans)
    BY <2>1, LastType
  <2>3. Bounded(Append(redo[n], plan[n])) \in Seq(Plans)
    BY <2>1, BoundedType
  <2>4. phase' \in {"changed", "failing"}
    BY <1>9 DEF Undo, ProceedIfReadable
  <2> QED  BY <1>9, <2>1, <2>2, <2>3, <2>4 DEF StoreTypeOK, Undo, Contents
<1>10. ASSUME NEW n \in Nodes, Redo(n)
       PROVE  Entered
  <2>1. /\ n \in Ids /\ plan[n] \in Plans
        /\ undo[n] \in Seq(Plans) /\ redo[n] \in Seq(Plans) /\ redo[n] # <<>>
    BY <1>1, <1>10 DEF Redo, StoreTypeOK, Contents
  <2>2. Last(redo[n]) \in Plans /\ ButLast(redo[n]) \in Seq(Plans)
    BY <2>1, LastType
  <2>3. Bounded(Append(undo[n], plan[n])) \in Seq(Plans)
    BY <2>1, BoundedType
  <2>4. phase' \in {"changed", "failing"}
    BY <1>10 DEF Redo, ProceedIfReadable
  <2> QED  BY <1>10, <2>1, <2>2, <2>3, <2>4 DEF StoreTypeOK, Redo, Contents
<1>11. ASSUME NEW i \in Ids, Delete(i)
       PROVE  Entered
  <2>1. <<>> \in Seq(Plans)
    OBVIOUS
  <2> QED  BY <1>11, <2>1 DEF StoreTypeOK, Delete, Contents
<1>12. ASSUME NEW t \in Tabs, WriteTab(t)
       PROVE  Entered
  BY <1>1, <1>12 DEF StoreTypeOK, WriteTab, Contents
<1> QED
  BY <1>2, <1>3, <1>5, <1>6, <1>7, <1>8, <1>9, <1>10, <1>11, <1>12 DEF Command

-----------------------------------------------------------------------------
(* What the parts of the state know of each other, whatever fails.         *)

\* Who may be in which phase.
PhaseOK ==
  /\ slotState = "closed" => phase = "idle"
  /\ phase \in {"changed", "failing", "restoring"} => slotState = "open"
  /\ phase = "idle" => rollback = {} /\ own = {}

\* A staged generation is the new content, under names of its own; the
\* metadata takes its place at the commit point.
StagedOK ==
  /\ phase \in {"staged", "published", "collecting"} =>
       /\ staging \in Snapshots
       /\ PlanIn(staging) = plan
       /\ \A i \in Ids : staging.files[i] # NoPlan =>
            staging.files[i].id = i /\ staging.files[i].generation = generation
  /\ phase = "staged" => staging.revision = heldRevision + 1
  /\ phase \in {"published", "collecting"} => metadata = staging

\* The metadata names files of earlier generations.
MetadataOK ==
  \A i \in Ids : metadata.files[i] # NoPlan =>
    /\ metadata.files[i].generation <= generation
    /\ phase = "staged" => metadata.files[i].generation < generation

\* The open Workspace holds what is committed.
ShownOK ==
  slotState = "open" /\ phase = "idle" /\ "rollback" \notin errors => plan = PlanIn(metadata)

SInv == StoreTypeOK /\ PhaseOK /\ StagedOK /\ MetadataOK /\ ShownOK

\* The invariant of the store holds at first.
LEMMA InitSInv ==
  ASSUME StoreInit
  PROVE  SInv
<1>1. [i \in Ids |-> NoPlan] \in [Ids -> Files \union {NoPlan}] /\ [i \in Ids |-> NoPlan] \in Contents
  BY DEF Contents
<1>2. NoHistory \in [Ids -> Seq(Plans)]
  BY DEF NoHistory
<1>3. metadata \in Snapshots
  BY <1>1 DEF StoreInit, Snapshots
<1>4. StoreTypeOK
  BY <1>1, <1>2, <1>3 DEF StoreInit, StoreTypeOK
<1>5. PhaseOK /\ StagedOK /\ MetadataOK /\ ShownOK
  BY DEF StoreInit, PhaseOK, StagedOK, MetadataOK, ShownOK
<1> QED  BY <1>4, <1>5 DEF SInv

\* The invariant is kept by a command until it is ready or fails.
LEMMA CommandSInv ==
  ASSUME SInv, Command
  PROVE  SInv'
<1>1. Entered
  BY CommandEnters DEF SInv
<1>2. StoreTypeOK'
  BY <1>1 DEF SInv, StoreTypeOK, Entered, GraphType, Enter
<1>3. PhaseOK' /\ StagedOK' /\ MetadataOK' /\ ShownOK'
  BY <1>1 DEF SInv, Entered, Enter, PhaseOK, StagedOK, MetadataOK, ShownOK
<1> QED  BY <1>2, <1>3 DEF SInv

\* The steps that take the graph or a generation from elsewhere.
LEMMA LoadSInv ==
  ASSUME SInv, Open \/ StartUpSave \/ Stage \/ RestoreSlot
  PROVE  SInv'
<1> USE DEF SInv
<1>1. /\ metadata \in Snapshots /\ metadata.revision \in Nat /\ metadata.revision + 1 \in Nat
      /\ PlanIn(metadata) \in Contents
  BY PlanInType DEF StoreTypeOK, Snapshots
<1>2. CASE Open
  BY <1>1, <1>2 DEF Open, LoadGraph, disk, command, StoreTypeOK, PhaseOK, StagedOK, MetadataOK,
                    ShownOK
<1>3. ASSUME NEW r \in Nat, NEW p \in Contents,
             staging' = Snapshot(r, p), generation' = generation + 1, phase' = "staged",
             plan' = p, r = heldRevision' + 1,
             phase \in {"idle", "changed"}, phase = "changed" => slotState = "open",
             slotState \in {"down", "open"},
             UNCHANGED <<metadata, files, sources, used, slotState, rollback, own, before, undo,
                         redo, unlinking, errors>>, heldRevision' \in Nat
      PROVE  SInv'
  <2>1. /\ staging' \in Snapshots /\ staging'.revision = r /\ PlanIn(staging') = p
        /\ \A i \in Ids : staging'.files[i] # NoPlan =>
             staging'.files[i].id = i /\ staging'.files[i].generation = generation'
    BY <1>3, SnapshotType
  <2>2. StoreTypeOK'
    BY <1>3, <2>1 DEF StoreTypeOK
  <2>3. PhaseOK' /\ ShownOK'
    BY <1>3 DEF PhaseOK, ShownOK
  <2>4. StagedOK'
    BY <1>3, <2>1 DEF StagedOK, PlanIn
  <2>5. MetadataOK'
    <3>1. ASSUME NEW i \in Ids, metadata.files[i] # NoPlan
          PROVE  metadata.files[i].generation \in Nat
      BY <1>1, <3>1 DEF Snapshots, Files
    <3> QED  BY <1>3, <3>1 DEF MetadataOK, StoreTypeOK
  <2> QED  BY <2>2, <2>3, <2>4, <2>5
<1>4. CASE StartUpSave
  BY <1>1, <1>3, <1>4 DEF StartUpSave, LoadGraph
<1>5. CASE Stage
  <2>1. heldRevision \in Nat /\ heldRevision + 1 \in Nat /\ plan \in Contents
    BY DEF StoreTypeOK
  <2> QED  BY <1>3, <1>5, <2>1 DEF Stage, graph, PhaseOK
<1>6. CASE RestoreSlot
  <2>1. undo' \in [Ids -> Seq(Plans)] /\ redo' \in [Ids -> Seq(Plans)]
    <3>1. <<>> \in Seq(Plans)
      OBVIOUS
    <3> QED  BY <1>6, <3>1 DEF RestoreSlot, StoreTypeOK
  <2>2. NoHistory \in [Ids -> Seq(Plans)]
    BY DEF NoHistory
  <2>3. StoreTypeOK'
    BY <1>1, <1>6, <2>1, <2>2 DEF RestoreSlot, LoadGraph, NoCommand, NoHistory, disk, StoreTypeOK
  <2> QED
    BY <1>6, <2>3 DEF RestoreSlot, LoadGraph, NoCommand, disk, PhaseOK, StagedOK, MetadataOK,
                      ShownOK
<1> QED  BY <1>2, <1>4, <1>5, <1>6

\* The steps that forget the command in progress or the graph.
LEMMA ForgetSInv ==
  ASSUME SInv,
         \/ CloseSlot \/ Crash \/ FinishStartUp \/ DiscardStartUp \/ RestoreFails
         \/ Finish \/ RollbackFails
  PROVE  SInv'
<1> USE DEF SInv
<1>1. NoHistory \in [Ids -> Seq(Plans)] /\ [i \in Ids |-> NoPlan] \in Contents
  BY DEF NoHistory, Contents
<1>2. CASE CloseSlot
  BY <1>1, <1>2 DEF CloseSlot, ForgetGraph, disk, command, StoreTypeOK, PhaseOK, StagedOK, MetadataOK,
                    ShownOK
<1>3. CASE Crash
  BY <1>1, <1>3 DEF Crash, ForgetGraph, NoCommand, NoHistory, StoreTypeOK, PhaseOK, StagedOK,
                    MetadataOK, ShownOK
<1>4. CASE FinishStartUp
  BY <1>1, <1>4 DEF FinishStartUp, ForgetGraph, NoCommand, NoHistory, StoreTypeOK, PhaseOK, StagedOK,
                    MetadataOK, ShownOK
<1>5. CASE DiscardStartUp
  BY <1>1, <1>5 DEF DiscardStartUp, ForgetGraph, NoCommand, NoHistory, StoreTypeOK, PhaseOK, StagedOK,
                    MetadataOK, ShownOK
<1>6. CASE RestoreFails
  BY <1>1, <1>6 DEF RestoreFails, ForgetGraph, NoCommand, NoHistory, disk, StoreTypeOK, PhaseOK,
                    StagedOK, MetadataOK, ShownOK
<1>7. CASE Finish
  <2>1. metadata.revision \in Nat
    BY DEF StoreTypeOK, Snapshots
  <2> QED
    BY <1>1, <1>7, <2>1 DEF Finish, NoCommand, NoHistory, graph, StoreTypeOK, PhaseOK, StagedOK,
                            MetadataOK, ShownOK
<1>8. CASE RollbackFails
  BY <1>1, <1>8 DEF RollbackFails, NoCommand, NoHistory, graph, StoreTypeOK, PhaseOK, StagedOK,
                    MetadataOK, ShownOK
<1> QED  BY <1>2, <1>3, <1>4, <1>5, <1>6, <1>7, <1>8

\* The other steps, which leave the graph alone.
LEMMA DiskSInv ==
  ASSUME SInv,
         \/ StartUp \/ Refuse \/ Abandon \/ PublishMetadata \/ Flush \/ LateFailure \/ Rollback
         \/ \E f \in FilesOf(staging) : Move(f)
         \/ \E f \in files : CollectFile(f)
         \/ \E s \in sources : CollectSource(s)
         \/ \E s \in unlinking : Unlink(s)
         \/ UNCHANGED storeVars
  PROVE  SInv'
<1> USE DEF SInv
<1>1. metadata \in Snapshots /\ metadata.revision \in Nat
  BY DEF StoreTypeOK, Snapshots
<1>2. CASE StartUp
  BY <1>2 DEF StartUp, disk, graph, command, StoreTypeOK, PhaseOK, StagedOK, MetadataOK, ShownOK
<1>3. CASE Refuse \/ Abandon \/ Flush
  BY <1>3, ZenonT(60) DEF Refuse, Abandon, Flush, disk, graph, StoreTypeOK, PhaseOK, StagedOK,
     MetadataOK,
              ShownOK
<1>4. CASE PublishMetadata
  <2>1. /\ staging \in Snapshots /\ metadata' = staging /\ staging' = staging
        /\ plan' = plan /\ PlanIn(staging) = plan /\ phase' = "published"
        /\ \A i \in Ids : staging.files[i] # NoPlan =>
             staging.files[i].id = i /\ staging.files[i].generation = generation
    BY <1>4 DEF PublishMetadata, graph, StagedOK
  <2>2. StoreTypeOK'
    BY <1>4, <2>1 DEF PublishMetadata, graph, StoreTypeOK
  <2>3. StagedOK'
    BY <1>4, <2>1 DEF PublishMetadata, StagedOK
  <2>4. MetadataOK'
    BY <1>4, <2>1 DEF PublishMetadata, MetadataOK, StoreTypeOK
  <2>5. PhaseOK' /\ ShownOK'
    BY <1>4 DEF PublishMetadata, PhaseOK, ShownOK
  <2> QED  BY <2>2, <2>3, <2>4, <2>5
<1>5. CASE LateFailure
  BY <1>1, <1>5 DEF LateFailure, disk, graph, StoreTypeOK, PhaseOK, StagedOK, MetadataOK, ShownOK
<1>6. CASE Rollback
  BY <1>6 DEF Rollback, graph, StoreTypeOK, PhaseOK, StagedOK, MetadataOK, ShownOK
<1>7. ASSUME NEW f \in FilesOf(staging), Move(f)
      PROVE  SInv'
  <2>1. f \in Files
    <3>1. staging \in Snapshots
      BY <1>7 DEF Move, StagedOK
    <3> QED  BY <3>1 DEF FilesOf, Snapshots
  <2> QED
    BY <1>7, <2>1 DEF Move, graph, command, StoreTypeOK, PhaseOK, StagedOK, MetadataOK, ShownOK
<1>8. CASE \E f \in files : CollectFile(f)
  BY <1>8 DEF CollectFile, graph, command, StoreTypeOK, PhaseOK, StagedOK, MetadataOK, ShownOK
<1>9. CASE \E s \in sources : CollectSource(s)
  BY <1>9 DEF CollectSource, graph, command, StoreTypeOK, PhaseOK, StagedOK, MetadataOK, ShownOK
<1>10. CASE \E s \in unlinking : Unlink(s)
  BY <1>10 DEF Unlink, graph, command, StoreTypeOK, PhaseOK, StagedOK, MetadataOK, ShownOK
<1>11. CASE UNCHANGED storeVars
  BY <1>11 DEF storeVars, disk, graph, command, StoreTypeOK, PhaseOK, StagedOK, MetadataOK, ShownOK
<1> QED  BY <1>2, <1>3, <1>4, <1>5, <1>6, <1>7, <1>8, <1>9, <1>10, <1>11

\* Every step keeps it.
LEMMA StepSInv ==
  ASSUME SInv, [StoreNext]_storeVars
  PROVE  SInv'
BY CommandSInv, LoadSInv, ForgetSInv, DiskSInv DEF StoreNext, Persist, Recover

\* The parts of the state agree, whatever fails when.
THEOREM StoreInvariance == StoreSpec => []SInv
<1>1. StoreInit => SInv
  BY InitSInv
<1>2. SInv /\ [StoreNext]_storeVars => SInv'
  BY StepSInv
<1> QED  BY <1>1, <1>2, PTL DEF StoreSpec

\* Every part of the Workspace keeps its type.
THEOREM StoreTypes == StoreSpec => []StoreTypeOK
<1>1. SInv => StoreTypeOK
  BY DEF SInv
<1> QED  BY <1>1, StoreInvariance, PTL

-----------------------------------------------------------------------------
(* Commits and the abstract Workspace.                                     *)

\* A command does not touch what is committed.
LEMMA OnlyPublishingCommits ==
  ASSUME SInv, [StoreNext]_storeVars, metadata' # metadata
  PROVE  PublishMetadata
<1>1. ASSUME Command
      PROVE  metadata' = metadata
  BY <1>1, CommandEnters DEF SInv, Entered, Enter
<1>2. ASSUME Open \/ CloseSlot \/ Crash \/ StartUp \/ StartUpSave
      PROVE  metadata' = metadata
  BY <1>2 DEF Open, CloseSlot, Crash, StartUp, StartUpSave, disk
<1>3. ASSUME Persist, ~PublishMetadata
      PROVE  metadata' = metadata
  BY <1>3 DEF Persist, Refuse, Stage, Abandon, Flush, Finish, FinishStartUp, Move, CollectFile,
              CollectSource, disk
<1>4. ASSUME Recover
      PROVE  metadata' = metadata
  BY <1>4 DEF Recover, LateFailure, DiscardStartUp, Rollback, RollbackFails, RestoreSlot,
              RestoreFails, Unlink, disk
<1>5. ASSUME UNCHANGED storeVars
      PROVE  metadata' = metadata
  BY <1>5 DEF storeVars, disk
<1> QED  BY <1>1, <1>2, <1>3, <1>4, <1>5 DEF StoreNext

\* No revision is committed twice or skipped: commit_staged compares the slot's
\* revision with the one on disk, and the staged one is its successor.
THEOREM RevisionsAdvanceByOne == StoreSpec => OneCommitPerRevision
<1>1. ASSUME SInv, [StoreNext]_storeVars
      PROVE  [metadata' # metadata => metadata'.revision = metadata.revision + 1]_storeVars
  <2>1. ASSUME PublishMetadata
        PROVE  metadata'.revision = metadata.revision + 1
    BY <1>1, <2>1 DEF SInv, StagedOK, PublishMetadata, RevisionMatches
  <2> QED  BY <1>1, <2>1, OnlyPublishingCommits
<1> QED  BY <1>1, StoreInvariance, PTL DEF StoreSpec, OneCommitPerRevision

\* The refinement mapping of WorkspaceStore.
pendingContent == IF phase \in {"changed", "staged"} THEN plan ELSE NoPlan
shownContent ==
  IF slotState = "open" /\ phase = "idle" /\ "rollback" \notin errors THEN plan ELSE NoPlan

\* Every step is a step of the abstract Workspace or changes nothing of it.
LEMMA StepIsAtomic ==
  ASSUME SInv, [StoreNext]_storeVars, SInv'
  PROVE  [Atomic!Next]_(Atomic!vars)
<1> USE DEF Atomic!vars, Atomic!Next, pendingContent, shownContent, SInv
<1>1. plan # NoPlan /\ plan \in Contents /\ plan' \in Contents /\ PlanIn(metadata) # NoPlan
  BY NoPlanIsNone, PlanInType DEF StoreTypeOK
<1>2. ASSUME metadata' = metadata
      PROVE  PlanIn(metadata)' = PlanIn(metadata)
  BY <1>2 DEF PlanIn
<1>3. CASE Command
  <2>1. Enter /\ phase' \in {"changed", "failing"}
    BY <1>3, CommandEnters DEF Entered
  <2>2. /\ metadata' = metadata /\ phase = "idle" /\ slotState' = slotState /\ errors' = errors
    BY <2>1 DEF Enter
  <2>3. CASE phase' = "changed"
    BY <1>1, <1>2, <2>2, <2>3 DEF Atomic!Begin
  <2>4. CASE phase' = "failing"
    BY <1>1, <1>2, <2>2, <2>4 DEF Atomic!Abandon
  <2> QED  BY <2>1, <2>3, <2>4
<1>4. CASE Open
  <2>1. metadata' = metadata /\ phase = "idle" /\ phase' = phase /\ slotState = "closed"
        /\ plan' = PlanIn(metadata) /\ slotState' = "open" /\ errors' = errors
    BY <1>4 DEF Open, disk, command, LoadGraph, PhaseOK
  <2> QED  BY <1>2, <2>1 DEF Atomic!Show
<1>5. CASE CloseSlot \/ Crash
  BY <1>2, <1>5 DEF CloseSlot, Crash, disk, command, NoCommand, Atomic!Abandon
<1>6. CASE StartUp \/ FinishStartUp
  BY <1>2, <1>6 DEF StartUp, FinishStartUp, disk, command, NoCommand
<1>7. CASE StartUpSave
  <2>1. phase = "idle" /\ phase' = "staged" /\ slotState = "down" /\ slotState' = "down" /\ metadata' = metadata
    BY <1>7 DEF StartUpSave
  <2> QED  BY <1>1, <1>2, <2>1 DEF Atomic!Begin
<1>8. CASE Refuse \/ Abandon
  BY <1>2, <1>8 DEF Refuse, Abandon, disk, Atomic!Abandon
<1>9. CASE Stage
  BY <1>2, <1>9 DEF Stage, graph
<1>10. CASE PublishMetadata
  <2>1. /\ phase = "staged" /\ phase' = "published" /\ metadata' = staging /\ plan' = plan
        /\ slotState' = slotState /\ errors' = errors /\ PlanIn(staging) = plan
    BY <1>10 DEF PublishMetadata, graph, StagedOK
  <2>2. PlanIn(metadata)' = plan
    BY <2>1 DEF PlanIn
  <2> QED  BY <1>1, <2>1, <2>2 DEF Atomic!Commit
<1>11. CASE Flush \/ LateFailure \/ Rollback \/ RollbackFails \/ RestoreFails
  BY <1>2, <1>11 DEF Flush, LateFailure, Rollback, RollbackFails, RestoreFails, NoCommand, disk
<1>12. CASE \/ \E f \in FilesOf(staging) : Move(f)
            \/ \E f \in files : CollectFile(f)
            \/ \E s \in sources : CollectSource(s)
            \/ \E s \in unlinking : Unlink(s)
            \/ UNCHANGED storeVars
  <2>1. UNCHANGED <<metadata, phase, slotState, plan, errors>>
    BY <1>12 DEF Move, CollectFile, CollectSource, Unlink, storeVars, disk, graph, command
  <2> QED  BY <1>2, <2>1
<1>13. CASE Finish
  <2>1. /\ phase = "collecting" /\ phase' = "idle" /\ metadata' = metadata /\ plan' = plan
        /\ slotState' = slotState /\ errors' = errors /\ PlanIn(metadata) = plan
    BY <1>13 DEF Finish, NoCommand, graph, StagedOK
  <2> QED  BY <1>2, <2>1 DEF Atomic!Show
<1>14. CASE DiscardStartUp
  <2>1. metadata' = metadata /\ phase' = "idle" /\ slotState' = "closed" /\ slotState = "down"
    BY <1>14 DEF DiscardStartUp, NoCommand
  <2> QED  BY <1>2, <2>1 DEF Atomic!Abandon
<1>15. CASE RestoreSlot
  <2>1. /\ phase = "restoring" /\ phase' = "idle" /\ metadata' = metadata
        /\ plan' = PlanIn(metadata) /\ slotState' = slotState /\ errors' = errors
    BY <1>15 DEF RestoreSlot, NoCommand, disk, LoadGraph
  <2> QED  BY <1>2, <2>1 DEF Atomic!Show
<1> QED
  BY <1>3, <1>4, <1>5, <1>6, <1>7, <1>8, <1>9, <1>10, <1>11, <1>12, <1>13, <1>14, <1>15
     DEF StoreNext, Persist, Recover

\* A Workspace changes as a whole or not at all, and an open Workspace that no
\* command is changing shows what is committed: the store with its staging,
\* collection, rollback and restoration implements one value.
THEOREM StoreIsAtomic == StoreSpec => ImplementsAtomic
<1>1. StoreInit => Atomic!Init
  BY DEF StoreInit, Atomic!Init, PlanIn
<1>2. SInv /\ [StoreNext]_storeVars /\ SInv' => [Atomic!Next]_(Atomic!vars)
  BY StepIsAtomic
<1> QED  BY <1>1, <1>2, StoreInvariance, PTL DEF StoreSpec, ImplementsAtomic, Atomic!Spec

-----------------------------------------------------------------------------
(* The committed snapshot loads.                                           *)

\* Plans that scan only members of S, and histories of such plans.
Over(S) == [scan : SUBSET (Sources \intersect S), made : Nat]
Histories(S) ==
  /\ undo \in [Ids -> Seq(Over(S))] /\ redo \in [Ids -> Seq(Over(S))]
  /\ before \in [undo : [Ids -> Seq(Over(S))], redo : [Ids -> Seq(Over(S))]]

\* Until a step after the commit point or a rollback fails: the committed
\* snapshot loads; files that a failed command removes or unlinks were in no
\* plan before it; and a command that persists scans files that are there.
Safe ==
  /\ Intact(FilesOf(metadata))
  /\ own \union unlinking \subseteq used
  /\ CommittedSources \subseteq used \ unlinking
  /\ phase \in {"changed", "staged", "failing", "restoring"} =>
       CommittedSources \intersect (rollback \union own) = {}
  /\ Scanned(plan) \subseteq used \ unlinking
  /\ phase \in {"changed", "staged"} => Scanned(plan) \subseteq sources
  /\ Histories(used \ (own \union unlinking))

SafeInv == errors = {} => Safe

\* A plan of a content that scans members of S.
LEMMA PlanOver ==
  ASSUME NEW p \in Contents, NEW S, Scanned(p) \subseteq S, NEW i \in Ids, p[i] # NoPlan
  PROVE  p[i] \in Over(S)
<1>1. p[i].scan \subseteq S
  BY DEF Scanned
<1> QED  BY <1>1 DEF Contents, Plans, Over

\* What a content scans after one plan of it is replaced.
LEMMA ScannedExcept ==
  ASSUME NEW p \in Contents, NEW i \in Ids, NEW q \in Plans
  PROVE  Scanned([p EXCEPT ![i] = q]) \subseteq Scanned(p) \union q.scan
  BY DEF Scanned, Contents

\* And after one is removed.
LEMMA ScannedWithout ==
  ASSUME NEW p \in Contents, NEW i \in Ids
  PROVE  Scanned([p EXCEPT ![i] = NoPlan]) \subseteq Scanned(p)
  BY DEF Scanned, Contents

\* Histories of some plans are histories of more.
LEMMA HistoriesGrow ==
  ASSUME NEW S, NEW T, S \subseteq T, NEW h \in [Ids -> Seq(Over(S))]
  PROVE  h \in [Ids -> Seq(Over(T))]
<1>1. Seq(Over(S)) \subseteq Seq(Over(T))
  <2>1. Over(S) \subseteq Over(T)
    BY DEF Over
  <2> QED  BY <2>1, SeqGrows
<1> QED  BY <1>1

\* Before a command the open Workspace holds what is committed, and all of it
\* can be read.
LEMMA IdleIsCommitted ==
  ASSUME SInv, Safe, errors = {}, slotState = "open", phase = "idle"
  PROVE  /\ Scanned(plan) = CommittedSources /\ CommittedSources \subseteq sources
         /\ rollback = {} /\ own = {}
         /\ Histories(used \ unlinking)
<1>1. metadata \in Snapshots /\ rollback = {} /\ own = {} /\ plan = PlanIn(metadata)
  BY DEF SInv, StoreTypeOK, PhaseOK, ShownOK
<1>2. SourcesOf(FilesOf(metadata)) = CommittedSources
  BY <1>1, SourcesAreScanned DEF CommittedSources
<1>3. CommittedSources \subseteq sources
  BY <1>2 DEF Safe, Intact
<1>4. used \ (own \union unlinking) = used \ unlinking
  BY <1>1
<1> QED  BY <1>1, <1>3, <1>4 DEF Safe, CommittedSources

\* What a command prepares: its new files were in no plan, and unless it fails
\* every file it scans is there.
Prepared ==
  /\ used \subseteq used' /\ sources \subseteq sources'
  /\ own' \subseteq used' \ used /\ rollback' \intersect used = {}
  /\ Scanned(plan') \subseteq used' \ unlinking
  /\ phase' = "changed" => Scanned(plan') \subseteq sources'
  /\ undo' \in [Ids -> Seq(Over(used \ unlinking))]
  /\ redo' \in [Ids -> Seq(Over(used \ unlinking))]

\* A command scans no file that is being unlinked, and files that exist if it
\* has changed the graph.
LEMMA CommandPrepares ==
  ASSUME SInv, Safe, errors = {}, Command
  PROVE  Prepared
<1> DEFINE kept == used \ unlinking
           history == [Ids -> Seq(Over(kept))]
<1>1. slotState = "open" /\ phase = "idle"
  BY CommandEnters DEF SInv, Entered, Enter
<1>2. /\ Scanned(plan) \subseteq kept /\ Scanned(plan) \subseteq sources
      /\ rollback = {} /\ own = {} /\ unlinking \subseteq used
      /\ undo \in history /\ redo \in history
  BY <1>1, IdleIsCommitted DEF Safe, Histories
<1>3. /\ plan \in Contents /\ used \subseteq Nodes \union Sources
      /\ \A S \in SUBSET Sources : Scanning(S) \in Plans /\ Scanning(S).scan = S
      /\ Nodes \subseteq Ids /\ Tabs \subseteq Ids
      /\ \A S : Over(S) \subseteq Plans
      /\ \A S : \A p \in Over(S) : p.scan \subseteq S
  BY DEF SInv, StoreTypeOK, Scanning, Plans, Over, Ids
<1>4. ASSUME NEW n \in Nodes, plan[n] # NoPlan
      PROVE  /\ plan[n] \in Over(kept) /\ plan[n] \in Plans
             /\ plan[n].scan \subseteq kept /\ plan[n].scan \subseteq sources
             /\ n \in Ids
  <2>1. n \in Ids /\ plan[n] \in Over(kept) /\ plan[n] \in Over(sources)
    BY <1>2, <1>3, <1>4, PlanOver
  <2> QED  BY <1>3, <2>1
<1>5. ASSUME NEW n \in Nodes, NEW q \in Plans, plan[n] # NoPlan, SetData(n, q)
      PROVE  undo' \in history /\ redo' \in history
  <2>1. Bounded(Append(undo[n], plan[n])) \in Seq(Over(kept))
    BY <1>2, <1>4, <1>5, BoundedType
  <2>2. <<>> \in Seq(Over(kept))
    OBVIOUS
  <2> QED  BY <1>2, <1>5, <2>1, <2>2 DEF SetData
<1> HIDE DEF history
<1>6. ASSUME NEW n \in Nodes, NEW f \in Sources, Import(n, f) \/ PublishBlock(n, f)
      PROVE  Prepared
  <2>1. plan' = [plan EXCEPT ![n] = Scanning({f})] /\ f \notin used
        /\ used' = used \union {n, f} /\ sources' = sources \union {f}
    BY <1>6 DEF Import, PublishBlock, WriteSource
  <2>2. Scanned(plan') \subseteq Scanned(plan) \union {f}
    BY <1>3, <2>1, ScannedExcept
  <2>3. own' \subseteq {f} /\ rollback' \subseteq {f} /\ undo' = undo /\ redo' = redo
    BY <1>2, <1>6 DEF Import, PublishBlock
  <2> QED  BY <1>2, <2>1, <2>2, <2>3 DEF Prepared, history
<1>7. ASSUME NEW n \in Nodes, NEW f \in Sources, PublishAnnotation(n, f)
      PROVE  Prepared
  <2>1. plan[n] # NoPlan /\ f \notin used /\ SetData(n, Scanning({f}))
        /\ used' = used \union {f} /\ sources' = sources \union {f}
        /\ own' = own /\ rollback' = {f} /\ plan' = [plan EXCEPT ![n] = Scanning({f})]
    BY <1>7 DEF PublishAnnotation, WriteSource, SetData
  <2>2. Scanned(plan') \subseteq Scanned(plan) \union {f}
    BY <1>3, <2>1, ScannedExcept
  <2>3. undo' \in history /\ redo' \in history
    BY <1>3, <1>5, <2>1
  <2> QED  BY <1>2, <2>1, <2>2, <2>3 DEF Prepared, history
<1>8. ASSUME NEW f \in Sources, ImportFails(f)
      PROVE  Prepared
  BY <1>2, <1>8 DEF ImportFails, WriteSource, graph, Prepared, history
<1>9. ASSUME NEW n \in Ids, NEW q \in Plans, plan' = [plan EXCEPT ![n] = q],
             q.scan \subseteq kept, ProceedIfReadable(q), used \subseteq used',
             UNCHANGED <<sources, rollback, own>>, undo' \in history, redo' \in history
      PROVE  Prepared
  <2>1. Scanned(plan') \subseteq Scanned(plan) \union q.scan
    BY <1>3, <1>9, ScannedExcept
  <2>2. phase' = "changed" => q.scan \subseteq sources
    BY <1>9 DEF ProceedIfReadable
  <2> QED  BY <1>2, <1>9, <2>1, <2>2 DEF Prepared, history
<1>10. ASSUME NEW n \in Nodes, NEW parents \in SUBSET Nodes, Derive(n, parents)
       PROVE  Prepared
  <2> DEFINE read == UNION {plan[m].scan : m \in parents}
  <2>1. \A m \in parents : plan[m] \in Plans /\ plan[m].scan \subseteq kept
    BY <1>4, <1>10 DEF Derive
  <2>2. read \subseteq kept /\ read \in SUBSET Sources
    BY <2>1 DEF Plans
  <2> HIDE DEF read
  <2>3. Scanning(read) \in Plans /\ Scanning(read).scan = read
    BY <1>3, <2>2
  <2>4. plan' = [plan EXCEPT ![n] = Scanning(read)] /\ ProceedIfReadable(Scanning(read))
    BY <1>10 DEF Derive, read
  <2>5. used' = used \union {n} /\ UNCHANGED <<sources, undo, redo, rollback, own>>
    BY <1>10 DEF Derive
  <2> QED  BY <1>2, <1>3, <1>9, <2>2, <2>3, <2>4, <2>5
<1>11. ASSUME NEW n \in Nodes, Edit(n)
       PROVE  Prepared
  <2> DEFINE q == Scanning(plan[n].scan)
  <2>1. plan[n] # NoPlan /\ SetData(n, q) /\ ProceedIfReadable(q)
        /\ UNCHANGED <<sources, used, rollback, own>>
    BY <1>11 DEF Edit
  <2>2. plan[n].scan \in SUBSET Sources
    BY <1>4, <2>1 DEF Plans
  <2>3. q \in Plans /\ q.scan \subseteq kept
    BY <1>3, <1>4, <2>1, <2>2
  <2> HIDE DEF q
  <2>4. undo' \in history /\ redo' \in history /\ plan' = [plan EXCEPT ![n] = q]
    BY <1>5, <2>1, <2>3 DEF SetData
  <2> QED  BY <1>3, <1>9, <2>1, <2>3, <2>4
<1>12. ASSUME NEW n \in Nodes, Undo(n)
       PROVE  Prepared
  <2>1. /\ plan[n] # NoPlan /\ undo[n] # <<>>
        /\ undo[n] \in Seq(Over(kept)) /\ redo[n] \in Seq(Over(kept))
    BY <1>2, <1>3, <1>12 DEF Undo, history
  <2>2. Last(undo[n]) \in Over(kept) /\ ButLast(undo[n]) \in Seq(Over(kept))
    BY <2>1, LastType
  <2>3. Bounded(Append(redo[n], plan[n])) \in Seq(Over(kept))
    BY <1>4, <2>1, BoundedType
  <2>4. undo' \in history /\ redo' \in history
    BY <1>2, <1>12, <2>2, <2>3 DEF Undo, history
  <2>5. /\ plan' = [plan EXCEPT ![n] = Last(undo[n])] /\ ProceedIfReadable(Last(undo[n]))
        /\ UNCHANGED <<sources, used, rollback, own>>
    BY <1>12 DEF Undo
  <2>6. Last(undo[n]) \in Plans /\ Last(undo[n]).scan \subseteq kept
    BY <1>3, <2>2
  <2> QED  BY <1>3, <1>9, <2>4, <2>5, <2>6
<1>13. ASSUME NEW n \in Nodes, Redo(n)
       PROVE  Prepared
  <2>1. /\ plan[n] # NoPlan /\ redo[n] # <<>>
        /\ undo[n] \in Seq(Over(kept)) /\ redo[n] \in Seq(Over(kept))
    BY <1>2, <1>3, <1>13 DEF Redo, history
  <2>2. Last(redo[n]) \in Over(kept) /\ ButLast(redo[n]) \in Seq(Over(kept))
    BY <2>1, LastType
  <2>3. Bounded(Append(undo[n], plan[n])) \in Seq(Over(kept))
    BY <1>4, <2>1, BoundedType
  <2>4. undo' \in history /\ redo' \in history
    BY <1>2, <1>13, <2>2, <2>3 DEF Redo, history
  <2>5. /\ plan' = [plan EXCEPT ![n] = Last(redo[n])] /\ ProceedIfReadable(Last(redo[n]))
        /\ UNCHANGED <<sources, used, rollback, own>>
    BY <1>13 DEF Redo
  <2>6. Last(redo[n]) \in Plans /\ Last(redo[n]).scan \subseteq kept
    BY <1>3, <2>2
  <2> QED  BY <1>3, <1>9, <2>4, <2>5, <2>6
<1>14. ASSUME NEW i \in Ids, Delete(i)
       PROVE  Prepared
  <2>1. /\ plan' = [plan EXCEPT ![i] = NoPlan]
        /\ UNCHANGED <<sources, used, rollback, own>>
        /\ undo' = [undo EXCEPT ![i] = <<>>] /\ redo' = [redo EXCEPT ![i] = <<>>]
    BY <1>14 DEF Delete
  <2>2. Scanned(plan') \subseteq Scanned(plan)
    BY <1>3, <2>1, ScannedWithout
  <2>3. <<>> \in Seq(Over(kept))
    OBVIOUS
  <2>4. undo' \in history /\ redo' \in history
    BY <1>2, <2>1, <2>3 DEF history
  <2> QED  BY <1>2, <2>1, <2>2, <2>4 DEF Prepared, history
<1>15. ASSUME NEW t \in Tabs, WriteTab(t)
       PROVE  Prepared
  <2>1. plan' = [plan EXCEPT ![t] = Scanning({})]
        /\ UNCHANGED <<sources, used, undo, redo, rollback, own>>
    BY <1>15 DEF WriteTab
  <2>2. Scanned(plan') \subseteq Scanned(plan) \union {}
    BY <1>3, <2>1, ScannedExcept
  <2> QED  BY <1>2, <2>1, <2>2 DEF Prepared, history
<1> QED
  BY <1>6, <1>7, <1>8, <1>10, <1>11, <1>12, <1>13, <1>14, <1>15 DEF Command

\* So every command keeps the committed snapshot safe.
LEMMA CommandSafe ==
  ASSUME SInv, Safe, errors = {}, Command
  PROVE  Safe'
<1>1. Prepared /\ Enter
  BY CommandPrepares, CommandEnters DEF SInv, Entered
<1>2. slotState = "open" /\ phase = "idle" /\ metadata' = metadata /\ files' = files
      /\ unlinking' = unlinking /\ before' = [undo |-> undo, redo |-> redo]
  BY <1>1 DEF Enter
<1>3. CommittedSources' = CommittedSources /\ FilesOf(metadata') = FilesOf(metadata)
  BY <1>2 DEF CommittedSources, Scanned, PlanIn
<1>4. Intact(FilesOf(metadata))'
  BY <1>1, <1>2, <1>3 DEF Safe, Intact, Prepared
<1>5. Histories(used \ unlinking) /\ CommittedSources \subseteq used \ unlinking
  BY <1>2, IdleIsCommitted DEF Safe
<1>6. used \ unlinking \subseteq used' \ (own' \union unlinking')
  BY <1>1, <1>2 DEF Prepared
<1>7. \A h \in [Ids -> Seq(Over(used \ unlinking))] :
        h \in [Ids -> Seq(Over(used' \ (own' \union unlinking')))]
  BY <1>6, HistoriesGrow
<1>8. Histories(used \ (own \union unlinking))'
  BY <1>1, <1>2, <1>5, <1>7 DEF Histories, Prepared
<1>9. CommittedSources' \intersect (rollback' \union own') = {}
  BY <1>1, <1>3, <1>5 DEF Prepared
<1>10. own' \union unlinking' \subseteq used' /\ CommittedSources' \subseteq used' \ unlinking'
  BY <1>1, <1>2, <1>3, <1>5 DEF Prepared, Safe
<1> QED  BY <1>1, <1>2, <1>4, <1>8, <1>9, <1>10, CommandEnters DEF Safe, Prepared, SInv, Entered

\* The parts of Safe that speak of what is on disk and of who may remove it.
LEMMA DiskSafe ==
  ASSUME Safe, metadata' = metadata, used' = used, plan' = plan,
         own' = own, unlinking' \subseteq unlinking,
         rollback' \subseteq rollback,
         FilesOf(metadata) \subseteq files', CommittedSources \subseteq sources',
         metadata \in Snapshots,
         UNCHANGED <<undo, redo, before>>,
         phase' \in {"changed", "staged", "failing", "restoring"} =>
           phase \in {"changed", "staged", "failing", "restoring"},
         phase' \in {"changed", "staged"} =>
           phase \in {"changed", "staged"} /\ Scanned(plan) \subseteq sources'
  PROVE  Safe'
<1>1. CommittedSources' = CommittedSources /\ FilesOf(metadata') = FilesOf(metadata)
      /\ SourcesOf(FilesOf(metadata)) = CommittedSources
  BY SourcesAreScanned DEF CommittedSources, PlanIn, Scanned
<1>2. Intact(FilesOf(metadata))'
  BY <1>1 DEF Intact
<1>3. used \ (own \union unlinking) \subseteq used' \ (own' \union unlinking')
  OBVIOUS
<1>4. \A h \in [Ids -> Seq(Over(used \ (own \union unlinking)))] :
        h \in [Ids -> Seq(Over(used' \ (own' \union unlinking')))]
  BY <1>3, HistoriesGrow
<1>5. Histories(used \ (own \union unlinking))'
  BY <1>4 DEF Safe, Histories
<1>6. Scanned(plan)' = Scanned(plan)
  BY DEF Scanned
<1> QED  BY <1>1, <1>2, <1>5, <1>6 DEF Safe

\* No command is in progress any more: its histories and its import's file are
\* forgotten, and what it left to unlink is in no committed plan.
LEMMA IdleSafe ==
  ASSUME Safe, metadata' = metadata, metadata \in Snapshots, used' = used,
         phase' = "idle", own' = {}, before' = [undo |-> NoHistory, redo |-> NoHistory],
         unlinking' \subseteq unlinking \union own,
         CommittedSources \intersect unlinking' = {},
         FilesOf(metadata) \subseteq files', CommittedSources \subseteq sources',
         Scanned(plan)' \subseteq used \ unlinking',
         undo' \in [Ids -> Seq(Over(used \ (own \union unlinking)))],
         redo' \in [Ids -> Seq(Over(used \ (own \union unlinking)))]
  PROVE  Safe'
<1>1. CommittedSources' = CommittedSources /\ FilesOf(metadata') = FilesOf(metadata)
      /\ SourcesOf(FilesOf(metadata)) = CommittedSources
  BY SourcesAreScanned DEF CommittedSources, PlanIn, Scanned
<1>2. Intact(FilesOf(metadata))'
  BY <1>1 DEF Intact
<1>3. used \ (own \union unlinking) \subseteq used' \ (own' \union unlinking')
  OBVIOUS
<1>4. \A h \in [Ids -> Seq(Over(used \ (own \union unlinking)))] :
        h \in [Ids -> Seq(Over(used' \ (own' \union unlinking')))]
  BY <1>3, HistoriesGrow
<1>5. NoHistory \in [Ids -> Seq(Over(used' \ (own' \union unlinking')))]
  BY DEF NoHistory
<1>6. Histories(used \ (own \union unlinking))'
  BY <1>4, <1>5 DEF Histories
<1> QED  BY <1>1, <1>2, <1>6 DEF Safe

\* The steps that end a command or begin without one.
LEMMA EndSafe ==
  ASSUME SInv, Safe, errors = {}, errors' = {},
         \/ CloseSlot \/ Crash \/ Finish \/ FinishStartUp \/ DiscardStartUp \/ RestoreFails \/ RestoreSlot
         \/ RollbackFails
  PROVE  Safe'
<1> DEFINE H == [Ids -> Seq(Over(used \ (own \union unlinking)))]
           nothing == [i \in Ids |-> NoPlan]
<1>1. metadata \in Snapshots /\ SourcesOf(FilesOf(metadata)) = CommittedSources
  BY SourcesAreScanned DEF CommittedSources, SInv, StoreTypeOK
<1>2. /\ FilesOf(metadata) \subseteq files /\ CommittedSources \subseteq sources
      /\ CommittedSources \subseteq used \ unlinking /\ own \union unlinking \subseteq used
      /\ undo \in H /\ redo \in H /\ before \in [undo : H, redo : H]
  BY <1>1 DEF Safe, Intact, Histories
<1>3. NoHistory \in H /\ Scanned(nothing) = {}
  BY DEF NoHistory, Scanned
<1> HIDE DEF H, nothing
<1>4. ASSUME ForgetGraph
      PROVE  Scanned(plan)' = {} /\ undo' \in H /\ redo' \in H
  <2>1. Scanned(plan)' = Scanned(nothing)
    BY <1>4 DEF ForgetGraph, Scanned, nothing
  <2> QED  BY <1>3, <1>4, <2>1 DEF ForgetGraph
<1>5. CASE CloseSlot
  <2>1. own = {} /\ own' = {} /\ before' = before /\ phase' = "idle" /\ unlinking' = unlinking
        /\ ForgetGraph /\ UNCHANGED disk
    BY <1>5 DEF CloseSlot, command, SInv, PhaseOK
  <2>2. CommittedSources' = CommittedSources /\ FilesOf(metadata') = FilesOf(metadata) /\ Intact(FilesOf(metadata))'
    BY <2>1 DEF CommittedSources, PlanIn, Scanned, disk, Safe, Intact
  <2>3. Histories(used \ (own \union unlinking))'
    BY <1>2, <1>4, <2>1 DEF Histories, H, disk
  <2> QED  BY <1>2, <1>4, <2>1, <2>2, <2>3 DEF Safe, disk
<1>6. CASE Crash
  <2>1. /\ metadata' = metadata /\ used' = used /\ phase' = "idle" /\ own' = {}
        /\ before' = [undo |-> NoHistory, redo |-> NoHistory] /\ unlinking' = {}
        /\ files' = files /\ sources' = sources /\ ForgetGraph
    BY <1>6 DEF Crash, NoCommand
  <2> QED  BY <1>1, <1>2, <1>4, <2>1, IdleSafe DEF H
<1>7. CASE FinishStartUp
  <2>1. /\ metadata' = metadata /\ used' = used /\ phase' = "idle" /\ own' = {}
        /\ before' = [undo |-> NoHistory, redo |-> NoHistory] /\ unlinking' = unlinking
        /\ files' = files /\ sources' = sources /\ ForgetGraph
    BY <1>7 DEF FinishStartUp, NoCommand
  <2> QED  BY <1>1, <1>2, <1>4, <2>1, IdleSafe DEF H
<1>8. CASE Finish
  <2>1. /\ metadata' = metadata /\ used' = used /\ phase' = "idle" /\ own' = {}
        /\ before' = [undo |-> NoHistory, redo |-> NoHistory] /\ unlinking' = unlinking
        /\ files' = files /\ sources' = sources /\ UNCHANGED <<plan, undo, redo>>
    BY <1>8 DEF Finish, NoCommand, graph
  <2>2. Scanned(plan)' = Scanned(plan) /\ Scanned(plan) \subseteq used \ unlinking
    BY <2>1 DEF Scanned, Safe
  <2> QED  BY <1>1, <1>2, <2>1, <2>2, IdleSafe DEF H
<1>9. CASE DiscardStartUp
  <2>1. phase = "staged"
    BY <1>9 DEF DiscardStartUp
  <2>2. FilesOf(staging) \intersect FilesOf(metadata) = {}
    <3>1. /\ \A f \in FilesOf(staging) : f.generation = generation
          /\ \A f \in FilesOf(metadata) : f.generation < generation /\ f.generation \in Nat
      BY <2>1 DEF SInv, StoreTypeOK, StagedOK, MetadataOK, FilesOf, Snapshots, Files
    <3>2. generation \in Nat
      BY DEF SInv, StoreTypeOK
    <3> QED  BY <3>1, <3>2
  <2>3. /\ metadata' = metadata /\ used' = used /\ phase' = "idle" /\ own' = {}
        /\ before' = [undo |-> NoHistory, redo |-> NoHistory] /\ unlinking' = unlinking
        /\ files' = files \ FilesOf(staging) /\ sources' = sources /\ ForgetGraph
    BY <1>9 DEF DiscardStartUp, NoCommand
  <2> QED  BY <1>1, <1>2, <1>4, <2>2, <2>3, IdleSafe DEF H
<1>10. CASE RestoreFails
  <2>1. /\ metadata' = metadata /\ used' = used /\ phase' = "idle" /\ own' = {}
        /\ before' = [undo |-> NoHistory, redo |-> NoHistory] /\ unlinking' = unlinking \union own
        /\ files' = files /\ sources' = sources /\ ForgetGraph /\ phase = "restoring"
    BY <1>10 DEF RestoreFails, NoCommand, disk
  <2>2. CommittedSources \intersect own = {}
    BY <2>1 DEF Safe
  <2> QED  BY <1>1, <1>2, <1>4, <2>1, <2>2, IdleSafe DEF H
<1>11. CASE RestoreSlot
  <2>1. /\ metadata' = metadata /\ used' = used /\ phase' = "idle" /\ own' = {}
        /\ before' = [undo |-> NoHistory, redo |-> NoHistory] /\ unlinking' = unlinking \union own
        /\ files' = files /\ sources' = sources /\ plan' = PlanIn(metadata) /\ phase = "restoring"
    BY <1>11 DEF RestoreSlot, NoCommand, LoadGraph, disk
  <2>2. CommittedSources \intersect own = {} /\ Scanned(plan)' = CommittedSources
    BY <2>1 DEF Safe, CommittedSources, Scanned
  <2>3. undo' \in H /\ redo' \in H
    <3>1. <<>> \in Seq(Over(used \ (own \union unlinking)))
      OBVIOUS
    <3> QED  BY <1>2, <1>11, <3>1 DEF RestoreSlot, H
  <2> QED  BY <1>1, <1>2, <2>1, <2>2, <2>3, IdleSafe DEF H
<1>12. CASE RollbackFails
  BY <1>12 DEF RollbackFails
<1> QED  BY <1>5, <1>6, <1>7, <1>8, <1>9, <1>10, <1>11, <1>12

\* The steps that load a graph that is committed.
LEMMA LoadSafe ==
  ASSUME SInv, Safe, errors = {}, Open \/ StartUpSave
  PROVE  Safe'
<1>1. metadata \in Snapshots /\ SourcesOf(FilesOf(metadata)) = CommittedSources
      /\ phase = "idle" /\ rollback = {} /\ own = {}
  BY SourcesAreScanned DEF CommittedSources, SInv, StoreTypeOK, PhaseOK, Open, StartUpSave
<1>2. /\ metadata' = metadata /\ files' = files /\ sources' = sources /\ used' = used
      /\ rollback' = rollback /\ own' = own /\ unlinking' = unlinking
      /\ plan' = PlanIn(metadata) /\ UNCHANGED <<undo, redo, before>>
  BY DEF Open, StartUpSave, LoadGraph, disk, command
<1>3. /\ CommittedSources' = CommittedSources /\ FilesOf(metadata') = FilesOf(metadata)
      /\ Scanned(plan)' = CommittedSources
  BY <1>2 DEF CommittedSources, PlanIn, Scanned
<1>4. Intact(FilesOf(metadata))' /\ CommittedSources \subseteq sources
  BY <1>1, <1>2, <1>3 DEF Safe, Intact
<1>5. Histories(used \ (own \union unlinking))'
  BY <1>2 DEF Safe, Histories
<1> QED  BY <1>1, <1>2, <1>3, <1>4, <1>5 DEF Safe

\* The commit point: every file of the new generation is there, and every
\* Parquet file it scans.
LEMMA PublishSafe ==
  ASSUME SInv, Safe, PublishMetadata
  PROVE  Safe'
<1>1. /\ staging \in Snapshots /\ PlanIn(staging) = plan /\ phase = "staged"
      /\ FilesOf(staging) \subseteq files
  BY DEF PublishMetadata, SInv, StagedOK
<1>2. /\ metadata' = staging /\ phase' = "published"
      /\ UNCHANGED <<files, sources, used, plan, undo, redo, before, own, unlinking>>
  BY DEF PublishMetadata, graph
<1>3. SourcesOf(FilesOf(staging)) = Scanned(plan) /\ Scanned(plan) \subseteq sources
  BY <1>1, SourcesAreScanned DEF Safe
<1>4. CommittedSources' = Scanned(plan) /\ Scanned(plan)' = Scanned(plan)
  BY <1>1, <1>2 DEF CommittedSources, PlanIn, Scanned
<1>5. Intact(FilesOf(metadata))'
  BY <1>1, <1>2, <1>3 DEF Intact
<1>6. Histories(used \ (own \union unlinking))'
  BY <1>2 DEF Safe, Histories
<1> QED  BY <1>2, <1>4, <1>5, <1>6 DEF Safe

\* The other steps of persisting and recovering.
LEMMA OtherSafe ==
  ASSUME SInv, Safe, errors = {}, errors' = {},
         \/ StartUp \/ Refuse \/ Stage \/ Abandon \/ Flush \/ Rollback \/ LateFailure
         \/ \E f \in FilesOf(staging) : Move(f)
         \/ \E f \in files : CollectFile(f)
         \/ \E s \in sources : CollectSource(s)
         \/ \E s \in unlinking : Unlink(s)
         \/ UNCHANGED storeVars
  PROVE  Safe'
<1>1. metadata \in Snapshots /\ SourcesOf(FilesOf(metadata)) = CommittedSources
  BY SourcesAreScanned DEF CommittedSources, SInv, StoreTypeOK
<1>2. /\ FilesOf(metadata) \subseteq files /\ CommittedSources \subseteq sources
      /\ CommittedSources \subseteq used \ unlinking
      /\ Scanned(plan) \subseteq used \ unlinking
      /\ phase \in {"changed", "staged"} => Scanned(plan) \subseteq sources
  BY <1>1 DEF Safe, Intact
<1>3. CASE StartUp \/ UNCHANGED storeVars
  BY <1>1, <1>2, <1>3, DiskSafe DEF StartUp, storeVars, disk, graph, command
<1>4. CASE Refuse \/ Abandon \/ Flush
  BY <1>1, <1>2, <1>4, DiskSafe DEF Refuse, Abandon, Flush, disk, graph
<1>5. CASE Stage
  BY <1>1, <1>2, <1>5, DiskSafe DEF Stage, graph
<1>6. CASE Rollback
  <2>1. /\ phase = "failing" /\ phase' = "restoring" /\ sources' = sources \ rollback
        /\ rollback' = {}
        /\ UNCHANGED <<metadata, files, used, plan, undo, redo, before, own, unlinking>>
    BY <1>6 DEF Rollback, graph
  <2>2. CommittedSources \intersect rollback = {}
    BY <2>1 DEF Safe
  <2> QED  BY <1>1, <1>2, <2>1, <2>2, DiskSafe
<1>7. CASE LateFailure
  BY <1>7 DEF LateFailure
<1>8. CASE \E f \in FilesOf(staging) : Move(f)
  BY <1>1, <1>2, <1>8, DiskSafe DEF Move, graph, command
<1>9. CASE \E f \in files : CollectFile(f)
  BY <1>1, <1>2, <1>9, DiskSafe DEF CollectFile, GarbageFiles, graph, command
<1>10. ASSUME NEW s \in sources, CollectSource(s)
       PROVE  Safe'
  <2>1. FilesOf(metadata) \intersect files = FilesOf(metadata)
    BY <1>2
  <2>2. s \notin CommittedSources
    BY <1>1, <1>10, <2>1 DEF CollectSource, GarbageSources
  <2> QED  BY <1>1, <1>2, <1>10, <2>2, DiskSafe DEF CollectSource, graph, command
<1>11. CASE \E s \in unlinking : Unlink(s)
  BY <1>1, <1>2, <1>11, DiskSafe DEF Unlink, graph, command
<1> QED  BY <1>3, <1>4, <1>5, <1>6, <1>7, <1>8, <1>9, <1>10, <1>11

\* Until a step after the commit point or a rollback meets an I/O error, no
\* step takes away anything that the committed snapshot or a command needs.
THEOREM StoreIsSafe == StoreSpec => []SafeInv
<1>1. StoreInit => SafeInv
  <2>1. ASSUME StoreInit
        PROVE  Safe
    <3>1. FilesOf(metadata) = {} /\ CommittedSources = {} /\ Scanned(plan) = {}
      BY <2>1 DEF StoreInit, FilesOf, CommittedSources, Scanned, PlanIn
    <3>2. NoHistory \in [Ids -> Seq(Over(used \ (own \union unlinking)))]
      BY DEF NoHistory
    <3> QED  BY <2>1, <3>1, <3>2 DEF StoreInit, Safe, Intact, SourcesOf, Histories
  <2> QED  BY <2>1 DEF SafeInv
<1>2. SInv /\ SafeInv /\ [StoreNext]_storeVars => SafeInv'
  <2>1. ASSUME SInv, SafeInv, [StoreNext]_storeVars, errors' = {}
        PROVE  Safe'
    <3>1. errors = {}
      <4>1. ASSUME Command
            PROVE  errors' = errors
        BY <2>1, <4>1, CommandEnters DEF SInv, Entered, Enter
      <4>2. ASSUME Open \/ CloseSlot \/ Crash \/ StartUp \/ StartUpSave \/ UNCHANGED storeVars
            PROVE  errors' = errors
        BY <4>2 DEF Open, CloseSlot, Crash, StartUp, StartUpSave, storeVars
      <4>3. ASSUME Persist
            PROVE  errors' = errors
        BY <4>3 DEF Persist, Refuse, Stage, Abandon, PublishMetadata, Flush, Finish,
                    FinishStartUp, Move, CollectFile, CollectSource
      <4>4. ASSUME Recover
            PROVE  errors \subseteq errors'
        BY <4>4 DEF Recover, LateFailure, DiscardStartUp, Rollback, RollbackFails, RestoreSlot,
                    RestoreFails, Unlink
      <4> QED  BY <2>1, <4>1, <4>2, <4>3, <4>4 DEF StoreNext
    <3>2. Safe
      BY <2>1, <3>1 DEF SafeInv
    <3> QED
      BY <2>1, <3>1, <3>2, CommandSafe, EndSafe, LoadSafe, PublishSafe, OtherSafe
         DEF StoreNext, Persist, Recover
  <2> QED  BY <2>1 DEF SafeInv
<1> QED  BY <1>1, <1>2, StoreInvariance, PTL DEF StoreSpec

\* The committed snapshot loads, whatever is interrupted, rejected or collected
\* when: loading finds every plan, record and Parquet file its metadata reaches.
THEOREM CommittedAlwaysLoads == StoreSpec => []CommittedLoads
<1>1. SafeInv => CommittedLoads
  BY DEF SafeInv, Safe, CommittedLoads
<1> QED  BY <1>1, StoreIsSafe, PTL

-----------------------------------------------------------------------------
(***************************************************************************)
(* Proofs about which Workspaces are open, for any users, Workspaces,      *)
(* requests, sizes and failures: a user has one open Workspace at most,    *)
(* what is open is what is committed, and the counter of open capacity is  *)
(* what the open Workspaces take and what is reserved.                     *)
(***************************************************************************)

\* The steps of an operation that hold the gate of its Workspace, and those
\* that hold the lifecycle gate of its user.
GateSteps == {"load", "remove", "verify", "persist", "commit", "restore", "leave"}
UserSteps == {"get", "scan", "look", "switch", "load", "close", "delete", "remove"}
Kinds == {"none", "open", "close", "delete", "mutate", "create", "import"}
Steps == GateSteps \cup UserSteps \cup Kinds \cup {"idle", "userGate", "done"}

Shapes ==
  /\ pc \in [Ops -> Steps] /\ target \in [Ops -> Workspaces]
  /\ kind \in [Ops -> Kinds]
  /\ siblings \in [Ops -> SUBSET Workspaces]
  /\ slot \in [Workspaces -> {"closed", "open", "closing"}]
  /\ gate \in [Workspaces -> Ops \cup {NoOp}] /\ userGate \in [Users -> Ops \cup {NoOp}]
  /\ DOMAIN size = Workspaces /\ DOMAIN revision = Workspaces
  /\ DOMAIN slotSize = Workspaces /\ DOMAIN slotRevision = Workspaces

GateOf(o) == pc[o] \in GateSteps => gate[target[o]] = o
HolderOf(w) == gate[w] # NoOp => target[gate[w]] = w /\ pc[gate[w]] \in GateSteps
UserGateOf(o) == pc[o] \in UserSteps => userGate[UserOf(o)] = o

\* What is in memory is committed, except while a commit that failed, and may
\* have happened, is being taken back.
Committed(w) == slotSize[w] = size[w] /\ slotRevision[w] = revision[w]
MemoryOf(w) ==
  /\ Loaded(w) => w \in live
  /\ Loaded(w) => Committed(w) \/ (gate[w] # NoOp /\ pc[gate[w]] = "restore")
  /\ gate[w] # NoOp /\ pc[gate[w]] \in {"load", "verify"} => ~Loaded(w)
  /\ gate[w] # NoOp /\ pc[gate[w]] = "load" => w \in live

\* An opening has closed the siblings of its target, or has yet to, or its
\* listing has missed them.
SiblingsOf(o) ==
  /\ pc[o] \in {"switch", "load"} =>
       \A w \in Owned(UserOf(o)) \ {target[o]} : slot[w] = "open" => w \in missed \cup siblings[o]
  /\ pc[o] = "load" => siblings[o] = {}

OnlyOpen(v, w) ==
  OwnerOf[v] = OwnerOf[w] /\ slot[v] = "open" /\ slot[w] = "open" /\ {v, w} \cap missed = {} => v = w

RInv ==
  /\ Shapes
  /\ \A o \in Ops : GateOf(o) /\ UserGateOf(o) /\ SiblingsOf(o)
  /\ \A w \in Workspaces : HolderOf(w) /\ MemoryOf(w)
  /\ \A v, w \in Workspaces : OnlyOpen(v, w)

-----------------------------------------------------------------------------

\* At first nothing is in memory and nobody holds a gate.
LEMMA InitRInv ==
  ASSUME RuntimeInit
  PROVE  RInv
<1>1. \A o \in Ops : pc[o] = "idle"
  BY DEF RuntimeInit
<1>2. \A w \in Workspaces : slot[w] = "closed" /\ gate[w] = NoOp
  BY DEF RuntimeInit
<1>3. Shapes
  <2>1. (CHOOSE w \in Workspaces : TRUE) \in Workspaces
    BY RuntimeAssumption
  <2>2. target \in [Ops -> Workspaces]
    BY <2>1 DEF RuntimeInit
  <2> QED
    BY <2>2 DEF RuntimeInit, Shapes, Steps, Kinds
<1>4. \A o \in Ops : GateOf(o) /\ UserGateOf(o) /\ SiblingsOf(o)
  BY <1>1 DEF GateOf, UserGateOf, SiblingsOf, GateSteps, UserSteps
<1>5. \A w \in Workspaces : HolderOf(w) /\ MemoryOf(w)
  BY <1>2 DEF HolderOf, MemoryOf, Loaded
<1>6. \A v, w \in Workspaces : OnlyOpen(v, w)
  BY <1>2 DEF OnlyOpen
<1> QED
  BY <1>3, <1>4, <1>5, <1>6 DEF RInv

-----------------------------------------------------------------------------
(* A step of an operation.                                                 *)

USE RuntimeAssumption

\* What is to be shown of the memory of a Workspace whose gate is free after a
\* step: what is in it is committed.
LEMMA MemoryWhenFree ==
  ASSUME NEW w, gate'[w] = NoOp, Loaded(w)' => w \in live' /\ Committed(w)'
  PROVE  MemoryOf(w)'
BY DEF MemoryOf, Loaded, Committed

\* The holder may be restoring it, and has not loaded or verified it yet.
LEMMA MemoryWhenHeld ==
  ASSUME NEW w, NEW o \in Ops, gate'[w] = o,
         Loaded(w)' => w \in live' /\ (Committed(w)' \/ pc'[o] = "restore"),
         Loaded(w)' => pc'[o] \notin {"load", "verify"},
         pc'[o] = "load" => w \in live'
  PROVE  MemoryOf(w)'
<1>1. pc'[gate'[w]] = pc'[o]
  OBVIOUS
<1> QED
  BY <1>1 DEF MemoryOf, Loaded, Committed

\* An operation leaves the other Workspaces alone, and those who hold their
\* gates.
LEMMA MemoryElsewhere ==
  ASSUME RInv, NEW o \in Ops, NEW w \in Workspaces, w # target[o],
         slot'[w] = slot[w], slotSize'[w] = slotSize[w], slotRevision'[w] = slotRevision[w],
         size'[w] = size[w], revision'[w] = revision[w], w \in live => w \in live',
         gate'[w] = gate[w], \A p \in Ops \ {o} : pc'[p] = pc[p]
  PROVE  MemoryOf(w)'
<1>1. MemoryOf(w) /\ HolderOf(w) /\ gate[w] \in Ops \cup {NoOp}
  BY DEF RInv, Shapes
<1>2. (Loaded(w)' <=> Loaded(w)) /\ (Committed(w)' <=> Committed(w))
  BY DEF Loaded, Committed
<1>3. CASE gate[w] = NoOp
  <2>1. Loaded(w)' => w \in live' /\ Committed(w)'
    BY <1>1, <1>2, <1>3 DEF MemoryOf
  <2> QED
    BY <1>3, <2>1, MemoryWhenFree
<1>4. CASE gate[w] # NoOp
  <2>1. gate[w] \in Ops /\ gate[w] # o
    BY <1>1, <1>4 DEF HolderOf
  <2>2. pc'[gate[w]] = pc[gate[w]]
    BY <2>1
  <2>3. /\ Loaded(w)' => w \in live' /\ (Committed(w)' \/ pc'[gate[w]] = "restore")
        /\ Loaded(w)' => pc'[gate[w]] \notin {"load", "verify"}
        /\ pc'[gate[w]] = "load" => w \in live'
    BY <1>1, <1>2, <1>4, <2>2 DEF MemoryOf
  <2> QED
    BY <2>1, <2>3, MemoryWhenHeld
<1> QED
  BY <1>3, <1>4

USE DEF UserOf, Owned, Loaded, Goto, Fault, NoFault, TakeGate, LeaveGate, LeaveUserGate, Clear, Load,
        RequestClose, OpenUnchanged, CreateUnchanged, MutateUnchanged, WorkUnchanged, BodyEnds,
        opVars, diskVars, slotVars, workVars, Committed

\* A request of any kind begins at a gate or at its own step.
LEMMA BeginStep ==
  ASSUME RInv, NEW o \in Ops, Begin(o)
  PROVE  RInv'
<1>1. Shapes'
  BY DEF Begin, RInv, Shapes, Steps, GateSteps, UserSteps, Kinds
<1>2. \A p \in Ops : GateOf(p)'
  BY DEF Begin, RInv, Shapes, GateOf, HolderOf, GateSteps
<1>3. \A p \in Ops : UserGateOf(p)'
  BY DEF Begin, RInv, Shapes, UserGateOf, UserSteps
<1>4. \A p \in Ops : SiblingsOf(p)'
  BY DEF Begin, RInv, Shapes, SiblingsOf, UserGateOf, UserSteps
<1>5. \A w \in Workspaces : HolderOf(w)'
  BY DEF Begin, RInv, Shapes, HolderOf, GateOf, GateSteps
<1>6. \A w \in Workspaces : MemoryOf(w)'
  BY DEF Begin, RInv, Shapes, MemoryOf, HolderOf, GateOf, GateSteps
<1>7. \A v, w \in Workspaces : OnlyOpen(v, w)'
  BY DEF Begin, RInv, Shapes, OnlyOpen, SiblingsOf, MemoryOf
<1> QED
  BY <1>1, <1>2, <1>3, <1>4, <1>5, <1>6, <1>7 DEF RInv

\* It holds the lifecycle gate of its user from now on, so that no other
\* operation of that user is between the steps of UserSteps.
LEMMA EnterUserGateStep ==
  ASSUME RInv, NEW o \in Ops, EnterUserGate(o)
  PROVE  RInv'
<1>1. Shapes'
  BY DEF EnterUserGate, RInv, Shapes, Steps, GateSteps, UserSteps, Kinds
<1>2. \A p \in Ops : GateOf(p)'
  BY DEF EnterUserGate, RInv, Shapes, GateOf, HolderOf, GateSteps, Kinds
<1>3. \A p \in Ops : UserGateOf(p)'
  BY DEF EnterUserGate, RInv, Shapes, UserGateOf, UserSteps, Kinds
<1>4. \A p \in Ops : SiblingsOf(p)'
  BY DEF EnterUserGate, RInv, Shapes, SiblingsOf, UserGateOf, UserSteps, Kinds
<1>5. \A w \in Workspaces : HolderOf(w)'
  BY DEF EnterUserGate, RInv, Shapes, HolderOf, GateOf, GateSteps, Kinds
<1>6. \A w \in Workspaces : MemoryOf(w)'
  BY DEF EnterUserGate, RInv, Shapes, MemoryOf, HolderOf, GateOf, GateSteps
<1>7. \A v, w \in Workspaces : OnlyOpen(v, w)'
  BY DEF EnterUserGate, RInv, Shapes, OnlyOpen, SiblingsOf, MemoryOf
<1> QED
  BY <1>1, <1>2, <1>3, <1>4, <1>5, <1>6, <1>7 DEF RInv

\* Nothing is opened yet.
LEMMA GetTargetStep ==
  ASSUME RInv, NEW o \in Ops, GetTarget(o)
  PROVE  RInv'
<1>1. Shapes'
  BY DEF GetTarget, RInv, Shapes, Steps, GateSteps, UserSteps, Kinds
<1>2. \A p \in Ops : GateOf(p)'
  BY DEF GetTarget, RInv, Shapes, GateOf, HolderOf, GateSteps
<1>3. \A p \in Ops : UserGateOf(p)'
  BY DEF GetTarget, RInv, Shapes, UserGateOf, UserSteps
<1>4. \A p \in Ops : SiblingsOf(p)'
  BY DEF GetTarget, RInv, Shapes, SiblingsOf, UserGateOf, UserSteps
<1>5. \A w \in Workspaces : HolderOf(w)'
  BY DEF GetTarget, RInv, Shapes, HolderOf, GateOf, GateSteps
<1>6. ASSUME NEW w \in Workspaces
       PROVE  MemoryOf(w)'
  <2>1. CASE w = target[o]
    <3>1. gate[w] \in {o, NoOp} /\ gate'[w] \in {o, NoOp}
      BY <2>1 DEF GetTarget, RInv, Shapes, GateOf, GateSteps
    <3>2. MemoryOf(w)
      BY DEF RInv
    <3>3. CASE gate'[w] = NoOp
      <4>1. Loaded(w)' => w \in live' /\ Committed(w)'
        BY <2>1, <3>1, <3>2, <3>3 DEF GetTarget, RInv, Shapes, MemoryOf, GateOf, GateSteps
      <4> QED
        BY <3>3, <4>1, MemoryWhenFree
    <3>4. CASE gate'[w] = o
      <4>1. /\ Loaded(w)' => w \in live' /\ (Committed(w)' \/ pc'[o] = "restore")
            /\ Loaded(w)' => pc'[o] \notin {"load", "verify"}
            /\ pc'[o] = "load" => w \in live'
        BY <2>1, <3>1, <3>2, <3>4 DEF GetTarget, RInv, Shapes, MemoryOf, BodyEnds
      <4> QED
        BY <3>4, <4>1, MemoryWhenHeld
    <3> QED
      BY <3>1, <3>3, <3>4
  <2>2. CASE w # target[o]
    <3>1. /\ slot'[w] = slot[w] /\ slotSize'[w] = slotSize[w] /\ slotRevision'[w] = slotRevision[w]
          /\ size'[w] = size[w] /\ revision'[w] = revision[w] /\ gate'[w] = gate[w]
          /\ w \in live => w \in live'
          /\ \A p \in Ops \ {o} : pc'[p] = pc[p]
      BY <2>2 DEF GetTarget, RInv, Shapes
    <3> QED
      BY <2>2, <3>1, MemoryElsewhere
  <2> QED
    BY <2>1, <2>2
<1>7. \A v, w \in Workspaces : OnlyOpen(v, w)'
  BY DEF GetTarget, RInv, Shapes, OnlyOpen, SiblingsOf, MemoryOf
<1> QED
  BY <1>1, <1>2, <1>3, <1>4, <1>5, <1>6, <1>7 DEF RInv

\* Nothing is opened yet.
LEMMA ScanStep ==
  ASSUME RInv, NEW o \in Ops, Scan(o)
  PROVE  RInv'
<1>1. Shapes'
  BY DEF Scan, RInv, Shapes, Steps, GateSteps, UserSteps, Kinds
<1>2. \A p \in Ops : GateOf(p)'
  BY DEF Scan, RInv, Shapes, GateOf, HolderOf, GateSteps
<1>3. \A p \in Ops : UserGateOf(p)'
  BY DEF Scan, RInv, Shapes, UserGateOf, UserSteps
<1>4. \A p \in Ops : SiblingsOf(p)'
  BY DEF Scan, RInv, Shapes, SiblingsOf, UserGateOf, UserSteps
<1>5. \A w \in Workspaces : HolderOf(w)'
  BY DEF Scan, RInv, Shapes, HolderOf, GateOf, GateSteps
<1>6. \A w \in Workspaces : MemoryOf(w)'
  BY DEF Scan, RInv, Shapes, MemoryOf, HolderOf, GateOf, GateSteps
<1>7. \A v, w \in Workspaces : OnlyOpen(v, w)'
  BY DEF Scan, RInv, Shapes, OnlyOpen, SiblingsOf, MemoryOf
<1> QED
  BY <1>1, <1>2, <1>3, <1>4, <1>5, <1>6, <1>7 DEF RInv

\* The open siblings are to be closed, or the listing has missed them.
LEMMA LookAtSiblingsStep ==
  ASSUME RInv, NEW o \in Ops, LookAtSiblings(o)
  PROVE  RInv'
<1>1. Shapes'
  BY DEF LookAtSiblings, RInv, Shapes, Steps, GateSteps, UserSteps, Kinds
<1>2. \A p \in Ops : GateOf(p)'
  BY DEF LookAtSiblings, RInv, Shapes, GateOf, HolderOf, GateSteps
<1>3. \A p \in Ops : UserGateOf(p)'
  BY DEF LookAtSiblings, RInv, Shapes, UserGateOf, UserSteps
<1>4. \A p \in Ops : SiblingsOf(p)'
  BY DEF LookAtSiblings, RInv, Shapes, SiblingsOf, UserGateOf, UserSteps
<1>5. \A w \in Workspaces : HolderOf(w)'
  BY DEF LookAtSiblings, RInv, Shapes, HolderOf, GateOf, GateSteps
<1>6. \A w \in Workspaces : MemoryOf(w)'
  BY DEF LookAtSiblings, RInv, Shapes, MemoryOf, HolderOf, GateOf, GateSteps
<1>7. \A v, w \in Workspaces : OnlyOpen(v, w)'
  BY DEF LookAtSiblings, RInv, Shapes, OnlyOpen, SiblingsOf, MemoryOf
<1> QED
  BY <1>1, <1>2, <1>3, <1>4, <1>5, <1>6, <1>7 DEF RInv

\* A sibling that is closed, or closing, is not open.
LEMMA CloseSiblingStep ==
  ASSUME RInv, NEW o \in Ops, CloseSibling(o)
  PROVE  RInv'
<1>1. Shapes'
  BY DEF CloseSibling, RInv, Shapes, Steps, GateSteps, UserSteps, Kinds
<1>2. \A p \in Ops : GateOf(p)'
  BY DEF CloseSibling, RInv, Shapes, GateOf, HolderOf, GateSteps
<1>3. \A p \in Ops : UserGateOf(p)'
  BY DEF CloseSibling, RInv, Shapes, UserGateOf, UserSteps
<1>4. \A p \in Ops : SiblingsOf(p)'
  BY DEF CloseSibling, RInv, Shapes, SiblingsOf, UserGateOf, UserSteps
<1>5. \A w \in Workspaces : HolderOf(w)'
  BY DEF CloseSibling, RInv, Shapes, HolderOf, GateOf, GateSteps
<1>6. \A w \in Workspaces : MemoryOf(w)'
  BY DEF CloseSibling, RInv, Shapes, MemoryOf, HolderOf, GateOf, GateSteps
<1>7. \A v, w \in Workspaces : OnlyOpen(v, w)'
  BY DEF CloseSibling, RInv, Shapes, OnlyOpen, SiblingsOf, MemoryOf
<1> QED
  BY <1>1, <1>2, <1>3, <1>4, <1>5, <1>6, <1>7 DEF RInv

\* No sibling is left to close, and nobody else opens one: what becomes open
\* is the only one.
LEMMA OpenEntersStep ==
  ASSUME RInv, NEW o \in Ops, OpenEnters(o)
  PROVE  RInv'
<1>1. Shapes'
  BY SMTT(30) DEF OpenEnters, RInv, Shapes, Steps, GateSteps, UserSteps, Kinds
<1>2. \A p \in Ops : GateOf(p)'
  BY DEF OpenEnters, RInv, Shapes, GateOf, HolderOf, GateSteps
<1>3. \A p \in Ops : UserGateOf(p)'
  BY DEF OpenEnters, RInv, Shapes, UserGateOf, UserSteps
<1>4. \A p \in Ops : SiblingsOf(p)'
  BY DEF OpenEnters, RInv, Shapes, SiblingsOf, UserGateOf, UserSteps
<1>5. \A w \in Workspaces : HolderOf(w)'
  BY DEF OpenEnters, RInv, Shapes, HolderOf, GateOf, GateSteps
<1>6. ASSUME NEW w \in Workspaces
       PROVE  MemoryOf(w)'
  <2>1. CASE w = target[o]
    <3>1. gate[w] \in {o, NoOp} /\ gate'[w] \in {o, NoOp}
      BY <2>1 DEF OpenEnters, RInv, Shapes, GateOf, GateSteps
    <3>2. MemoryOf(w)
      BY DEF RInv
    <3>3. CASE gate'[w] = NoOp
      <4>1. Loaded(w)' => w \in live' /\ Committed(w)'
        BY <2>1, <3>1, <3>2, <3>3 DEF OpenEnters, RInv, Shapes, MemoryOf, GateOf, GateSteps
      <4> QED
        BY <3>3, <4>1, MemoryWhenFree
    <3>4. CASE gate'[w] = o
      <4>1. /\ Loaded(w)' => w \in live' /\ (Committed(w)' \/ pc'[o] = "restore")
            /\ Loaded(w)' => pc'[o] \notin {"load", "verify"}
            /\ pc'[o] = "load" => w \in live'
        BY <2>1, <3>1, <3>2, <3>4 DEF OpenEnters, RInv, Shapes, MemoryOf, BodyEnds
      <4> QED
        BY <3>4, <4>1, MemoryWhenHeld
    <3> QED
      BY <3>1, <3>3, <3>4
  <2>2. CASE w # target[o]
    <3>1. /\ slot'[w] = slot[w] /\ slotSize'[w] = slotSize[w] /\ slotRevision'[w] = slotRevision[w]
          /\ size'[w] = size[w] /\ revision'[w] = revision[w] /\ gate'[w] = gate[w]
          /\ w \in live => w \in live'
          /\ \A p \in Ops \ {o} : pc'[p] = pc[p]
      BY <2>2 DEF OpenEnters, RInv, Shapes
    <3> QED
      BY <2>2, <3>1, MemoryElsewhere
  <2> QED
    BY <2>1, <2>2
<1>7. \A v, w \in Workspaces : OnlyOpen(v, w)'
  BY DEF OpenEnters, RInv, Shapes, OnlyOpen, SiblingsOf, MemoryOf
<1> QED
  BY <1>1, <1>2, <1>3, <1>4, <1>5, <1>6, <1>7 DEF RInv

\* As above; what is read is committed, and the directory is still there
\* because its gate has been held since it was seen.
LEMMA OpenLoadsStep ==
  ASSUME RInv, NEW o \in Ops, OpenLoads(o)
  PROVE  RInv'
<1>1. Shapes'
  BY DEF OpenLoads, RInv, Shapes, Steps, GateSteps, UserSteps, Kinds
<1>2. \A p \in Ops : GateOf(p)'
  BY DEF OpenLoads, RInv, Shapes, GateOf, HolderOf, GateSteps
<1>3. \A p \in Ops : UserGateOf(p)'
  BY DEF OpenLoads, RInv, Shapes, UserGateOf, UserSteps
<1>4. \A p \in Ops : SiblingsOf(p)'
  BY DEF OpenLoads, RInv, Shapes, SiblingsOf, UserGateOf, UserSteps
<1>5. \A w \in Workspaces : HolderOf(w)'
  BY DEF OpenLoads, RInv, Shapes, HolderOf, GateOf, GateSteps
<1>6. ASSUME NEW w \in Workspaces
       PROVE  MemoryOf(w)'
  <2>1. CASE w = target[o]
    <3>1. gate[w] \in {o, NoOp} /\ gate'[w] \in {o, NoOp}
      BY <2>1 DEF OpenLoads, RInv, Shapes, GateOf, GateSteps
    <3>2. MemoryOf(w)
      BY DEF RInv
    <3>3. CASE gate'[w] = NoOp
      <4>1. Loaded(w)' => w \in live' /\ Committed(w)'
        BY <2>1, <3>1, <3>2, <3>3 DEF OpenLoads, RInv, Shapes, MemoryOf, GateOf, GateSteps
      <4> QED
        BY <3>3, <4>1, MemoryWhenFree
    <3>4. CASE gate'[w] = o
      <4>1. /\ Loaded(w)' => w \in live' /\ (Committed(w)' \/ pc'[o] = "restore")
            /\ Loaded(w)' => pc'[o] \notin {"load", "verify"}
            /\ pc'[o] = "load" => w \in live'
        BY <2>1, <3>1, <3>2, <3>4 DEF OpenLoads, RInv, Shapes, MemoryOf, BodyEnds
      <4> QED
        BY <3>4, <4>1, MemoryWhenHeld
    <3> QED
      BY <3>1, <3>3, <3>4
  <2>2. CASE w # target[o]
    <3>1. /\ slot'[w] = slot[w] /\ slotSize'[w] = slotSize[w] /\ slotRevision'[w] = slotRevision[w]
          /\ size'[w] = size[w] /\ revision'[w] = revision[w] /\ gate'[w] = gate[w]
          /\ w \in live => w \in live'
          /\ \A p \in Ops \ {o} : pc'[p] = pc[p]
      BY <2>2 DEF OpenLoads, RInv, Shapes
    <3> QED
      BY <2>2, <3>1, MemoryElsewhere
  <2> QED
    BY <2>1, <2>2
<1>7. \A v, w \in Workspaces : OnlyOpen(v, w)'
  BY DEF OpenLoads, RInv, Shapes, OnlyOpen, SiblingsOf, MemoryOf
<1> QED
  BY <1>1, <1>2, <1>3, <1>4, <1>5, <1>6, <1>7 DEF RInv

\* What is closed is not in memory.
LEMMA CloseStep ==
  ASSUME RInv, NEW o \in Ops, Close(o)
  PROVE  RInv'
<1>1. Shapes'
  BY SMTT(30) DEF Close, RInv, Shapes, Steps, GateSteps, UserSteps, Kinds
<1>2. \A p \in Ops : GateOf(p)'
  BY DEF Close, RInv, Shapes, GateOf, HolderOf, GateSteps
<1>3. \A p \in Ops : UserGateOf(p)'
  BY DEF Close, RInv, Shapes, UserGateOf, UserSteps
<1>4. \A p \in Ops : SiblingsOf(p)'
  BY DEF Close, RInv, Shapes, SiblingsOf, UserGateOf, UserSteps
<1>5. \A w \in Workspaces : HolderOf(w)'
  BY DEF Close, RInv, Shapes, HolderOf, GateOf, GateSteps
<1>6. \A w \in Workspaces : MemoryOf(w)'
  BY DEF Close, RInv, Shapes, MemoryOf, HolderOf, GateOf, GateSteps
<1>7. \A v, w \in Workspaces : OnlyOpen(v, w)'
  BY DEF Close, RInv, Shapes, OnlyOpen, SiblingsOf, MemoryOf
<1> QED
  BY <1>1, <1>2, <1>3, <1>4, <1>5, <1>6, <1>7 DEF RInv

\* The gate is free, so what is in memory is committed.
LEMMA DeleteEntersStep ==
  ASSUME RInv, NEW o \in Ops, DeleteEnters(o)
  PROVE  RInv'
<1>1. Shapes'
  BY DEF DeleteEnters, RInv, Shapes, Steps, GateSteps, UserSteps, Kinds
<1>2. \A p \in Ops : GateOf(p)'
  BY DEF DeleteEnters, RInv, Shapes, GateOf, HolderOf, GateSteps
<1>3. \A p \in Ops : UserGateOf(p)'
  BY DEF DeleteEnters, RInv, Shapes, UserGateOf, UserSteps
<1>4. \A p \in Ops : SiblingsOf(p)'
  BY DEF DeleteEnters, RInv, Shapes, SiblingsOf, UserGateOf, UserSteps
<1>5. \A w \in Workspaces : HolderOf(w)'
  BY DEF DeleteEnters, RInv, Shapes, HolderOf, GateOf, GateSteps
<1>6. ASSUME NEW w \in Workspaces
       PROVE  MemoryOf(w)'
  <2>1. CASE w = target[o]
    <3>1. gate[w] \in {o, NoOp} /\ gate'[w] \in {o, NoOp}
      BY <2>1 DEF DeleteEnters, RInv, Shapes, GateOf, GateSteps
    <3>2. MemoryOf(w)
      BY DEF RInv
    <3>3. CASE gate'[w] = NoOp
      <4>1. Loaded(w)' => w \in live' /\ Committed(w)'
        BY <2>1, <3>1, <3>2, <3>3 DEF DeleteEnters, RInv, Shapes, MemoryOf, GateOf, GateSteps
      <4> QED
        BY <3>3, <4>1, MemoryWhenFree
    <3>4. CASE gate'[w] = o
      <4>1. /\ Loaded(w)' => w \in live' /\ (Committed(w)' \/ pc'[o] = "restore")
            /\ Loaded(w)' => pc'[o] \notin {"load", "verify"}
            /\ pc'[o] = "load" => w \in live'
        BY <2>1, <3>1, <3>2, <3>4 DEF DeleteEnters, RInv, Shapes, MemoryOf, BodyEnds
      <4> QED
        BY <3>4, <4>1, MemoryWhenHeld
    <3> QED
      BY <3>1, <3>3, <3>4
  <2>2. CASE w # target[o]
    <3>1. /\ slot'[w] = slot[w] /\ slotSize'[w] = slotSize[w] /\ slotRevision'[w] = slotRevision[w]
          /\ size'[w] = size[w] /\ revision'[w] = revision[w] /\ gate'[w] = gate[w]
          /\ w \in live => w \in live'
          /\ \A p \in Ops \ {o} : pc'[p] = pc[p]
      BY <2>2 DEF DeleteEnters, RInv, Shapes
    <3> QED
      BY <2>2, <3>1, MemoryElsewhere
  <2> QED
    BY <2>1, <2>2
<1>7. \A v, w \in Workspaces : OnlyOpen(v, w)'
  BY DEF DeleteEnters, RInv, Shapes, OnlyOpen, SiblingsOf, MemoryOf
<1> QED
  BY <1>1, <1>2, <1>3, <1>4, <1>5, <1>6, <1>7 DEF RInv

\* What is removed is cleared, and a failed removal changes nothing.
LEMMA DeleteRemovesStep ==
  ASSUME RInv, NEW o \in Ops, DeleteRemoves(o)
  PROVE  RInv'
<1>1. Shapes'
  BY DEF DeleteRemoves, RInv, Shapes, Steps, GateSteps, UserSteps, Kinds
<1>2. \A p \in Ops : GateOf(p)'
  BY DEF DeleteRemoves, RInv, Shapes, GateOf, HolderOf, GateSteps
<1>3. \A p \in Ops : UserGateOf(p)'
  BY DEF DeleteRemoves, RInv, Shapes, UserGateOf, UserSteps
<1>4. \A p \in Ops : SiblingsOf(p)'
  BY DEF DeleteRemoves, RInv, Shapes, SiblingsOf, UserGateOf, UserSteps
<1>5. \A w \in Workspaces : HolderOf(w)'
  BY DEF DeleteRemoves, RInv, Shapes, HolderOf, GateOf, GateSteps
<1>6. \A w \in Workspaces : MemoryOf(w)'
  BY DEF DeleteRemoves, RInv, Shapes, MemoryOf, HolderOf, GateOf, GateSteps
<1>7. \A v, w \in Workspaces : OnlyOpen(v, w)'
  BY DEF DeleteRemoves, RInv, Shapes, OnlyOpen, SiblingsOf, MemoryOf
<1> QED
  BY <1>1, <1>2, <1>3, <1>4, <1>5, <1>6, <1>7 DEF RInv

\* A new directory is not in memory: only directories are.
LEMMA CreateStep ==
  ASSUME RInv, NEW o \in Ops, Create(o)
  PROVE  RInv'
<1>1. Shapes'
  BY DEF Create, RInv, Shapes, Steps, GateSteps, UserSteps, Kinds
<1>2. \A p \in Ops : GateOf(p)'
  BY DEF Create, RInv, Shapes, GateOf, HolderOf, GateSteps
<1>3. \A p \in Ops : UserGateOf(p)'
  BY DEF Create, RInv, Shapes, UserGateOf, UserSteps
<1>4. \A p \in Ops : SiblingsOf(p)'
  BY DEF Create, RInv, Shapes, SiblingsOf, UserGateOf, UserSteps
<1>5. \A w \in Workspaces : HolderOf(w)'
  BY DEF Create, RInv, Shapes, HolderOf, GateOf, GateSteps
<1>6. \A w \in Workspaces : MemoryOf(w)'
  BY DEF Create, RInv, Shapes, MemoryOf, HolderOf, GateOf, GateSteps
<1>7. \A v, w \in Workspaces : OnlyOpen(v, w)'
  BY DEF Create, RInv, Shapes, OnlyOpen, SiblingsOf, MemoryOf
<1> QED
  BY <1>1, <1>2, <1>3, <1>4, <1>5, <1>6, <1>7 DEF RInv

\* As above; the gate is held until the directory has been verified.
LEMMA ImportPublishesStep ==
  ASSUME RInv, NEW o \in Ops, ImportPublishes(o)
  PROVE  RInv'
<1>1. Shapes'
  BY DEF ImportPublishes, RInv, Shapes, Steps, GateSteps, UserSteps, Kinds
<1>2. \A p \in Ops : GateOf(p)'
  BY DEF ImportPublishes, RInv, Shapes, GateOf, HolderOf, GateSteps
<1>3. \A p \in Ops : UserGateOf(p)'
  BY DEF ImportPublishes, RInv, Shapes, UserGateOf, UserSteps
<1>4. \A p \in Ops : SiblingsOf(p)'
  BY DEF ImportPublishes, RInv, Shapes, SiblingsOf, UserGateOf, UserSteps
<1>5. \A w \in Workspaces : HolderOf(w)'
  BY DEF ImportPublishes, RInv, Shapes, HolderOf, GateOf, GateSteps
<1>6. ASSUME NEW w \in Workspaces
       PROVE  MemoryOf(w)'
  <2>1. CASE w = target[o]
    BY <2>1 DEF ImportPublishes, RInv, Shapes, MemoryOf, HolderOf, GateOf, GateSteps
  <2>2. CASE w # target[o]
    <3>1. /\ slot'[w] = slot[w] /\ slotSize'[w] = slotSize[w] /\ slotRevision'[w] = slotRevision[w]
          /\ size'[w] = size[w] /\ revision'[w] = revision[w] /\ gate'[w] = gate[w]
          /\ w \in live => w \in live'
          /\ \A p \in Ops \ {o} : pc'[p] = pc[p]
      BY <2>2 DEF ImportPublishes, RInv, Shapes
    <3> QED
      BY <2>2, <3>1, MemoryElsewhere
  <2> QED
    BY <2>1, <2>2
<1>7. \A v, w \in Workspaces : OnlyOpen(v, w)'
  BY DEF ImportPublishes, RInv, Shapes, OnlyOpen, SiblingsOf, MemoryOf
<1> QED
  BY <1>1, <1>2, <1>3, <1>4, <1>5, <1>6, <1>7 DEF RInv

\* A directory that is removed again is not in memory.
LEMMA ImportVerifiesStep ==
  ASSUME RInv, NEW o \in Ops, ImportVerifies(o)
  PROVE  RInv'
<1>1. Shapes'
  BY DEF ImportVerifies, RInv, Shapes, Steps, GateSteps, UserSteps, Kinds
<1>2. \A p \in Ops : GateOf(p)'
  BY DEF ImportVerifies, RInv, Shapes, GateOf, HolderOf, GateSteps
<1>3. \A p \in Ops : UserGateOf(p)'
  BY DEF ImportVerifies, RInv, Shapes, UserGateOf, UserSteps
<1>4. \A p \in Ops : SiblingsOf(p)'
  BY DEF ImportVerifies, RInv, Shapes, SiblingsOf, UserGateOf, UserSteps
<1>5. \A w \in Workspaces : HolderOf(w)'
  BY DEF ImportVerifies, RInv, Shapes, HolderOf, GateOf, GateSteps
<1>6. \A w \in Workspaces : MemoryOf(w)'
  BY DEF ImportVerifies, RInv, Shapes, MemoryOf, HolderOf, GateOf, GateSteps
<1>7. \A v, w \in Workspaces : OnlyOpen(v, w)'
  BY DEF ImportVerifies, RInv, Shapes, OnlyOpen, SiblingsOf, MemoryOf
<1> QED
  BY <1>1, <1>2, <1>3, <1>4, <1>5, <1>6, <1>7 DEF RInv

\* The body may have changed the memory only if it then restores it.
LEMMA MutateEntersStep ==
  ASSUME RInv, NEW o \in Ops, MutateEnters(o)
  PROVE  RInv'
<1>1. Shapes'
  BY DEF MutateEnters, RInv, Shapes, Steps, GateSteps, UserSteps, Kinds
<1>2. \A p \in Ops : GateOf(p)'
  BY DEF MutateEnters, RInv, Shapes, GateOf, HolderOf, GateSteps
<1>3. \A p \in Ops : UserGateOf(p)'
  BY DEF MutateEnters, RInv, Shapes, UserGateOf, UserSteps
<1>4. \A p \in Ops : SiblingsOf(p)'
  BY DEF MutateEnters, RInv, Shapes, SiblingsOf, UserGateOf, UserSteps
<1>5. \A w \in Workspaces : HolderOf(w)'
  BY DEF MutateEnters, RInv, Shapes, HolderOf, GateOf, GateSteps
<1>6. ASSUME NEW w \in Workspaces
       PROVE  MemoryOf(w)'
  <2>1. CASE w = target[o]
    <3>1. gate[w] \in {o, NoOp} /\ gate'[w] \in {o, NoOp}
      BY <2>1 DEF MutateEnters, RInv, Shapes, GateOf, GateSteps
    <3>2. MemoryOf(w)
      BY DEF RInv
    <3>3. CASE gate'[w] = NoOp
      <4>1. Loaded(w)' => w \in live' /\ Committed(w)'
        BY <2>1, <3>1, <3>2, <3>3 DEF MutateEnters, RInv, Shapes, MemoryOf, GateOf, GateSteps
      <4> QED
        BY <3>3, <4>1, MemoryWhenFree
    <3>4. CASE gate'[w] = o
      <4>1. /\ Loaded(w)' => w \in live' /\ (Committed(w)' \/ pc'[o] = "restore")
            /\ Loaded(w)' => pc'[o] \notin {"load", "verify"}
            /\ pc'[o] = "load" => w \in live'
        BY <2>1, <3>1, <3>2, <3>4 DEF MutateEnters, RInv, Shapes, MemoryOf, BodyEnds
      <4> QED
        BY <3>4, <4>1, MemoryWhenHeld
    <3> QED
      BY <3>1, <3>3, <3>4
  <2>2. CASE w # target[o]
    <3>1. /\ slot'[w] = slot[w] /\ slotSize'[w] = slotSize[w] /\ slotRevision'[w] = slotRevision[w]
          /\ size'[w] = size[w] /\ revision'[w] = revision[w] /\ gate'[w] = gate[w]
          /\ w \in live => w \in live'
          /\ \A p \in Ops \ {o} : pc'[p] = pc[p]
      BY <2>2 DEF MutateEnters, RInv, Shapes
    <3> QED
      BY <2>2, <3>1, MemoryElsewhere
  <2> QED
    BY <2>1, <2>2
<1>7. \A v, w \in Workspaces : OnlyOpen(v, w)'
  BY DEF MutateEnters, RInv, Shapes, OnlyOpen, SiblingsOf, MemoryOf
<1> QED
  BY <1>1, <1>2, <1>3, <1>4, <1>5, <1>6, <1>7 DEF RInv

\* The gate has been held: what is in memory is still committed.
LEMMA NothingChangedStep ==
  ASSUME RInv, NEW o \in Ops, NothingChanged(o)
  PROVE  RInv'
<1>1. Shapes'
  BY DEF NothingChanged, RInv, Shapes, Steps, GateSteps, UserSteps, Kinds
<1>2. \A p \in Ops : GateOf(p)'
  BY DEF NothingChanged, RInv, Shapes, GateOf, HolderOf, GateSteps
<1>3. \A p \in Ops : UserGateOf(p)'
  BY DEF NothingChanged, RInv, Shapes, UserGateOf, UserSteps
<1>4. \A p \in Ops : SiblingsOf(p)'
  BY DEF NothingChanged, RInv, Shapes, SiblingsOf, UserGateOf, UserSteps
<1>5. \A w \in Workspaces : HolderOf(w)'
  BY DEF NothingChanged, RInv, Shapes, HolderOf, GateOf, GateSteps
<1>6. \A w \in Workspaces : MemoryOf(w)'
  BY DEF NothingChanged, RInv, Shapes, MemoryOf, HolderOf, GateOf, GateSteps
<1>7. \A v, w \in Workspaces : OnlyOpen(v, w)'
  BY DEF NothingChanged, RInv, Shapes, OnlyOpen, SiblingsOf, MemoryOf
<1> QED
  BY <1>1, <1>2, <1>3, <1>4, <1>5, <1>6, <1>7 DEF RInv

\* Nothing is committed yet.
LEMMA PersistReservesStep ==
  ASSUME RInv, NEW o \in Ops, PersistReserves(o)
  PROVE  RInv'
<1>1. Shapes'
  BY DEF PersistReserves, RInv, Shapes, Steps, GateSteps, UserSteps, Kinds
<1>2. \A p \in Ops : GateOf(p)'
  BY DEF PersistReserves, RInv, Shapes, GateOf, HolderOf, GateSteps
<1>3. \A p \in Ops : UserGateOf(p)'
  BY DEF PersistReserves, RInv, Shapes, UserGateOf, UserSteps
<1>4. \A p \in Ops : SiblingsOf(p)'
  BY DEF PersistReserves, RInv, Shapes, SiblingsOf, UserGateOf, UserSteps
<1>5. \A w \in Workspaces : HolderOf(w)'
  BY DEF PersistReserves, RInv, Shapes, HolderOf, GateOf, GateSteps
<1>6. ASSUME NEW w \in Workspaces
       PROVE  MemoryOf(w)'
  <2>1. CASE w = target[o]
    BY <2>1 DEF PersistReserves, RInv, Shapes, MemoryOf, HolderOf, GateOf, GateSteps
  <2>2. CASE w # target[o]
    <3>1. /\ slot'[w] = slot[w] /\ slotSize'[w] = slotSize[w] /\ slotRevision'[w] = slotRevision[w]
          /\ size'[w] = size[w] /\ revision'[w] = revision[w] /\ gate'[w] = gate[w]
          /\ w \in live => w \in live'
          /\ \A p \in Ops \ {o} : pc'[p] = pc[p]
      BY <2>2 DEF PersistReserves, RInv, Shapes
    <3> QED
      BY <2>2, <3>1, MemoryElsewhere
  <2> QED
    BY <2>1, <2>2
<1>7. \A v, w \in Workspaces : OnlyOpen(v, w)'
  BY DEF PersistReserves, RInv, Shapes, OnlyOpen, SiblingsOf, MemoryOf
<1> QED
  BY <1>1, <1>2, <1>3, <1>4, <1>5, <1>6, <1>7 DEF RInv

\* A commit that fails, and may have happened, is followed by a restore.
LEMMA PersistCommitsStep ==
  ASSUME RInv, NEW o \in Ops, PersistCommits(o)
  PROVE  RInv'
<1>1. Shapes'
  BY SMTT(30) DEF PersistCommits, RInv, Shapes, Steps, GateSteps, UserSteps, Kinds
<1>2. \A p \in Ops : GateOf(p)'
  BY DEF PersistCommits, RInv, Shapes, GateOf, HolderOf, GateSteps
<1>3. \A p \in Ops : UserGateOf(p)'
  BY DEF PersistCommits, RInv, Shapes, UserGateOf, UserSteps
<1>4. \A p \in Ops : SiblingsOf(p)'
  BY DEF PersistCommits, RInv, Shapes, SiblingsOf, UserGateOf, UserSteps
<1>5. \A w \in Workspaces : HolderOf(w)'
  BY DEF PersistCommits, RInv, Shapes, HolderOf, GateOf, GateSteps
<1>6. ASSUME NEW w \in Workspaces
       PROVE  MemoryOf(w)'
  <2>1. CASE w = target[o]
    BY <2>1 DEF PersistCommits, RInv, Shapes, MemoryOf, HolderOf, GateOf, GateSteps
  <2>2. CASE w # target[o]
    <3>1. /\ slot'[w] = slot[w] /\ slotSize'[w] = slotSize[w] /\ slotRevision'[w] = slotRevision[w]
          /\ size'[w] = size[w] /\ revision'[w] = revision[w] /\ gate'[w] = gate[w]
          /\ w \in live => w \in live'
          /\ \A p \in Ops \ {o} : pc'[p] = pc[p]
      BY <2>2 DEF PersistCommits, RInv, Shapes
    <3> QED
      BY <2>2, <3>1, MemoryElsewhere
  <2> QED
    BY <2>1, <2>2
<1>7. \A v, w \in Workspaces : OnlyOpen(v, w)'
  BY DEF PersistCommits, RInv, Shapes, OnlyOpen, SiblingsOf, MemoryOf
<1> QED
  BY <1>1, <1>2, <1>3, <1>4, <1>5, <1>6, <1>7 DEF RInv

\* What is restored is committed, or is not in memory.
LEMMA RestoreStep ==
  ASSUME RInv, NEW o \in Ops, Restore(o)
  PROVE  RInv'
<1>1. Shapes'
  BY DEF Restore, RInv, Shapes, Steps, GateSteps, UserSteps, Kinds
<1>2. \A p \in Ops : GateOf(p)'
  BY DEF Restore, RInv, Shapes, GateOf, HolderOf, GateSteps
<1>3. \A p \in Ops : UserGateOf(p)'
  BY DEF Restore, RInv, Shapes, UserGateOf, UserSteps
<1>4. \A p \in Ops : SiblingsOf(p)'
  BY DEF Restore, RInv, Shapes, SiblingsOf, UserGateOf, UserSteps
<1>5. \A w \in Workspaces : HolderOf(w)'
  BY DEF Restore, RInv, Shapes, HolderOf, GateOf, GateSteps
<1>6. ASSUME NEW w \in Workspaces
       PROVE  MemoryOf(w)'
  <2>1. CASE w = target[o]
    <3>1. gate[w] \in {o, NoOp} /\ gate'[w] \in {o, NoOp}
      BY <2>1 DEF Restore, RInv, Shapes, GateOf, GateSteps
    <3>2. MemoryOf(w)
      BY DEF RInv
    <3>3. CASE gate'[w] = NoOp
      <4>1. Loaded(w)' => w \in live' /\ Committed(w)'
        BY <2>1, <3>1, <3>2, <3>3 DEF Restore, RInv, Shapes, MemoryOf, GateOf, GateSteps
      <4> QED
        BY <3>3, <4>1, MemoryWhenFree
    <3>4. CASE gate'[w] = o
      <4>1. /\ Loaded(w)' => w \in live' /\ (Committed(w)' \/ pc'[o] = "restore")
            /\ Loaded(w)' => pc'[o] \notin {"load", "verify"}
            /\ pc'[o] = "load" => w \in live'
        BY <2>1, <3>1, <3>2, <3>4 DEF Restore, RInv, Shapes, MemoryOf, BodyEnds
      <4> QED
        BY <3>4, <4>1, MemoryWhenHeld
    <3> QED
      BY <3>1, <3>3, <3>4
  <2>2. CASE w # target[o]
    <3>1. /\ slot'[w] = slot[w] /\ slotSize'[w] = slotSize[w] /\ slotRevision'[w] = slotRevision[w]
          /\ size'[w] = size[w] /\ revision'[w] = revision[w] /\ gate'[w] = gate[w]
          /\ w \in live => w \in live'
          /\ \A p \in Ops \ {o} : pc'[p] = pc[p]
      BY <2>2 DEF Restore, RInv, Shapes
    <3> QED
      BY <2>2, <3>1, MemoryElsewhere
  <2> QED
    BY <2>1, <2>2
<1>7. \A v, w \in Workspaces : OnlyOpen(v, w)'
  BY DEF Restore, RInv, Shapes, OnlyOpen, SiblingsOf, MemoryOf
<1> QED
  BY <1>1, <1>2, <1>3, <1>4, <1>5, <1>6, <1>7 DEF RInv

-----------------------------------------------------------------------------
(* A step of analysis work, and of the service.                            *)

\* Work changes neither the memory nor the disk.
LEMMA SubmitWorkStep ==
  ASSUME RInv, NEW u \in Workspaces, SubmitWork(u)
  PROVE  RInv'
<1>1. Shapes'
  BY DEF SubmitWork, RInv, Shapes, Steps, GateSteps, UserSteps, Kinds
<1>2. \A p \in Ops : GateOf(p)'
  BY DEF SubmitWork, RInv, Shapes, GateOf, HolderOf, GateSteps
<1>3. \A p \in Ops : UserGateOf(p)'
  BY DEF SubmitWork, RInv, Shapes, UserGateOf, UserSteps
<1>4. \A p \in Ops : SiblingsOf(p)'
  BY DEF SubmitWork, RInv, Shapes, SiblingsOf, UserGateOf, UserSteps
<1>5. \A w \in Workspaces : HolderOf(w)'
  BY DEF SubmitWork, RInv, Shapes, HolderOf, GateOf, GateSteps
<1>6. \A w \in Workspaces : MemoryOf(w)'
  BY DEF SubmitWork, RInv, Shapes, MemoryOf, HolderOf, GateOf, GateSteps
<1>7. \A v, w \in Workspaces : OnlyOpen(v, w)'
  BY DEF SubmitWork, RInv, Shapes, OnlyOpen, SiblingsOf, MemoryOf
<1> QED
  BY <1>1, <1>2, <1>3, <1>4, <1>5, <1>6, <1>7 DEF RInv

\* A completion commits to memory and disk alike, while the gate is free.
LEMMA WorkEndsStep ==
  ASSUME RInv, NEW u \in Workspaces, WorkEnds(u)
  PROVE  RInv'
<1>1. Shapes'
  BY DEF WorkEnds, RInv, Shapes, Steps, GateSteps, UserSteps, Kinds
<1>2. \A p \in Ops : GateOf(p)'
  BY DEF WorkEnds, RInv, Shapes, GateOf, HolderOf, GateSteps
<1>3. \A p \in Ops : UserGateOf(p)'
  BY DEF WorkEnds, RInv, Shapes, UserGateOf, UserSteps
<1>4. \A p \in Ops : SiblingsOf(p)'
  BY DEF WorkEnds, RInv, Shapes, SiblingsOf, UserGateOf, UserSteps
<1>5. \A w \in Workspaces : HolderOf(w)'
  BY DEF WorkEnds, RInv, Shapes, HolderOf, GateOf, GateSteps
<1>6. \A w \in Workspaces : MemoryOf(w)'
  BY DEF WorkEnds, RInv, Shapes, MemoryOf, HolderOf, GateOf, GateSteps
<1>7. \A v, w \in Workspaces : OnlyOpen(v, w)'
  BY DEF WorkEnds, RInv, Shapes, OnlyOpen, SiblingsOf, MemoryOf
<1> QED
  BY <1>1, <1>2, <1>3, <1>4, <1>5, <1>6, <1>7 DEF RInv

\* What is closed is not in memory.
LEMMA FinalizeStep ==
  ASSUME RInv, NEW u \in Workspaces, Finalize(u)
  PROVE  RInv'
<1>1. Shapes'
  BY DEF Finalize, RInv, Shapes, Steps, GateSteps, UserSteps, Kinds
<1>2. \A p \in Ops : GateOf(p)'
  BY DEF Finalize, RInv, Shapes, GateOf, HolderOf, GateSteps
<1>3. \A p \in Ops : UserGateOf(p)'
  BY DEF Finalize, RInv, Shapes, UserGateOf, UserSteps
<1>4. \A p \in Ops : SiblingsOf(p)'
  BY DEF Finalize, RInv, Shapes, SiblingsOf, UserGateOf, UserSteps
<1>5. \A w \in Workspaces : HolderOf(w)'
  BY DEF Finalize, RInv, Shapes, HolderOf, GateOf, GateSteps
<1>6. \A w \in Workspaces : MemoryOf(w)'
  BY DEF Finalize, RInv, Shapes, MemoryOf, HolderOf, GateOf, GateSteps
<1>7. \A v, w \in Workspaces : OnlyOpen(v, w)'
  BY DEF Finalize, RInv, Shapes, OnlyOpen, SiblingsOf, MemoryOf
<1> QED
  BY <1>1, <1>2, <1>3, <1>4, <1>5, <1>6, <1>7 DEF RInv

\* What is closed is not in memory.
LEMMA StopClearsStep ==
  ASSUME RInv, NEW u \in Workspaces, StopClears(u)
  PROVE  RInv'
<1>1. Shapes'
  BY DEF StopClears, RInv, Shapes, Steps, GateSteps, UserSteps, Kinds
<1>2. \A p \in Ops : GateOf(p)'
  BY DEF StopClears, RInv, Shapes, GateOf, HolderOf, GateSteps
<1>3. \A p \in Ops : UserGateOf(p)'
  BY DEF StopClears, RInv, Shapes, UserGateOf, UserSteps
<1>4. \A p \in Ops : SiblingsOf(p)'
  BY DEF StopClears, RInv, Shapes, SiblingsOf, UserGateOf, UserSteps
<1>5. \A w \in Workspaces : HolderOf(w)'
  BY DEF StopClears, RInv, Shapes, HolderOf, GateOf, GateSteps
<1>6. \A w \in Workspaces : MemoryOf(w)'
  BY DEF StopClears, RInv, Shapes, MemoryOf, HolderOf, GateOf, GateSteps
<1>7. \A v, w \in Workspaces : OnlyOpen(v, w)'
  BY DEF StopClears, RInv, Shapes, OnlyOpen, SiblingsOf, MemoryOf
<1> QED
  BY <1>1, <1>2, <1>3, <1>4, <1>5, <1>6, <1>7 DEF RInv

\* Nothing is accepted any more; the rest stays.
LEMMA StopStep ==
  ASSUME RInv, Stop
  PROVE  RInv'
<1>1. Shapes'
  BY DEF Stop, RInv, Shapes, Steps, GateSteps, UserSteps, Kinds
<1>2. \A p \in Ops : GateOf(p)'
  BY DEF Stop, RInv, Shapes, GateOf, HolderOf, GateSteps
<1>3. \A p \in Ops : UserGateOf(p)'
  BY DEF Stop, RInv, Shapes, UserGateOf, UserSteps
<1>4. \A p \in Ops : SiblingsOf(p)'
  BY DEF Stop, RInv, Shapes, SiblingsOf, UserGateOf, UserSteps
<1>5. \A w \in Workspaces : HolderOf(w)'
  BY DEF Stop, RInv, Shapes, HolderOf, GateOf, GateSteps
<1>6. \A w \in Workspaces : MemoryOf(w)'
  BY DEF Stop, RInv, Shapes, MemoryOf, HolderOf, GateOf, GateSteps
<1>7. \A v, w \in Workspaces : OnlyOpen(v, w)'
  BY DEF Stop, RInv, Shapes, OnlyOpen, SiblingsOf, MemoryOf
<1> QED
  BY <1>1, <1>2, <1>3, <1>4, <1>5, <1>6, <1>7 DEF RInv

-----------------------------------------------------------------------------
(* The theorems.                                                           *)

\* Every step of an operation preserves the invariant.
LEMMA OpStepPreserves ==
  ASSUME RInv, NEW o \in Ops, OpStep(o)
  PROVE  RInv'
<1>1. CASE OpenStep(o)
  BY <1>1, GetTargetStep, ScanStep, LookAtSiblingsStep, CloseSiblingStep, OpenEntersStep,
     OpenLoadsStep DEF OpenStep
<1>2. CASE MutateStep(o)
  BY <1>2, NothingChangedStep, PersistReservesStep, PersistCommitsStep, RestoreStep
     DEF MutateStep
<1>3. CASE \/ EnterUserGate(o) \/ Close(o) \/ DeleteEnters(o) \/ DeleteRemoves(o) \/ Create(o)
           \/ ImportPublishes(o) \/ ImportVerifies(o) \/ MutateEnters(o)
  BY <1>3, EnterUserGateStep, CloseStep, DeleteEntersStep, DeleteRemovesStep, CreateStep,
     ImportPublishesStep, ImportVerifiesStep, MutateEntersStep
<1> QED
  BY <1>1, <1>2, <1>3 DEF OpStep

\* The invariant is inductive.
LEMMA NextRInv ==
  ASSUME RInv, [RuntimeNext]_runtimeVars
  PROVE  RInv'
<1>1. CASE RuntimeNext
  <2>1. CASE \E o \in Ops : Begin(o) \/ OpStep(o)
    BY <2>1, BeginStep, OpStepPreserves
  <2>2. CASE \E w \in Workspaces : SubmitWork(w) \/ WorkEnds(w) \/ Finalize(w) \/ StopClears(w)
    BY <2>2, SubmitWorkStep, WorkEndsStep, FinalizeStep, StopClearsStep
  <2> QED
    BY <1>1, <2>1, <2>2, StopStep DEF RuntimeNext
<1>2. CASE UNCHANGED runtimeVars
  BY <1>2 DEF runtimeVars, RInv, Shapes, GateOf, HolderOf, UserGateOf, MemoryOf, SiblingsOf, OnlyOpen
<1> QED
  BY <1>1, <1>2

\* The gates have one holder each, memory is committed unless a failed commit
\* is being taken back, and a user has one open Workspace at most.
THEOREM RuntimeInvariance == RuntimeSpec => []RInv
<1>1. RuntimeInit => RInv
  BY InitRInv
<1>2. RInv /\ [RuntimeNext]_runtimeVars => RInv'
  BY NextRInv
<1> QED
  BY <1>1, <1>2, PTL DEF RuntimeSpec

\* What is open is the committed snapshot of a directory that exists, whenever
\* nobody holds its gate, however the commits, imports and deletions fail.
THEOREM OpenIsCommitted == RuntimeSpec => []MemoryIsCommitted
<1>1. RInv => MemoryIsCommitted
  BY DEF RInv, MemoryOf, MemoryIsCommitted
<1> QED
  BY <1>1, RuntimeInvariance, PTL

\* A user has one open Workspace at most, those apart which a listing took for
\* unavailable: whatever opens, closes, deletes and commits at the same time.
THEOREM OneOpenPerUser == RuntimeSpec => []OneIsOpen
<1>1. ASSUME RInv, NEW u \in Users
      PROVE  Cardinality({w \in Owned(u) : slot[w] = "open"} \ missed) <= 1
  <2> DEFINE S == {w \in Owned(u) : slot[w] = "open"} \ missed
  <2>1. \A v, w \in S : v = w
    BY <1>1 DEF RInv, OnlyOpen
  <2>2. CASE S = {}
    BY <2>2, FS_EmptySet
  <2>3. CASE S # {}
    <3>1. PICK x \in S : TRUE
      BY <2>3
    <3>2. S = {x}
      BY <2>1, <3>1
    <3> QED
      BY <3>2, FS_Singleton
  <2> QED
    BY <2>2, <2>3
<1>2. RInv => OneIsOpen
  BY <1>1 DEF OneIsOpen
<1> QED
  BY <1>2, RuntimeInvariance, PTL

-----------------------------------------------------------------------------
(* The memory that open Workspaces take.                                   *)

Numbers ==
  /\ pc \in [Ops -> Steps \ {"open", "none"}]
  /\ held \in [Ops -> Nat] /\ staged \in [Ops -> Nat]
  /\ capacity \in Nat /\ lost \in Nat
  /\ size \in [Workspaces -> Nat] /\ revision \in [Workspaces -> Nat]
  /\ slotSize \in [Workspaces -> Nat] /\ slotRevision \in [Workspaces -> Nat]
  /\ live \in SUBSET Workspaces /\ missed \in SUBSET Workspaces
  /\ work \in SUBSET Workspaces /\ unfinished \in SUBSET Workspaces
  /\ finalizing \in SUBSET Workspaces

\* An opening has reserved no more than the whole snapshot takes, and a commit
\* what its Workspace grows by; nothing else has reserved anything.
ReservedBy(o) ==
  /\ pc[o] \notin {"load", "commit"} => held[o] = 0
  /\ pc[o] = "load" => held[o] <= size[target[o]]
  /\ pc[o] = "commit" => held[o] = Growth(staged[o], slotSize[target[o]])
  /\ pc[o] \in {"persist", "commit", "restore"} => Loaded(target[o])
  /\ pc[o] = "userGate" => kind[o] \in {"open", "close", "delete"}

Vacant(w) == ~Loaded(w) => slotSize[w] = 0

Exact ==
  /\ IsFiniteSet(Units(slotSize, Workspaces)) /\ IsFiniteSet(Units(held, Ops))
  /\ capacity <= Limit
  /\ capacity + lost >= Sum(slotSize, Workspaces) + Sum(held, Ops)
  /\ lost = 0 => capacity = Sum(slotSize, Workspaces) + Sum(held, Ops)

CapInv ==
  /\ Numbers /\ Exact
  /\ \A o \in Ops : ReservedBy(o)
  /\ \A w \in Workspaces : Vacant(w)

\* A nonempty set of numbers has a least one.
LEMMA LeastSize == Min(Sizes) \in Sizes /\ Min(Sizes) \in Nat
<1> DEFINE T == {0 .. s : s \in Sizes}
<1>1. Sizes \subseteq Nat /\ Sizes # {}
  OBVIOUS
<1>2. T \subseteq FiniteSubsetsOf(Nat) /\ T # {}
  <2>1. \A s \in Sizes : IsFiniteSet(0 .. s) /\ 0 .. s \subseteq Nat
    BY <1>1, FS_Interval
  <2>2. \A s \in Sizes : 0 .. s \in FiniteSubsetsOf(Nat)
    BY <2>1 DEF FiniteSubsetsOf
  <2>3. ASSUME NEW X \in T
        PROVE  X \in FiniteSubsetsOf(Nat)
    BY <2>2
  <2>4. PICK s \in Sizes : TRUE
    BY <1>1
  <2>5. 0 .. s \in T
    OBVIOUS
  <2> QED
    BY <2>3, <2>5
<1>3. \E X \in T : \A Y \in T : <<Y, X>> \notin StrictSubsetOrdering(Nat)
  <2> HIDE DEF T
  <2>1. IsWellFoundedOn(StrictSubsetOrdering(Nat), FiniteSubsetsOf(Nat))
    BY FS_StrictSubsetOrderingWellFounded
  <2> QED
    BY <1>2, <2>1, WFMin, Zenon
<1>4. PICK x \in Sizes : \A y \in Sizes : <<0 .. y, 0 .. x>> \notin StrictSubsetOrdering(Nat)
  BY <1>3
<1>5. \A y \in Sizes : x <= y
  <2>1. ASSUME NEW y \in Sizes, y < x
        PROVE  FALSE
    <3>1. y \in Nat /\ x \in Nat
      BY <1>1
    <3>2. 0 .. y \subseteq 0 .. x /\ x \in 0 .. x /\ x \notin 0 .. y
      BY <2>1, <3>1
    <3>3. 0 .. y \in SUBSET Nat /\ 0 .. x \in SUBSET Nat
      BY <3>1
    <3> QED
      BY <1>4, <3>2, <3>3 DEF StrictSubsetOrdering
  <2> QED
    BY <1>1, <2>1
<1>6. Min(Sizes) \in Sizes
  BY <1>5 DEF Min
<1> QED
  BY <1>1, <1>6

\* Nothing is in memory at first and nothing is reserved.
LEMMA InitCapInv ==
  ASSUME RuntimeInit
  PROVE  CapInv
<1>1. Min(Sizes) \in Nat
  BY LeastSize
<1>2. Numbers
  BY <1>1 DEF RuntimeInit, Numbers, Steps, Kinds
<1>3. Exact
  <2>1. IsFiniteSet(Units(slotSize, Workspaces)) /\ Sum(slotSize, Workspaces) = 0
    BY SumOfNothing DEF RuntimeInit
  <2>2. IsFiniteSet(Units(held, Ops)) /\ Sum(held, Ops) = 0
    BY SumOfNothing DEF RuntimeInit
  <2>3. Limit \in Nat
    OBVIOUS
  <2> QED
    BY <2>1, <2>2, <2>3 DEF RuntimeInit, Exact
<1>4. \A o \in Ops : ReservedBy(o)
  BY DEF RuntimeInit, ReservedBy
<1>5. \A w \in Workspaces : Vacant(w)
  BY DEF RuntimeInit, Vacant
<1> QED
  BY <1>2, <1>3, <1>4, <1>5 DEF CapInv

\* Neither the aggregates nor the reservations change.
LEMMA ExactStays ==
  ASSUME Exact, UNCHANGED <<slotSize, held, capacity, lost>>
  PROVE  Exact'
BY DEF Exact

\* What clearing a slot gives back is what its aggregate took.
LEMMA ExactAfterClear ==
  ASSUME CapInv, NEW w \in Workspaces, Clear(w), UNCHANGED <<held, lost>>
  PROVE  Exact' /\ capacity' \in Nat
<1>1. /\ slotSize[w] \in Nat /\ slotSize'[w] = 0 /\ \A v \in Workspaces \ {w} : slotSize'[v] = slotSize[v]
      /\ capacity \in Nat /\ lost \in Nat
  BY DEF CapInv, Numbers
<1>2. /\ IsFiniteSet(Units(slotSize', Workspaces))
      /\ Sum(slotSize, Workspaces) \in Nat /\ Sum(slotSize', Workspaces) \in Nat
      /\ Sum(slotSize', Workspaces) + slotSize[w] = Sum(slotSize, Workspaces) + slotSize'[w]
      /\ slotSize[w] <= Sum(slotSize, Workspaces)
  <2> DEFINE g == slotSize'
  <2>1. IsFiniteSet(Units(slotSize, Workspaces))
    BY DEF CapInv, Exact
  <2>2. g[w] \in Nat /\ \A v \in Workspaces \ {w} : g[v] = slotSize[v]
    BY <1>1
  <2>3. slotSize[w] \in Nat
    BY <1>1
  <2> HIDE DEF g
  <2>4. /\ IsFiniteSet(Units(g, Workspaces))
        /\ Sum(slotSize, Workspaces) \in Nat /\ Sum(g, Workspaces) \in Nat
        /\ Sum(g, Workspaces) + slotSize[w] = Sum(slotSize, Workspaces) + g[w]
        /\ slotSize[w] <= Sum(slotSize, Workspaces)
    BY <2>1, <2>2, <2>3, SumChanges
  <2> QED
    BY <2>4 DEF g
<1>3. Sum(held, Ops) \in Nat /\ Sum(held', Ops) = Sum(held, Ops) /\ IsFiniteSet(Units(held', Ops))
  BY FS_CardinalityType DEF CapInv, Exact, Sum
<1>4. capacity' = IF capacity > slotSize[w] THEN capacity - slotSize[w] ELSE 0
  BY DEF Less, Growth
<1> QED
  BY <1>1, <1>2, <1>3, <1>4 DEF CapInv, Exact

\* A request reserves nothing before its step.
LEMMA BeginCap ==
  ASSUME RInv, CapInv, NEW o \in Ops, Begin(o)
  PROVE  CapInv'
<1>1. Numbers'
  BY SMTT(30) DEF Begin, CapInv, RInv, Shapes, Numbers, ReservedBy, Steps, GateSteps,
     UserSteps, Kinds
<1>2. \A p \in Ops : ReservedBy(p)'
  BY SMTT(30) DEF Begin, CapInv, RInv, Shapes, Numbers, ReservedBy, MemoryOf, HolderOf,
     GateOf, GateSteps
<1>3. \A v \in Workspaces : Vacant(v)'
  BY DEF Begin, CapInv, RInv, Shapes, Numbers, Vacant
<1>4. Exact'
  BY ExactStays DEF Begin, CapInv
<1> QED
  BY <1>1, <1>2, <1>3, <1>4 DEF CapInv

\* It goes on to the step of its kind, which reserves nothing.
LEMMA EnterUserGateCap ==
  ASSUME RInv, CapInv, NEW o \in Ops, EnterUserGate(o)
  PROVE  CapInv'
<1>1. Numbers'
  BY DEF EnterUserGate, CapInv, RInv, Shapes, Numbers, ReservedBy, Steps, GateSteps, UserSteps,
         Kinds
<1>2. \A p \in Ops : ReservedBy(p)'
  BY DEF EnterUserGate, CapInv, RInv, Shapes, Numbers, ReservedBy, MemoryOf, HolderOf, GateOf,
         GateSteps
<1>3. \A v \in Workspaces : Vacant(v)'
  BY DEF EnterUserGate, CapInv, RInv, Shapes, Numbers, Vacant
<1>4. Exact'
  BY ExactStays DEF EnterUserGate, CapInv
<1> QED
  BY <1>1, <1>2, <1>3, <1>4 DEF CapInv

\* Looking at the target reserves nothing.
LEMMA GetTargetCap ==
  ASSUME RInv, CapInv, NEW o \in Ops, GetTarget(o)
  PROVE  CapInv'
<1>1. Numbers'
  BY DEF GetTarget, CapInv, RInv, Shapes, Numbers, ReservedBy, Steps, GateSteps, UserSteps, Kinds
<1>2. \A p \in Ops : ReservedBy(p)'
  BY DEF GetTarget, CapInv, RInv, Shapes, Numbers, ReservedBy, MemoryOf, HolderOf, GateOf,
         GateSteps
<1>3. \A v \in Workspaces : Vacant(v)'
  BY DEF GetTarget, CapInv, RInv, Shapes, Numbers, Vacant
<1>4. Exact'
  BY ExactStays DEF GetTarget, CapInv
<1> QED
  BY <1>1, <1>2, <1>3, <1>4 DEF CapInv

\* Nor does reading the metadata files.
LEMMA ScanCap ==
  ASSUME RInv, CapInv, NEW o \in Ops, Scan(o)
  PROVE  CapInv'
<1>1. Numbers'
  BY DEF Scan, CapInv, RInv, Shapes, Numbers, ReservedBy, Steps, GateSteps, UserSteps, Kinds
<1>2. \A p \in Ops : ReservedBy(p)'
  BY DEF Scan, CapInv, RInv, Shapes, Numbers, ReservedBy, MemoryOf, HolderOf, GateOf, GateSteps
<1>3. \A v \in Workspaces : Vacant(v)'
  BY DEF Scan, CapInv, RInv, Shapes, Numbers, Vacant
<1>4. Exact'
  BY ExactStays DEF Scan, CapInv
<1> QED
  BY <1>1, <1>2, <1>3, <1>4 DEF CapInv

\* Nor does reading the plans.
LEMMA LookAtSiblingsCap ==
  ASSUME RInv, CapInv, NEW o \in Ops, LookAtSiblings(o)
  PROVE  CapInv'
<1>1. Numbers'
  BY DEF LookAtSiblings, CapInv, RInv, Shapes, Numbers, ReservedBy, Steps, GateSteps,
         UserSteps, Kinds
<1>2. \A p \in Ops : ReservedBy(p)'
  BY DEF LookAtSiblings, CapInv, RInv, Shapes, Numbers, ReservedBy, MemoryOf, HolderOf, GateOf,
         GateSteps
<1>3. \A v \in Workspaces : Vacant(v)'
  BY DEF LookAtSiblings, CapInv, RInv, Shapes, Numbers, Vacant
<1>4. Exact'
  BY ExactStays DEF LookAtSiblings, CapInv
<1> QED
  BY <1>1, <1>2, <1>3, <1>4 DEF CapInv

\* A deletion holds the gate and reserves nothing.
LEMMA DeleteEntersCap ==
  ASSUME RInv, CapInv, NEW o \in Ops, DeleteEnters(o)
  PROVE  CapInv'
<1>1. Numbers'
  <2>1. pc' = [pc EXCEPT ![o] = "remove"] \/ pc' = [pc EXCEPT ![o] = "done"]
    BY DEF DeleteEnters
  <2>2. pc' \in [Ops -> Steps \ {"open", "none"}]
    BY <2>1 DEF CapInv, Numbers, Steps, GateSteps, UserSteps, Kinds
  <2> QED
    BY <2>2 DEF DeleteEnters, CapInv, Numbers
<1>2. \A p \in Ops : ReservedBy(p)'
  BY DEF DeleteEnters, CapInv, RInv, Shapes, Numbers, ReservedBy
<1>3. \A v \in Workspaces : Vacant(v)'
  BY DEF DeleteEnters, CapInv, RInv, Shapes, Numbers, Vacant
<1>4. Exact'
  BY ExactStays DEF DeleteEnters, CapInv
<1> QED
  BY <1>1, <1>2, <1>3, <1>4 DEF CapInv

\* What is created is on disk only.
LEMMA CreateCap ==
  ASSUME RInv, CapInv, NEW o \in Ops, Create(o)
  PROVE  CapInv'
<1>1. Numbers'
  BY LeastSize
     DEF Create, CapInv, RInv, Shapes, Numbers, ReservedBy, Steps, GateSteps, UserSteps, Kinds
<1>2. \A p \in Ops : ReservedBy(p)'
  BY DEF Create, CapInv, RInv, Shapes, Numbers, ReservedBy, MemoryOf, HolderOf, GateOf, GateSteps
<1>3. \A v \in Workspaces : Vacant(v)'
  BY DEF Create, CapInv, RInv, Shapes, Numbers, Vacant
<1>4. Exact'
  BY ExactStays DEF Create, CapInv
<1> QED
  BY <1>1, <1>2, <1>3, <1>4 DEF CapInv

\* What is imported is on disk only; no opening is loading it, as it was not there.
LEMMA ImportPublishesCap ==
  ASSUME RInv, CapInv, NEW o \in Ops, ImportPublishes(o)
  PROVE  CapInv'
<1>1. Numbers'
  BY LeastSize, SMTT(30) DEF ImportPublishes, CapInv, RInv, Shapes, Numbers, ReservedBy, Steps,
     GateSteps, UserSteps, Kinds
<1>2. \A p \in Ops : ReservedBy(p)'
  BY DEF ImportPublishes, CapInv, RInv, Shapes, Numbers, ReservedBy, MemoryOf, HolderOf,
         GateOf, GateSteps
<1>3. \A v \in Workspaces : Vacant(v)'
  BY DEF ImportPublishes, CapInv, RInv, Shapes, Numbers, Vacant
<1>4. Exact'
  BY ExactStays DEF ImportPublishes, CapInv
<1> QED
  BY <1>1, <1>2, <1>3, <1>4 DEF CapInv

\* Verifying reads the disk only.
LEMMA ImportVerifiesCap ==
  ASSUME RInv, CapInv, NEW o \in Ops, ImportVerifies(o)
  PROVE  CapInv'
<1>1. Numbers'
  BY DEF ImportVerifies, CapInv, RInv, Shapes, Numbers, ReservedBy, Steps, GateSteps,
         UserSteps, Kinds
<1>2. \A p \in Ops : ReservedBy(p)'
  BY DEF ImportVerifies, CapInv, RInv, Shapes, Numbers, ReservedBy, MemoryOf, HolderOf, GateOf,
         GateSteps
<1>3. \A v \in Workspaces : Vacant(v)'
  BY DEF ImportVerifies, CapInv, RInv, Shapes, Numbers, Vacant
<1>4. Exact'
  BY ExactStays DEF ImportVerifies, CapInv
<1> QED
  BY <1>1, <1>2, <1>3, <1>4 DEF CapInv

\* A mutation has an aggregate in memory and has reserved nothing yet.
LEMMA MutateEntersCap ==
  ASSUME RInv, CapInv, NEW o \in Ops, MutateEnters(o)
  PROVE  CapInv'
<1>1. Numbers'
  BY DEF MutateEnters, CapInv, RInv, Shapes, Numbers, ReservedBy, Steps, GateSteps, UserSteps,
         Kinds
<1>2. \A p \in Ops : ReservedBy(p)'
  BY DEF MutateEnters, CapInv, RInv, Shapes, Numbers, ReservedBy, MemoryOf, HolderOf, GateOf,
         GateSteps
<1>3. \A v \in Workspaces : Vacant(v)'
  BY DEF MutateEnters, CapInv, RInv, Shapes, Numbers, Vacant
<1>4. Exact'
  BY ExactStays DEF MutateEnters, CapInv
<1> QED
  BY <1>1, <1>2, <1>3, <1>4 DEF CapInv

\* Nothing is staged and nothing is reserved.
LEMMA NothingChangedCap ==
  ASSUME RInv, CapInv, NEW o \in Ops, NothingChanged(o)
  PROVE  CapInv'
<1>1. Numbers'
  BY DEF NothingChanged, CapInv, RInv, Shapes, Numbers, ReservedBy, Steps, GateSteps,
         UserSteps, Kinds
<1>2. \A p \in Ops : ReservedBy(p)'
  BY DEF NothingChanged, CapInv, RInv, Shapes, Numbers, ReservedBy, MemoryOf, HolderOf, GateOf,
         GateSteps
<1>3. \A v \in Workspaces : Vacant(v)'
  BY DEF NothingChanged, CapInv, RInv, Shapes, Numbers, Vacant
<1>4. Exact'
  BY ExactStays DEF NothingChanged, CapInv
<1> QED
  BY <1>1, <1>2, <1>3, <1>4 DEF CapInv

\* Admitted work takes no open capacity.
LEMMA SubmitWorkCap ==
  ASSUME RInv, CapInv, NEW u \in Workspaces, SubmitWork(u)
  PROVE  CapInv'
<1>1. Numbers'
  BY DEF SubmitWork, CapInv, RInv, Shapes, Numbers, ReservedBy, Steps, GateSteps, UserSteps, Kinds
<1>2. \A p \in Ops : ReservedBy(p)'
  BY DEF SubmitWork, CapInv, RInv, Shapes, Numbers, ReservedBy, MemoryOf, HolderOf, GateOf,
         GateSteps
<1>3. \A v \in Workspaces : Vacant(v)'
  BY DEF SubmitWork, CapInv, RInv, Shapes, Numbers, Vacant
<1>4. Exact'
  BY ExactStays DEF SubmitWork, CapInv
<1> QED
  BY <1>1, <1>2, <1>3, <1>4 DEF CapInv

\* A completion leaves the size of its Workspace as it is.
LEMMA WorkEndsCap ==
  ASSUME RInv, CapInv, NEW u \in Workspaces, WorkEnds(u)
  PROVE  CapInv'
<1>1. Numbers'
  BY DEF WorkEnds, CapInv, RInv, Shapes, Numbers, ReservedBy, Steps, GateSteps, UserSteps, Kinds
<1>2. \A p \in Ops : ReservedBy(p)'
  BY DEF WorkEnds, CapInv, RInv, Shapes, Numbers, ReservedBy, MemoryOf, HolderOf, GateOf,
         GateSteps
<1>3. \A v \in Workspaces : Vacant(v)'
  BY DEF WorkEnds, CapInv, RInv, Shapes, Numbers, Vacant
<1>4. Exact'
  BY ExactStays DEF WorkEnds, CapInv
<1> QED
  BY <1>1, <1>2, <1>3, <1>4 DEF CapInv

\* Nothing is given back before the slots are cleared.
LEMMA StopCap ==
  ASSUME RInv, CapInv, Stop
  PROVE  CapInv'
<1>1. Numbers'
  BY DEF Stop, CapInv, RInv, Shapes, Numbers, ReservedBy, Steps, GateSteps, UserSteps, Kinds
<1>2. \A p \in Ops : ReservedBy(p)'
  BY DEF Stop, CapInv, RInv, Shapes, Numbers, ReservedBy, MemoryOf, HolderOf, GateOf, GateSteps
<1>3. \A v \in Workspaces : Vacant(v)'
  BY DEF Stop, CapInv, RInv, Shapes, Numbers, Vacant
<1>4. Exact'
  BY ExactStays DEF Stop, CapInv
<1> QED
  BY <1>1, <1>2, <1>3, <1>4 DEF CapInv


-----------------------------------------------------------------------------
(* The steps that clear or load a slot, or reserve.                        *)

\* Closing at once clears the slot, closing later keeps what it takes.
LEMMA AfterClosing ==
  ASSUME CapInv, NEW w \in Workspaces, Clear(w) \/ UNCHANGED <<slotVars, capacity>>,
         UNCHANGED <<held, lost>>
  PROVE  /\ Exact' /\ capacity' \in Nat
         /\ slotSize' \in [Workspaces -> Nat] /\ slotRevision' \in [Workspaces -> Nat]
<1>1. CASE Clear(w)
  BY <1>1, ExactAfterClear DEF CapInv, Numbers
<1>2. CASE UNCHANGED <<slotVars, capacity>>
  BY <1>2, ExactStays DEF CapInv, Numbers
<1> QED
  BY <1>1, <1>2

\* The same of a request to close.
LEMMA AfterRequest ==
  ASSUME CapInv, NEW w \in Workspaces, RequestClose(w), UNCHANGED <<held, lost>>
  PROVE  /\ Exact' /\ capacity' \in Nat
         /\ slotSize' \in [Workspaces -> Nat] /\ slotRevision' \in [Workspaces -> Nat]
<1>1. CASE Clear(w) \/ UNCHANGED <<slotVars, capacity>>
  BY <1>1, AfterClosing
<1>2. CASE UNCHANGED <<slotSize, slotRevision, capacity>>
  BY <1>2, ExactStays DEF CapInv, Numbers
<1> QED
  BY <1>1, <1>2 DEF RequestClose

\* A sibling that is closed gives back what it took.
LEMMA CloseSiblingCap ==
  ASSUME RInv, CapInv, NEW o \in Ops, CloseSibling(o)
  PROVE  CapInv'
<1>1. /\ Exact' /\ capacity' \in Nat
      /\ slotSize' \in [Workspaces -> Nat] /\ slotRevision' \in [Workspaces -> Nat]
  BY AfterRequest DEF CloseSibling, RInv, Shapes
<1>2. Numbers'
  BY <1>1 DEF CloseSibling, CapInv, RInv, Shapes, Numbers, ReservedBy, Steps, GateSteps,
     UserSteps, Kinds
<1>3. \A p \in Ops : ReservedBy(p)'
  BY DEF CloseSibling, CapInv, RInv, Shapes, Numbers, ReservedBy, HolderOf, GateOf, GateSteps
<1>4. \A v \in Workspaces : Vacant(v)'
  BY DEF CloseSibling, CapInv, RInv, Shapes, Numbers, Vacant
<1> QED
  BY <1>1, <1>2, <1>3, <1>4 DEF CapInv

\* A Workspace that is closed gives back what it took.
LEMMA CloseCap ==
  ASSUME RInv, CapInv, NEW o \in Ops, Close(o)
  PROVE  CapInv'
<1>1. /\ Exact' /\ capacity' \in Nat
      /\ slotSize' \in [Workspaces -> Nat] /\ slotRevision' \in [Workspaces -> Nat]
  BY AfterRequest DEF Close, RInv, Shapes
<1>2. Numbers'
  BY <1>1 DEF Close, CapInv, RInv, Shapes, Numbers, ReservedBy, Steps, GateSteps, UserSteps, Kinds
<1>3. \A p \in Ops : ReservedBy(p)'
  BY DEF Close, CapInv, RInv, Shapes, Numbers, ReservedBy, HolderOf, GateOf, GateSteps
<1>4. \A v \in Workspaces : Vacant(v)'
  BY DEF Close, CapInv, RInv, Shapes, Numbers, Vacant
<1> QED
  BY <1>1, <1>2, <1>3, <1>4 DEF CapInv

\* So does one that is removed; a failed removal keeps it.
LEMMA DeleteRemovesCap ==
  ASSUME RInv, CapInv, NEW o \in Ops, DeleteRemoves(o)
  PROVE  CapInv'
<1>1. /\ Exact' /\ capacity' \in Nat
      /\ slotSize' \in [Workspaces -> Nat] /\ slotRevision' \in [Workspaces -> Nat]
  <2>1. target[o] \in Workspaces
    BY DEF RInv, Shapes
  <2>2. Clear(target[o]) \/ UNCHANGED <<slotVars, capacity>>
    BY DEF DeleteRemoves
  <2>3. UNCHANGED <<held, lost>>
    BY DEF DeleteRemoves
  <2> QED
    BY <2>1, <2>2, <2>3, AfterClosing
<1>2. Numbers'
  BY <1>1, ZenonT(60) DEF DeleteRemoves, CapInv, RInv, Shapes, Numbers, ReservedBy, Steps,
     GateSteps,
     UserSteps, Kinds
<1>3. \A p \in Ops : ReservedBy(p)'
  BY DEF DeleteRemoves, CapInv, RInv, Shapes, Numbers, ReservedBy, HolderOf, GateOf, GateSteps
<1>4. \A v \in Workspaces : Vacant(v)'
  BY DEF DeleteRemoves, CapInv, RInv, Shapes, Numbers, Vacant
<1> QED
  BY <1>1, <1>2, <1>3, <1>4 DEF CapInv

\* So does one that was closing.
LEMMA FinalizeCap ==
  ASSUME RInv, CapInv, NEW u \in Workspaces, Finalize(u)
  PROVE  CapInv'
<1>1. /\ Exact' /\ capacity' \in Nat
      /\ slotSize' \in [Workspaces -> Nat] /\ slotRevision' \in [Workspaces -> Nat]
  <2>1. u \in Workspaces
    BY DEF RInv, Shapes
  <2>2. Clear(u) \/ UNCHANGED <<slotVars, capacity>>
    BY DEF Finalize
  <2>3. UNCHANGED <<held, lost>>
    BY DEF Finalize
  <2> QED
    BY <2>1, <2>2, <2>3, AfterClosing
<1>2. Numbers'
  BY <1>1
     DEF Finalize, CapInv, RInv, Shapes, Numbers, ReservedBy, Steps, GateSteps, UserSteps, Kinds
<1>3. \A p \in Ops : ReservedBy(p)'
  BY DEF Finalize, CapInv, RInv, Shapes, Numbers, ReservedBy, HolderOf, GateOf, GateSteps
<1>4. \A v \in Workspaces : Vacant(v)'
  BY DEF Finalize, CapInv, RInv, Shapes, Numbers, Vacant
<1> QED
  BY <1>1, <1>2, <1>3, <1>4 DEF CapInv

\* So does every one when the service stops.
LEMMA StopClearsCap ==
  ASSUME RInv, CapInv, NEW u \in Workspaces, StopClears(u)
  PROVE  CapInv'
<1>1. /\ Exact' /\ capacity' \in Nat
      /\ slotSize' \in [Workspaces -> Nat] /\ slotRevision' \in [Workspaces -> Nat]
  BY AfterClosing DEF StopClears, RInv, Shapes
<1>2. Numbers'
  BY <1>1
     DEF StopClears, CapInv, RInv, Shapes, Numbers, ReservedBy, Steps, GateSteps, UserSteps, Kinds
<1>3. \A p \in Ops : ReservedBy(p)'
  BY DEF StopClears, CapInv, RInv, Shapes, Numbers, ReservedBy, HolderOf, GateOf, GateSteps
<1>4. \A v \in Workspaces : Vacant(v)'
  BY DEF StopClears, CapInv, RInv, Shapes, Numbers, Vacant
<1> QED
  BY <1>1, <1>2, <1>3, <1>4 DEF CapInv

\* What a step that changes one aggregate and one reservation does to the sums.
LEMMA TotalsMove ==
  ASSUME CapInv, NEW o \in Ops, NEW w \in Workspaces,
         slotSize'[w] \in Nat, \A v \in Workspaces \ {w} : slotSize'[v] = slotSize[v],
         held'[o] \in Nat, \A p \in Ops \ {o} : held'[p] = held[p]
  PROVE  /\ IsFiniteSet(Units(slotSize, Workspaces))' /\ IsFiniteSet(Units(held, Ops))'
         /\ Sum(slotSize, Workspaces) \in Nat /\ Sum(held, Ops) \in Nat
         /\ Sum(slotSize, Workspaces)' \in Nat /\ Sum(held, Ops)' \in Nat
         /\ Sum(slotSize, Workspaces)' + slotSize[w] = Sum(slotSize, Workspaces) + slotSize'[w]
         /\ Sum(held, Ops)' + held[o] = Sum(held, Ops) + held'[o]
         /\ slotSize[w] <= Sum(slotSize, Workspaces) /\ held[o] <= Sum(held, Ops)
<1> DEFINE g == slotSize'
           h == held'
<1>1. /\ IsFiniteSet(Units(slotSize, Workspaces)) /\ IsFiniteSet(Units(held, Ops))
      /\ slotSize[w] \in Nat /\ held[o] \in Nat
  BY DEF CapInv, Exact, Numbers
<1>2. g[w] \in Nat /\ \A v \in Workspaces \ {w} : g[v] = slotSize[v]
  OBVIOUS
<1>3. h[o] \in Nat /\ \A p \in Ops \ {o} : h[p] = held[p]
  OBVIOUS
<1> HIDE DEF g, h
<1>4. /\ IsFiniteSet(Units(g, Workspaces))
      /\ Sum(slotSize, Workspaces) \in Nat /\ Sum(g, Workspaces) \in Nat
      /\ Sum(g, Workspaces) + slotSize[w] = Sum(slotSize, Workspaces) + g[w]
      /\ slotSize[w] <= Sum(slotSize, Workspaces)
  BY <1>1, <1>2, SumChanges
<1>5. /\ IsFiniteSet(Units(h, Ops))
      /\ Sum(held, Ops) \in Nat /\ Sum(h, Ops) \in Nat
      /\ Sum(h, Ops) + held[o] = Sum(held, Ops) + h[o]
      /\ held[o] <= Sum(held, Ops)
  BY <1>1, <1>3, SumChanges
<1> QED
  BY <1>4, <1>5 DEF g, h

\* What is reserved is what has been inspected, and fits.
LEMMA OpenEntersCap ==
  ASSUME RInv, CapInv, NEW o \in Ops, OpenEnters(o)
  PROVE  CapInv'
<1> DEFINE w == target[o]
           S == Sum(slotSize, Workspaces)
           H == Sum(held, Ops)
<1>1. /\ w \in Workspaces /\ capacity \in Nat /\ lost \in Nat
      /\ size[w] \in Nat /\ slotSize[w] \in Nat /\ held[o] \in Nat /\ staged[o] \in Nat
      /\ Limit \in Nat /\ Sizes \subseteq Nat
      /\ capacity <= Limit /\ capacity + lost >= S + H /\ (lost = 0 => capacity = S + H)
  BY DEF CapInv, Numbers, Exact, RInv, Shapes
<1>2. /\ \A v \in Workspaces \ {w} : slotSize'[v] = slotSize[v]
      /\ \A p \in Ops \ {o} : held'[p] = held[p]
      /\ slotSize'[w] \in Nat /\ held'[o] \in Nat
      /\ slotSize'[w] = slotSize[w] /\ lost' = lost /\ held[o] = 0
      /\ capacity' = capacity + held'[o] /\ capacity' <= Limit
      /\ held'[o] <= size[w]
  BY <1>1 DEF OpenEnters, CapInv, Numbers, ReservedBy, Vacant, Growth, Less, RInv, MemoryOf,
     HolderOf, GateOf, GateSteps, Shapes
<1>3. /\ IsFiniteSet(Units(slotSize, Workspaces))' /\ IsFiniteSet(Units(held, Ops))'
      /\ S \in Nat /\ H \in Nat /\ S' \in Nat /\ H' \in Nat
      /\ S' + slotSize[w] = S + slotSize'[w] /\ H' + held[o] = H + held'[o]
      /\ slotSize[w] <= S /\ held[o] <= H
  BY <1>1, <1>2, TotalsMove
<1> HIDE DEF S, H
<1>4. Exact' /\ capacity' \in Nat /\ lost' \in Nat
  BY <1>1, <1>2, <1>3 DEF Exact, Growth, Less, S, H
<1>5. Numbers'
  BY <1>1, <1>2, <1>4, SMTT(30)
     DEF OpenEnters, CapInv, RInv, Shapes, Numbers, Steps, GateSteps, UserSteps, Kinds
<1>6. \A p \in Ops : ReservedBy(p)'
  BY <1>1, <1>2
     DEF OpenEnters, CapInv, RInv, Shapes, Numbers, ReservedBy, HolderOf, GateOf, GateSteps
<1>7. \A v \in Workspaces : Vacant(v)'
  BY <1>1, <1>2 DEF OpenEnters, CapInv, RInv, Shapes, Numbers, Vacant, ReservedBy
<1> QED
  BY <1>4, <1>5, <1>6, <1>7 DEF CapInv

\* The reservation becomes the size of the aggregate, or is given back.
LEMMA OpenLoadsCap ==
  ASSUME RInv, CapInv, NEW o \in Ops, OpenLoads(o)
  PROVE  CapInv'
<1> DEFINE w == target[o]
           S == Sum(slotSize, Workspaces)
           H == Sum(held, Ops)
<1>1. /\ w \in Workspaces /\ capacity \in Nat /\ lost \in Nat
      /\ size[w] \in Nat /\ slotSize[w] \in Nat /\ held[o] \in Nat /\ staged[o] \in Nat
      /\ Limit \in Nat /\ Sizes \subseteq Nat
      /\ capacity <= Limit /\ capacity + lost >= S + H /\ (lost = 0 => capacity = S + H)
  BY DEF CapInv, Numbers, Exact, RInv, Shapes
<1>2. /\ \A v \in Workspaces \ {w} : slotSize'[v] = slotSize[v]
      /\ \A p \in Ops \ {o} : held'[p] = held[p]
      /\ slotSize'[w] \in Nat /\ held'[o] \in Nat
      /\ slotSize[w] = 0 /\ lost' = lost /\ held'[o] = 0 /\ held[o] <= size[w]
      /\ \/ /\ slotSize'[w] = size[w] /\ capacity' = capacity + (size[w] - held[o])
            /\ capacity' <= Limit
         \/ slotSize'[w] = 0 /\ capacity' = Less(held[o])
  BY <1>1 DEF OpenLoads, CapInv, Numbers, ReservedBy, Vacant, Growth, Less, RInv, MemoryOf,
     HolderOf, GateOf, GateSteps, Shapes
<1>3. /\ IsFiniteSet(Units(slotSize, Workspaces))' /\ IsFiniteSet(Units(held, Ops))'
      /\ S \in Nat /\ H \in Nat /\ S' \in Nat /\ H' \in Nat
      /\ S' + slotSize[w] = S + slotSize'[w] /\ H' + held[o] = H + held'[o]
      /\ slotSize[w] <= S /\ held[o] <= H
  BY <1>1, <1>2, TotalsMove
<1> HIDE DEF S, H
<1>4. Exact' /\ capacity' \in Nat /\ lost' \in Nat
  BY <1>1, <1>2, <1>3 DEF Exact, Growth, Less, S, H
<1>5. Numbers'
  BY <1>1, <1>2, <1>4
     DEF OpenLoads, CapInv, RInv, Shapes, Numbers, Steps, GateSteps, UserSteps, Kinds
<1>6. \A p \in Ops : ReservedBy(p)'
  BY <1>1, <1>2
     DEF OpenLoads, CapInv, RInv, Shapes, Numbers, ReservedBy, HolderOf, GateOf, GateSteps
<1>7. \A v \in Workspaces : Vacant(v)'
  BY <1>1, <1>2 DEF OpenLoads, CapInv, RInv, Shapes, Numbers, Vacant, ReservedBy
<1> QED
  BY <1>4, <1>5, <1>6, <1>7 DEF CapInv

\* The growth is reserved; what is given back in vain is counted in `lost`.
LEMMA PersistReservesCap ==
  ASSUME RInv, CapInv, NEW o \in Ops, PersistReserves(o)
  PROVE  CapInv'
<1> DEFINE w == target[o]
           S == Sum(slotSize, Workspaces)
           H == Sum(held, Ops)
<1>1. /\ w \in Workspaces /\ capacity \in Nat /\ lost \in Nat
      /\ size[w] \in Nat /\ slotSize[w] \in Nat /\ held[o] \in Nat /\ staged[o] \in Nat
      /\ Limit \in Nat /\ Sizes \subseteq Nat
      /\ capacity <= Limit /\ capacity + lost >= S + H /\ (lost = 0 => capacity = S + H)
  BY DEF CapInv, Numbers, Exact, RInv, Shapes
<1>0. PICK g \in Nat, n \in Nat :
        /\ staged' = [staged EXCEPT ![o] = n]
        /\ \/ capacity' = Less(g) /\ lost' = lost + (capacity - Less(g)) /\ held' = held
           \/ /\ capacity' = capacity + g /\ capacity' <= Limit /\ lost' = lost
              /\ held' = [held EXCEPT ![o] = g]
  <2>1. PICK n \in Sizes :
          LET growth == Growth(n, slotSize[w]) IN
          /\ staged' = [staged EXCEPT ![o] = n]
          /\ IF growth > 0 /\ capacity + growth > Limit
             THEN /\ capacity' = Less(growth) /\ lost' = lost + (capacity - Less(growth))
                  /\ UNCHANGED held
             ELSE /\ capacity' = capacity + growth /\ UNCHANGED lost
                  /\ held' = [held EXCEPT ![o] = growth]
    BY DEF PersistReserves
  <2> DEFINE g == Growth(n, slotSize[w])
  <2>2. n \in Nat /\ g \in Nat
    <3>1. n \in Nat /\ slotSize[w] \in Nat
      BY <1>1, <2>1
    <3>2. \A k, m \in Nat : Growth(k, m) \in Nat
      BY DEF Growth
    <3> QED
      BY <3>1, <3>2
  <2>3. \/ capacity' = Less(g) /\ lost' = lost + (capacity - Less(g)) /\ held' = held
        \/ /\ capacity' = capacity + g /\ ~(g > 0 /\ capacity + g > Limit) /\ lost' = lost
           /\ held' = [held EXCEPT ![o] = g]
    BY <2>1
  <2> HIDE DEF g
  <2>4. ~(g > 0 /\ capacity + g > Limit) => capacity + g <= Limit
    BY <1>1, <2>2
  <2> QED
    BY <2>1, <2>2, <2>3, <2>4
<1>2. /\ \A v \in Workspaces \ {w} : slotSize'[v] = slotSize[v]
      /\ \A p \in Ops \ {o} : held'[p] = held[p]
      /\ slotSize'[w] \in Nat /\ held'[o] \in Nat
      /\ slotSize'[w] = slotSize[w] /\ held[o] = 0
      /\ \/ /\ held'[o] = 0 /\ capacity' <= capacity /\ capacity' \in Nat
            /\ lost' = lost + (capacity - capacity') /\ (lost' = 0 => capacity' = capacity)
         \/ lost' = lost /\ capacity' = capacity + held'[o] /\ capacity' <= Limit
  <2>1. held \in [Ops -> Nat] /\ held[o] = 0 /\ slotSize' = slotSize
    BY <1>1 DEF PersistReserves, CapInv, Numbers, ReservedBy
  <2>2. CASE capacity' = Less(g) /\ lost' = lost + (capacity - Less(g)) /\ held' = held
    <3>1. Less(g) \in Nat /\ Less(g) <= capacity
      BY <1>1, <1>0 DEF Less, Growth
    <3>2. lost + (capacity - Less(g)) = 0 => Less(g) = capacity
      BY <1>1, <3>1
    <3> QED
      BY <1>1, <2>1, <2>2, <3>1, <3>2
  <2>3. CASE /\ capacity' = capacity + g /\ capacity' <= Limit /\ lost' = lost
             /\ held' = [held EXCEPT ![o] = g]
    BY <1>1, <1>0, <2>1, <2>3
  <2> QED
    BY <1>0, <2>2, <2>3
<1>3. /\ IsFiniteSet(Units(slotSize, Workspaces))' /\ IsFiniteSet(Units(held, Ops))'
      /\ S \in Nat /\ H \in Nat /\ S' \in Nat /\ H' \in Nat
      /\ S' + slotSize[w] = S + slotSize'[w] /\ H' + held[o] = H + held'[o]
      /\ slotSize[w] <= S /\ held[o] <= H
  BY <1>1, <1>2, TotalsMove
<1> HIDE DEF S, H
<1>4. Exact' /\ capacity' \in Nat /\ lost' \in Nat
  <2>0. capacity \in Nat /\ lost \in Nat /\ Limit \in Nat /\ capacity <= Limit
    BY <1>1
  <2>1. CASE /\ held'[o] = 0 /\ capacity' <= capacity /\ capacity' \in Nat
             /\ lost' = lost + (capacity - capacity') /\ (lost' = 0 => capacity' = capacity)
    <3>1. S' = S /\ H' = H
      BY <1>1, <1>2, <1>3, <2>1 DEF S, H
    <3> DEFINE c == capacity'
               l == lost'
    <3>2. c \in Nat /\ c <= capacity /\ l = lost + (capacity - c) /\ (l = 0 => c = capacity)
      BY <2>1
    <3> HIDE DEF c, l
    <3>3. /\ l \in Nat /\ c + l = capacity + lost /\ c <= Limit
          /\ l = 0 => lost = 0 /\ c = capacity
      BY <2>0, <3>2
    <3>4. /\ lost' \in Nat /\ capacity' + lost' = capacity + lost /\ capacity' <= Limit
          /\ lost' = 0 => lost = 0 /\ capacity' = capacity
      BY <3>3 DEF c, l
    <3> QED
      BY <1>1, <1>3, <2>1, <3>1, <3>4 DEF Exact, S, H
  <2>2. CASE lost' = lost /\ capacity' = capacity + held'[o] /\ capacity' <= Limit
    <3>1. S' = S /\ H' = H + held'[o]
      BY <1>1, <1>2, <1>3, <2>2 DEF S, H
    <3> QED
      BY <1>1, <1>2, <1>3, <2>2, <3>1 DEF Exact, S, H
  <2> QED
    BY <1>1, <1>2, <2>1, <2>2
<1>5. Numbers'
  <2>1. pc' = [pc EXCEPT ![o] = "restore"] \/ pc' = [pc EXCEPT ![o] = "commit"]
    BY DEF PersistReserves
  <2>2. pc' \in [Ops -> Steps \ {"open", "none"}]
    BY <2>1 DEF CapInv, Numbers, Steps, GateSteps, UserSteps, Kinds
  <2>3. held' \in [Ops -> Nat] /\ staged' \in [Ops -> Nat]
    BY <1>0 DEF CapInv, Numbers
  <2>4. /\ size' \in [Workspaces -> Nat] /\ revision' \in [Workspaces -> Nat]
        /\ slotSize' \in [Workspaces -> Nat] /\ slotRevision' \in [Workspaces -> Nat]
    BY <1>1, <1>2 DEF PersistReserves, CapInv, Numbers
  <2> QED
    BY <1>4, <2>2, <2>3, <2>4 DEF PersistReserves, CapInv, Numbers
<1>6. \A p \in Ops : ReservedBy(p)'
  BY <1>1, <1>2
     DEF PersistReserves, CapInv, RInv, Shapes, Numbers, ReservedBy, HolderOf, GateOf, GateSteps
<1>7. \A v \in Workspaces : Vacant(v)'
  BY <1>1, <1>2 DEF PersistReserves, CapInv, RInv, Shapes, Numbers, Vacant, ReservedBy
<1> QED
  BY <1>4, <1>5, <1>6, <1>7 DEF CapInv

\* The reservation becomes the growth of the aggregate, or is given back.
LEMMA PersistCommitsCap ==
  ASSUME RInv, CapInv, NEW o \in Ops, PersistCommits(o)
  PROVE  CapInv'
<1> DEFINE w == target[o]
           S == Sum(slotSize, Workspaces)
           H == Sum(held, Ops)
<1>1. /\ w \in Workspaces /\ capacity \in Nat /\ lost \in Nat
      /\ size[w] \in Nat /\ slotSize[w] \in Nat /\ held[o] \in Nat /\ staged[o] \in Nat
      /\ Limit \in Nat /\ Sizes \subseteq Nat
      /\ capacity <= Limit /\ capacity + lost >= S + H /\ (lost = 0 => capacity = S + H)
  BY DEF CapInv, Numbers, Exact, RInv, Shapes
<1>2. /\ \A v \in Workspaces \ {w} : slotSize'[v] = slotSize[v]
      /\ \A p \in Ops \ {o} : held'[p] = held[p]
      /\ slotSize'[w] \in Nat /\ held'[o] \in Nat
      /\ lost' = lost /\ held'[o] = 0 /\ held[o] = Growth(staged[o], slotSize[w])
      /\ \/ slotSize'[w] = staged[o] /\ capacity' = Less(Growth(slotSize[w], staged[o]))
         \/ slotSize'[w] = slotSize[w] /\ capacity' = Less(held[o])
  BY <1>1 DEF PersistCommits, CapInv, Numbers, ReservedBy, Vacant, Growth, Less, RInv,
     MemoryOf, HolderOf, GateOf, GateSteps, Shapes
<1>3. /\ IsFiniteSet(Units(slotSize, Workspaces))' /\ IsFiniteSet(Units(held, Ops))'
      /\ S \in Nat /\ H \in Nat /\ S' \in Nat /\ H' \in Nat
      /\ S' + slotSize[w] = S + slotSize'[w] /\ H' + held[o] = H + held'[o]
      /\ slotSize[w] <= S /\ held[o] <= H
  BY <1>1, <1>2, TotalsMove
<1> HIDE DEF S, H
<1>4. Exact' /\ capacity' \in Nat /\ lost' \in Nat
  <2>1. CASE slotSize'[w] = staged[o] /\ capacity' = Less(Growth(slotSize[w], staged[o]))
    <3>1. CASE staged[o] > slotSize[w]
      <4>1. held[o] = staged[o] - slotSize[w] /\ capacity' = capacity
        BY <1>1, <1>2, <2>1, <3>1 DEF Growth, Less
      <4>2. S' + H' = S + H
        BY <1>1, <1>2, <1>3, <2>1, <4>1 DEF S, H
      <4> QED
        BY <1>1, <1>2, <1>3, <4>1, <4>2 DEF Exact, S, H
    <3>2. CASE ~(staged[o] > slotSize[w])
      <4>1. /\ held[o] = 0
            /\ capacity' = IF capacity > slotSize[w] - staged[o]
                           THEN capacity - (slotSize[w] - staged[o]) ELSE 0
        BY <1>1, <1>2, <2>1, <3>2 DEF Growth, Less
      <4>2. H' = H /\ S' = S - (slotSize[w] - staged[o])
        BY <1>1, <1>2, <1>3, <2>1, <4>1 DEF S, H
      <4> QED
        BY <1>1, <1>2, <1>3, <3>2, <4>1, <4>2 DEF Exact, S, H
    <3> QED
      BY <3>1, <3>2
  <2>2. CASE slotSize'[w] = slotSize[w] /\ capacity' = Less(held[o])
    <3>1. S' = S /\ H' = H - held[o]
      BY <1>1, <1>2, <1>3, <2>2 DEF S, H
    <3> QED
      BY <1>1, <1>2, <1>3, <2>2, <3>1 DEF Exact, Less, Growth, S, H
  <2> QED
    BY <1>2, <2>1, <2>2
<1>5. Numbers'
  <2>1. pc' = [pc EXCEPT ![o] = "restore"] \/ pc' = [pc EXCEPT ![o] = "done"]
    BY DEF PersistCommits
  <2>2. pc' \in [Ops -> Steps \ {"open", "none"}]
    BY <2>1 DEF CapInv, Numbers, Steps, GateSteps, UserSteps, Kinds
  <2>3. held' \in [Ops -> Nat] /\ staged' \in [Ops -> Nat]
    BY <1>1 DEF PersistCommits, CapInv, Numbers, Growth
  <2>4. /\ size' \in [Workspaces -> Nat] /\ revision' \in [Workspaces -> Nat]
        /\ slotSize' \in [Workspaces -> Nat] /\ slotRevision' \in [Workspaces -> Nat]
    BY <1>1, <1>2 DEF PersistCommits, CapInv, Numbers
  <2> QED
    BY <1>4, <2>2, <2>3, <2>4 DEF PersistCommits, CapInv, Numbers
<1>6. \A p \in Ops : ReservedBy(p)'
  BY <1>1, <1>2
     DEF PersistCommits, CapInv, RInv, Shapes, Numbers, ReservedBy, HolderOf, GateOf, GateSteps
<1>7. \A v \in Workspaces : Vacant(v)'
  BY <1>1, <1>2 DEF PersistCommits, CapInv, RInv, Shapes, Numbers, Vacant, ReservedBy
<1> QED
  BY <1>4, <1>5, <1>6, <1>7 DEF CapInv

\* The aggregate takes what the committed snapshot takes, or nothing.
LEMMA RestoreCap ==
  ASSUME RInv, CapInv, NEW o \in Ops, Restore(o)
  PROVE  CapInv'
<1> DEFINE w == target[o]
           S == Sum(slotSize, Workspaces)
           H == Sum(held, Ops)
<1>1. /\ w \in Workspaces /\ capacity \in Nat /\ lost \in Nat
      /\ size[w] \in Nat /\ slotSize[w] \in Nat /\ held[o] \in Nat /\ staged[o] \in Nat
      /\ Limit \in Nat /\ Sizes \subseteq Nat
      /\ capacity <= Limit /\ capacity + lost >= S + H /\ (lost = 0 => capacity = S + H)
  BY DEF CapInv, Numbers, Exact, RInv, Shapes
<1>2. /\ \A v \in Workspaces \ {w} : slotSize'[v] = slotSize[v]
      /\ \A p \in Ops \ {o} : held'[p] = held[p]
      /\ slotSize'[w] \in Nat /\ held'[o] \in Nat
      /\ lost' = lost /\ held'[o] = held[o] /\ held[o] = 0
      /\ \/ /\ slotSize'[w] = size[w]
            /\ capacity' = Less(Growth(slotSize[w], size[w])) + Growth(size[w], slotSize[w])
            /\ Growth(size[w], slotSize[w]) = 0 \/ capacity + Growth(size[w], slotSize[w]) <= Limit
         \/ slotSize'[w] = 0 /\ capacity' = Less(slotSize[w])
  BY <1>1 DEF Restore, CapInv, Numbers, ReservedBy, Vacant, Growth, Less, RInv, MemoryOf,
     HolderOf, GateOf, GateSteps, Shapes
<1>3. /\ IsFiniteSet(Units(slotSize, Workspaces))' /\ IsFiniteSet(Units(held, Ops))'
      /\ S \in Nat /\ H \in Nat /\ S' \in Nat /\ H' \in Nat
      /\ S' + slotSize[w] = S + slotSize'[w] /\ H' + held[o] = H + held'[o]
      /\ slotSize[w] <= S /\ held[o] <= H
  BY <1>1, <1>2, TotalsMove
<1> HIDE DEF S, H
<1>4. Exact' /\ capacity' \in Nat /\ lost' \in Nat
  BY <1>1, <1>2, <1>3 DEF Exact, Growth, Less, S, H
<1>5. Numbers'
  BY <1>1, <1>2, <1>4
     DEF Restore, CapInv, RInv, Shapes, Numbers, Steps, GateSteps, UserSteps, Kinds
<1>6. \A p \in Ops : ReservedBy(p)'
  BY <1>1, <1>2
     DEF Restore, CapInv, RInv, Shapes, Numbers, ReservedBy, HolderOf, GateOf, GateSteps
<1>7. \A v \in Workspaces : Vacant(v)'
  BY <1>1, <1>2 DEF Restore, CapInv, RInv, Shapes, Numbers, Vacant, ReservedBy
<1> QED
  BY <1>4, <1>5, <1>6, <1>7 DEF CapInv

-----------------------------------------------------------------------------
\* Every step keeps the counter exact.
LEMMA NextCapInv ==
  ASSUME RInv, CapInv, [RuntimeNext]_runtimeVars
  PROVE  CapInv'
<1>1. ASSUME NEW o \in Ops, Begin(o) \/ OpStep(o)
      PROVE  CapInv'
  <2>1. CASE OpenStep(o)
    BY <2>1, GetTargetCap, ScanCap, LookAtSiblingsCap, CloseSiblingCap, OpenEntersCap,
       OpenLoadsCap
       DEF OpenStep
  <2>2. CASE MutateStep(o)
    BY <2>2, NothingChangedCap, PersistReservesCap, PersistCommitsCap, RestoreCap DEF MutateStep
  <2>3. CASE \/ EnterUserGate(o) \/ Close(o) \/ DeleteEnters(o) \/ DeleteRemoves(o) \/ Create(o)
             \/ ImportPublishes(o) \/ ImportVerifies(o) \/ MutateEnters(o)
    BY <2>3, EnterUserGateCap, CloseCap, DeleteEntersCap, DeleteRemovesCap, CreateCap,
       ImportPublishesCap, ImportVerifiesCap, MutateEntersCap
  <2> QED
    BY <1>1, <2>1, <2>2, <2>3, BeginCap DEF OpStep
<1>2. ASSUME NEW w \in Workspaces, SubmitWork(w) \/ WorkEnds(w) \/ Finalize(w) \/ StopClears(w)
      PROVE  CapInv'
  BY <1>2, SubmitWorkCap, WorkEndsCap, FinalizeCap, StopClearsCap
<1>3. CASE UNCHANGED runtimeVars
  BY <1>3 DEF runtimeVars, CapInv, Numbers, Exact, ReservedBy, Vacant
<1> QED
  BY <1>1, <1>2, <1>3, StopCap DEF RuntimeNext

\* Reservations and aggregates account for the whole counter.
THEOREM RuntimeAccounting == RuntimeSpec => [](RInv /\ CapInv)
<1>1. RuntimeInit => RInv /\ CapInv
  BY InitRInv, InitCapInv
<1>2. RInv /\ CapInv /\ [RuntimeNext]_runtimeVars => (RInv /\ CapInv)'
  BY NextRInv, NextCapInv
<1> QED
  BY <1>1, <1>2, PTL DEF RuntimeSpec

\* The counter of open capacity is what the aggregates in memory take and what
\* is reserved, and within the limit, whatever fails in between; with what
\* refused mutations have given back it is never less.
THEOREM CapacityExact == RuntimeSpec => []CapacityIsExact
<1>1. RInv /\ CapInv => RuntimeTypeOK
  <2>1. ASSUME RInv, CapInv
        PROVE  RuntimeTypeOK
    <3>1. {held, staged} \subseteq [Ops -> Nat] /\ {capacity, lost} \subseteq Nat
      BY <2>1 DEF CapInv, Numbers
    <3>2. {live, work, unfinished, finalizing, missed} \subseteq SUBSET Workspaces
      BY <2>1 DEF CapInv, Numbers
    <3>3. {size, revision, slotSize, slotRevision} \subseteq [Workspaces -> Nat]
      BY <2>1 DEF CapInv, Numbers
    <3>4. pc \in [Ops -> {"idle", "userGate", "get", "scan", "look", "switch", "load", "close",
                          "delete", "remove", "create", "import", "verify", "mutate", "persist",
                          "commit", "restore", "leave", "done"}]
      BY <2>1 DEF CapInv, Numbers, Steps, GateSteps, UserSteps, Kinds
    <3> QED
      BY <2>1, <3>1, <3>2, <3>3, <3>4 DEF RuntimeTypeOK, RInv, Shapes
  <2> QED
    BY <2>1
<1>2. RInv /\ CapInv => CapacityIsExact
  BY <1>1 DEF CapInv, Exact, CapacityIsExact
<1> QED
  BY <1>2, RuntimeAccounting, PTL

=============================================================================
