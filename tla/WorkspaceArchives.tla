-------------------------- MODULE WorkspaceArchives --------------------------
(***************************************************************************)
(* Imports and exports of Workspaces (services/workspace_archives.py, the  *)
(* installation in services/workspace.py and the rebasing of               *)
(* infrastructure/storage/workspace_store.py and                           *)
(* workers/input_snapshots.py)                                             *)
(*                                                                         *)
(* An import takes a slot and a reservation, streams the upload into a     *)
(* temporary file, compiles it in a staging directory, which it installs,  *)
(* and cleans up.  An export hard-links one open Workspace while it holds  *)
(* its gate, and makes the ZIP from the links when others may mutate it.   *)
(*                                                                         *)
(* A file is its inode.  The Workspace that is exported has, for every     *)
(* committed generation, a plan, whose scan sources are absolute paths, and*)
(* a metadata file that names it.  A thread that has started runs to its   *)
(* end even when its request is cancelled.  Removals do not fail.          *)
(***************************************************************************)
EXTENDS ArchiveFormat, Sums

CONSTANTS
  Imports, Exports,
  Scenes,         \* the sets of requests that may come together
  Archives,       \* archives, by name
  ArchivesOf,     \* the names of what every import may be sent
  Contents,       \* what the exported Workspace may hold, by number
  MaxArchive,     \* max_archive_bytes, in chunks of the upload
  ImportSlots,    \* max_concurrent_imports
  SnapshotSlots,  \* response snapshots at a time
  Capacity,       \* what may be reserved together
  MaxGenerations, \* bounds the mutations of the Workspace
  MaxFaults       \* bounds failures, cancellations and crashes

Requests == Imports \cup Exports
NoOne == "no one"
Writer == "writer"

ASSUME ArchivesAssumption ==
  /\ Imports \cap Exports = {} /\ IsFiniteSet(Requests)
  /\ {NoOne, Writer} \cap Requests = {}
  /\ Scenes \subseteq SUBSET Requests
  /\ ArchivesOf \in [Imports -> SUBSET DOMAIN Archives] /\ 1 \in DOMAIN Contents
  /\ {MaxArchive, ImportSlots, SnapshotSlots, Capacity, MaxGenerations} \subseteq Nat \ {0}
  /\ MaxFaults \in Nat

Nowhere == [plans |-> {}, metadata |-> 0, rebased |-> FALSE]
NotSent == <<>>
Nothing == 0

VARIABLES
  asked,      \* the requests of this behaviour
  pc, outcome,
  archive, received,   \* of an import: the upload and the chunks that came
  temporary,  \* imports with a temporary upload file
  staging,    \* of an import: "none", "partial", "compiled" or "owned"
  installed,  \* of an import: "none", "moved", "rebased" or "sound"
  harm,       \* of an import: "none", "unread" if a failure of the disk was
              \* answered as an invalid archive, "torn" if what it had moved
              \* to its place was neither rebased nor removed
  importSlots, snapshotSlots, \* requests that hold one
  reserved,   \* units a request has reserved
  tree,       \* of an export: the plans and the metadata that were linked
  file,       \* exports with a response file
  product,    \* of an export: the content it wrote an archive of
  gate,       \* who holds the gate of the exported Workspace
  open,       \* may work be admitted to it?
  metadata,   \* its committed generation
  plans,      \* the generations whose plan is in its directory
  content,    \* what every generation holds
  sources,    \* where the sources of every plan are: "live" or an export
  writing,    \* the step of the mutation under way
  faults

importVars == <<archive, received, temporary, staging, installed, harm, importSlots>>
exportVars == <<tree, file, product, snapshotSlots>>
liveVars == <<gate, open, metadata, plans, content, sources, writing>>
vars == <<asked, pc, outcome, importVars, exportVars, reserved, liveVars, faults>>

\* Which archives and contents are what; the outer set lets TLC list each once.
Listed(S) == {x : x \in S}
Openable == Listed({x \in DOMAIN Archives : Opens(Archives[x])})
Compilable == Listed({x \in Openable : Compiles(Archives[x])})
WellFormed == Listed({x \in DOMAIN Archives : IsWellFormed(Archives[x])})
WellOrdered == Listed({x \in Compilable :
  LET m == Archives[x].manifest IN
  /\ ParentsFirst(m.nodes, CompiledGraph(m.nodes))
  /\ ParentsFirst(AsNodes(m.analyses), Ids(AddForest(m.analyses).added))})
Importable == Listed({c \in DOMAIN Contents : IsWellFormed(ExportedArchive(Contents[c]))})

Goto(r, step) == pc' = [pc EXCEPT ![r] = step]
Ends(r, result) == outcome' = [outcome EXCEPT ![r] = result]
Fault == faults < MaxFaults /\ faults' = faults + 1
NoFault == UNCHANGED faults
Reserved == Sum(reserved, Requests)

Reserve(r, n) == Reserved + n <= Capacity /\ reserved' = [reserved EXCEPT ![r] = @ + n]
Release(r) == reserved' = [reserved EXCEPT ![r] = 0]

-----------------------------------------------------------------------------
Init ==
  /\ asked \in Scenes
  /\ pc = [r \in Requests |-> "idle"] /\ outcome = [r \in Requests |-> "none"]
  /\ archive = [i \in Imports |-> NotSent] /\ received = [i \in Imports |-> 0]
  /\ temporary = {} /\ staging = [i \in Imports |-> "none"]
  /\ installed = [i \in Imports |-> "none"] /\ harm = [i \in Imports |-> "none"]
  /\ importSlots = {} /\ snapshotSlots = {} /\ reserved = [r \in Requests |-> 0]
  /\ tree = [e \in Exports |-> Nowhere] /\ file = {}
  /\ product = [e \in Exports |-> Nothing]
  /\ gate = NoOne /\ open = TRUE /\ metadata = 1 /\ plans = {1}
  /\ IF asked \cap Exports = {}
     THEN content = <<1>>
     ELSE \E c \in DOMAIN Contents : content = <<c>>
  /\ sources = <<"live">> /\ writing = "no" /\ faults = 0

-----------------------------------------------------------------------------
(* import_upload.                                                          *)

ImportUnchanged == UNCHANGED <<asked, exportVars, liveVars>>

TakeImportSlot(i) ==
  /\ pc[i] = "idle" /\ i \in asked /\ Cardinality(importSlots) < ImportSlots
  /\ importSlots' = importSlots \cup {i}
  /\ \E a \in ArchivesOf[i] : archive' = [archive EXCEPT ![i] = a]
  /\ Goto(i, "reserve") /\ NoFault
  /\ ImportUnchanged
  /\ UNCHANGED <<outcome, received, temporary, staging, installed, harm, reserved>>

\* The upload, the expansion and the snapshot are one reservation.
ReserveImport(i) ==
  /\ pc[i] = "reserve"
  /\ \/ /\ Reserve(i, 1) /\ Goto(i, "upload")
        /\ temporary' = temporary \cup {i}
        /\ UNCHANGED <<outcome, importSlots>>
     \/ /\ Reserved + 1 > Capacity
        /\ importSlots' = importSlots \ {i}
        /\ Ends(i, "refused") /\ Goto(i, "done")
        /\ UNCHANGED <<reserved, temporary>>
  /\ NoFault
  /\ ImportUnchanged /\ UNCHANGED <<archive, received, staging, installed, harm>>

\* One chunk; one too many is refused, and so is an upload without any.
Upload(i) ==
  /\ pc[i] = "upload"
  /\ IF received[i] < Archives[archive[i]].bytes
     THEN /\ received' = [received EXCEPT ![i] = @ + 1]
          /\ IF received[i] + 1 > MaxArchive
             THEN Ends(i, "refused") /\ Goto(i, "finally")
             ELSE UNCHANGED <<outcome, pc>>
     ELSE /\ UNCHANGED received
          /\ IF received[i] = 0
             THEN Ends(i, "refused") /\ Goto(i, "finally")
             ELSE Goto(i, "extract") /\ UNCHANGED outcome
  /\ NoFault
  /\ ImportUnchanged
  /\ UNCHANGED <<archive, temporary, staging, installed, harm, importSlots, reserved>>

\* When the disk fails while an archive is read, the archive is called invalid.
Misjudge(i) == Fault /\ Ends(i, "refused") /\ harm' = [harm EXCEPT ![i] = "unread"]

\* _prepare_from_path, until the members are in the staging directory; a
\* refusal removes it.  Without that directory the request fails.
Extract(i) ==
  /\ pc[i] = "extract"
  /\ \/ /\ archive[i] \in Openable
        /\ staging' = [staging EXCEPT ![i] = "partial"]
        /\ Goto(i, "compile") /\ NoFault /\ UNCHANGED <<outcome, harm>>
     \/ /\ \/ archive[i] \notin Openable /\ NoFault /\ Ends(i, "refused") /\ UNCHANGED harm
           \/ Fault /\ Ends(i, "failed") /\ UNCHANGED harm
           \/ Misjudge(i)
        /\ Goto(i, "finally") /\ UNCHANGED staging
  /\ ImportUnchanged
  /\ UNCHANGED <<archive, received, temporary, installed, importSlots, reserved>>

\* The rest of it: the graph, the query snapshots, the forest, one commit and
\* the marker of a safe import.  Without the marker the request fails.
Compile(i) ==
  /\ pc[i] = "compile"
  /\ \/ /\ archive[i] \in Compilable
        /\ staging' = [staging EXCEPT ![i] = "compiled"]
        /\ Goto(i, "prepare") /\ NoFault /\ UNCHANGED <<outcome, harm>>
     \/ /\ \/ archive[i] \notin Compilable /\ NoFault /\ Ends(i, "refused") /\ UNCHANGED harm
           \/ Fault /\ Ends(i, "failed") /\ UNCHANGED harm
           \/ Misjudge(i)
        /\ staging' = [staging EXCEPT ![i] = "none"]
        /\ Goto(i, "finally")
  /\ ImportUnchanged
  /\ UNCHANGED <<archive, received, temporary, installed, importSlots, reserved>>

\* _prepare_staged_import_sync: it must have the marker; the identity is
\* written, the snapshot loaded, then come the owner and the end of the marker.
Prepare(i) ==
  /\ pc[i] = "prepare" /\ staging[i] = "compiled"
  /\ \/ /\ staging' = [staging EXCEPT ![i] = "owned"]
        /\ Goto(i, "recheck") /\ NoFault /\ UNCHANGED outcome
     \/ Fault /\ Ends(i, "failed") /\ Goto(i, "finally") /\ UNCHANGED staging
  /\ ImportUnchanged
  /\ UNCHANGED <<archive, received, temporary, installed, harm, importSlots, reserved>>

\* The quota may have been lowered meanwhile.
Recheck(i) ==
  /\ pc[i] = "recheck"
  /\ \/ Goto(i, "publish") /\ NoFault /\ UNCHANGED outcome
     \/ Fault /\ Ends(i, "failed") /\ Goto(i, "finally")
  /\ ImportUnchanged
  /\ UNCHANGED <<archive, received, temporary, staging, installed, harm, importSlots,
                 reserved>>

\* _publish_staged_import_sync: the directory moves first, then its plans and
\* its query snapshots are pointed at the new place, and it is read.  The move
\* is made durable outside the clause that removes what cannot be rebased.
Publish(i) ==
  /\ pc[i] = "publish"
  /\ \/ /\ installed' = [installed EXCEPT ![i] = "moved"]
        /\ staging' = [staging EXCEPT ![i] = "none"]
        /\ \/ Goto(i, "rebase") /\ NoFault /\ UNCHANGED <<outcome, harm>>
           \/ /\ Fault /\ Ends(i, "failed") /\ Goto(i, "finally")
              /\ harm' = [harm EXCEPT ![i] = "torn"]
     \/ /\ Fault /\ Ends(i, "failed") /\ Goto(i, "finally")
        /\ UNCHANGED <<installed, staging, harm>>
  /\ ImportUnchanged
  /\ UNCHANGED <<archive, received, temporary, importSlots, reserved>>

\* Mutant: a directory that could not be rebased stays installed.
RebaseKeepsBroken(i) ==
  /\ pc[i] = "rebase"
  /\ \/ /\ installed[i] = "moved" /\ NoFault
        /\ installed' = [installed EXCEPT ![i] = "rebased"]
        /\ UNCHANGED <<pc, outcome>>
     \/ /\ installed[i] = "rebased" /\ NoFault
        /\ installed' = [installed EXCEPT ![i] = "sound"]
        /\ Ends(i, "ok") /\ Goto(i, "finally")
     \/ Fault /\ Ends(i, "failed") /\ Goto(i, "finally") /\ UNCHANGED installed
  /\ ImportUnchanged
  /\ UNCHANGED <<archive, received, temporary, staging, harm, importSlots, reserved>>

RebaseInstalled(i) ==
  /\ pc[i] = "rebase"
  /\ \/ /\ installed[i] = "moved" /\ NoFault
        /\ installed' = [installed EXCEPT ![i] = "rebased"]
        /\ UNCHANGED <<pc, outcome>>
     \/ /\ installed[i] = "rebased" /\ NoFault
        /\ installed' = [installed EXCEPT ![i] = "sound"]
        /\ Ends(i, "ok") /\ Goto(i, "finally")
     \/ /\ Fault
        /\ installed' = [installed EXCEPT ![i] = "none"]
        /\ Ends(i, "failed") /\ Goto(i, "finally")
  /\ ImportUnchanged
  /\ UNCHANGED <<archive, received, temporary, staging, harm, importSlots, reserved>>

\* A cancellation is noticed at the next wait, that is when a thread is over;
\* after the publication only the event and the answer are lost.
CancelImport(i) ==
  /\ \/ /\ pc[i] \in {"upload", "extract", "prepare", "recheck", "publish"}
        /\ Goto(i, "finally")
     \/ pc[i] = "finally" /\ outcome[i] = "ok" /\ UNCHANGED pc
  /\ Fault /\ Ends(i, "cancelled")
  /\ ImportUnchanged
  /\ UNCHANGED <<archive, received, temporary, staging, installed, harm, importSlots,
                 reserved>>

\* The finally clauses, all shielded from cancellation.
CleanImport(i) ==
  /\ pc[i] = "finally"
  /\ temporary' = temporary \ {i}
  /\ staging' = [staging EXCEPT ![i] = "none"]
  /\ Release(i) /\ importSlots' = importSlots \ {i}
  /\ Goto(i, "done") /\ NoFault
  /\ ImportUnchanged /\ UNCHANGED <<outcome, archive, received, installed, harm>>

ImportStep(i) ==
  \/ TakeImportSlot(i) \/ ReserveImport(i) \/ Upload(i) \/ Extract(i) \/ Compile(i)
  \/ Prepare(i) \/ Recheck(i) \/ Publish(i) \/ RebaseInstalled(i) \/ CleanImport(i)

-----------------------------------------------------------------------------
(* export_archive.                                                         *)

ExportUnchanged ==
  UNCHANGED <<asked, importVars, open, metadata, plans, content, writing>>

ReserveTree(e) ==
  /\ pc[e] = "idle" /\ e \in asked
  /\ \/ Reserve(e, 1) /\ Goto(e, "gate") /\ UNCHANGED outcome
     \/ /\ Reserved + 1 > Capacity /\ UNCHANGED reserved
        /\ Ends(e, "refused") /\ Goto(e, "done")
  /\ NoFault
  /\ ExportUnchanged /\ UNCHANGED <<exportVars, gate, sources>>

\* Mutant: the tree is linked outside the gate.
EnterAtOnce(e) ==
  /\ pc[e] = "gate"
  /\ IF open
     THEN Goto(e, "link") /\ UNCHANGED outcome
     ELSE Ends(e, "refused") /\ Goto(e, "release")
  /\ NoFault
  /\ ExportUnchanged /\ UNCHANGED <<exportVars, gate, reserved, sources>>

\* submission_context.
EnterGate(e) ==
  /\ pc[e] = "gate" /\ gate = NoOne
  /\ IF open
     THEN gate' = e /\ Goto(e, "link") /\ UNCHANGED outcome
     ELSE Ends(e, "refused") /\ Goto(e, "release") /\ UNCHANGED gate
  /\ NoFault
  /\ ExportUnchanged /\ UNCHANGED <<exportVars, reserved, sources>>

\* Mutant: a failure does not leave the gate.
LinkFailsInside(e) ==
  /\ pc[e] = "link"
  /\ \/ /\ NoFault /\ UNCHANGED outcome
        /\ IF tree[e].metadata = 0
           THEN tree' = [tree EXCEPT ![e].metadata = metadata] /\ UNCHANGED pc
           ELSE tree' = [tree EXCEPT ![e].plans = plans] /\ Goto(e, "leave")
     \/ /\ Fault /\ Ends(e, "failed") /\ Goto(e, "release")
        /\ tree' = [tree EXCEPT ![e] = Nowhere]
  /\ ExportUnchanged /\ UNCHANGED <<file, product, snapshotSlots, gate, reserved, sources>>

\* _snapshot_workspace_tree comes to the metadata file and to the plans one
\* after the other; a failure, or too many bytes, removes the tree.
Link(e) ==
  /\ pc[e] = "link"
  /\ \/ /\ NoFault /\ UNCHANGED <<gate, outcome>>
        /\ IF tree[e].metadata = 0
           THEN tree' = [tree EXCEPT ![e].metadata = metadata] /\ UNCHANGED pc
           ELSE tree' = [tree EXCEPT ![e].plans = plans] /\ Goto(e, "leave")
     \/ /\ Fault /\ Ends(e, "failed") /\ Goto(e, "release")
        /\ tree' = [tree EXCEPT ![e] = Nowhere]
        /\ gate' = NoOne
  /\ ExportUnchanged /\ UNCHANGED <<file, product, snapshotSlots, reserved, sources>>

LeaveGate(e) ==
  /\ pc[e] = "leave"
  /\ gate' = NoOne /\ Goto(e, "rebase") /\ NoFault
  /\ ExportUnchanged /\ UNCHANGED <<exportVars, outcome, reserved, sources>>

\* rebase_snapshot_sources: a copy of the plan is made in the tree, the
\* metadata there is replaced and names it, and other plans are removed.
TreeIsComplete(e) == tree[e].metadata \in tree[e].plans
Rebase(e) ==
  /\ pc[e] = "rebase"
  /\ \/ /\ TreeIsComplete(e)
        /\ tree' = [tree EXCEPT ![e].plans = {tree[e].metadata}, ![e].rebased = TRUE]
        /\ Goto(e, "slot") /\ NoFault /\ UNCHANGED outcome
     \/ /\ \/ ~TreeIsComplete(e) /\ NoFault
           \/ Fault
        /\ Ends(e, "failed") /\ Goto(e, "remove") /\ UNCHANGED tree
  /\ ExportUnchanged
  /\ UNCHANGED <<file, product, snapshotSlots, gate, reserved, sources>>

\* create_generated waits for a slot and reserves twice the limit.
TakeSnapshotSlot(e) ==
  /\ pc[e] = "slot" /\ Cardinality(snapshotSlots) < SnapshotSlots
  /\ \/ /\ Reserve(e, 2) /\ snapshotSlots' = snapshotSlots \cup {e}
        /\ Goto(e, "produce") /\ UNCHANGED outcome
     \/ /\ Reserved + 2 > Capacity
        /\ Ends(e, "refused") /\ Goto(e, "remove") /\ UNCHANGED <<reserved, snapshotSlots>>
  /\ NoFault
  /\ ExportUnchanged /\ UNCHANGED <<tree, file, product, gate, sources>>

\* _create_workspace_export reads the nodes by the rebased plans, but those of
\* a query snapshot still name the sources of the live Workspace:
\* _snapshot_member refuses what is outside the snapshot.
HasQueryInputs(c) ==
  \E a \in ToSet(TerminalAnalyses(c)) : a.query /\ a.needs # <<>>
Unreadable == Listed({c \in DOMAIN Contents : HasQueryInputs(Contents[c])})

Produce(e) ==
  LET c == content[tree[e].metadata]  fails == c \in Unreadable IN
  /\ pc[e] = "produce"
  /\ \/ /\ ~fails
        /\ product' = [product EXCEPT ![e] = c]
        /\ file' = file \cup {e}
        /\ Ends(e, "ok") /\ NoFault /\ UNCHANGED <<reserved, snapshotSlots>>
     \/ /\ \/ fails /\ NoFault
           \/ Fault
        /\ snapshotSlots' = snapshotSlots \ {e}
        /\ reserved' = [reserved EXCEPT ![e] = 1]
        /\ Ends(e, "failed") /\ UNCHANGED <<product, file>>
  /\ Goto(e, "remove")
  /\ ExportUnchanged /\ UNCHANGED <<tree, gate, sources>>

\* The finally clause removes the tree and returns the first reservation; what
\* the response has stays until it is sent.
RemoveTree(e) ==
  /\ pc[e] = "remove"
  /\ tree' = [tree EXCEPT ![e] = Nowhere]
  /\ Goto(e, "release") /\ NoFault
  /\ ExportUnchanged
  /\ UNCHANGED <<outcome, file, product, snapshotSlots, gate, reserved, sources>>

ReleaseTree(e) ==
  /\ pc[e] = "release"
  /\ reserved' = [reserved EXCEPT ![e] = @ - 1]
  /\ Goto(e, IF outcome[e] = "ok" THEN "send" ELSE "done") /\ NoFault
  /\ ExportUnchanged /\ UNCHANGED <<outcome, exportVars, gate, sources>>

\* The background task of the response: ResponseSnapshot.cleanup.
Sent(e) ==
  /\ pc[e] = "send"
  /\ file' = file \ {e} /\ snapshotSlots' = snapshotSlots \ {e}
  /\ Release(e) /\ Goto(e, "done") /\ NoFault
  /\ ExportUnchanged /\ UNCHANGED <<outcome, tree, product, gate, sources>>

\* Only the release is shielded.  An export that is cancelled once it has a
\* tree does not come to the release: rmtree waits for a thread, and that wait
\* is cancelled.  What the response has is lost with it.
CancelExport(e) ==
  /\ \/ pc[e] = "gate" /\ Goto(e, "release") /\ UNCHANGED gate
     \/ pc[e] \in {"rebase", "slot", "remove"} /\ Goto(e, "done") /\ UNCHANGED gate
     \/ pc[e] = "leave" /\ gate' = NoOne /\ Goto(e, "done")
  /\ Fault /\ Ends(e, "cancelled")
  /\ ExportUnchanged /\ UNCHANGED <<exportVars, reserved, sources>>

ExportStep(e) ==
  \/ ReserveTree(e) \/ EnterGate(e) \/ Link(e) \/ LeaveGate(e) \/ Rebase(e)
  \/ TakeSnapshotSlot(e) \/ Produce(e) \/ RemoveTree(e) \/ ReleaseTree(e) \/ Sent(e)

-----------------------------------------------------------------------------
(* The Workspace that is exported: a mutation writes a plan, then the      *)
(* metadata that names it, and removes the plan before it.                 *)

LiveUnchanged == UNCHANGED <<asked, pc, outcome, importVars, exportVars, reserved, open>>

WritePlan ==
  /\ writing = "no" /\ gate = NoOne /\ open /\ asked \cap Exports # {}
  /\ Len(sources) < MaxGenerations
  /\ gate' = Writer /\ writing' = "plan"
  /\ plans' = plans \cup {metadata + 1}
  /\ sources' = Append(sources, "live")
  /\ \E c \in DOMAIN Contents : content' = Append(content, c)
  /\ LiveUnchanged /\ UNCHANGED <<metadata, faults>>

WriteMetadata ==
  /\ writing = "plan"
  /\ metadata' = metadata + 1 /\ writing' = "metadata"
  /\ LiveUnchanged /\ UNCHANGED <<gate, plans, content, sources, faults>>

RemoveOldPlan ==
  /\ writing = "metadata"
  /\ plans' = {metadata} /\ writing' = "no" /\ gate' = NoOne
  /\ LiveUnchanged /\ UNCHANGED <<metadata, content, sources, faults>>

CloseWorkspace ==
  /\ open /\ gate = NoOne /\ asked \cap Exports # {}
  /\ Fault /\ open' = FALSE
  /\ UNCHANGED <<asked, pc, outcome, importVars, exportVars, reserved, gate, metadata,
                 plans, content, sources, writing>>

\* The process dies and starts again.  _cleanup_workspace_service_temps
\* empties the staging directory, where uploads, staged imports and export
\* trees are, and the response directory is removed; then requests are served.
\* It does not look at the Workspaces that are in their place.
Crash ==
  /\ \E r \in asked : pc[r] \notin {"idle", "done"}
  /\ writing = "no" /\ Fault
  /\ pc' = [r \in Requests |-> "done"]
  /\ outcome' = [r \in Requests |-> IF pc[r] = "done" THEN outcome[r] ELSE "lost"]
  /\ temporary' = {} /\ staging' = [i \in Imports |-> "none"]
  /\ tree' = [e \in Exports |-> Nowhere] /\ file' = {}
  /\ importSlots' = {} /\ snapshotSlots' = {} /\ reserved' = [r \in Requests |-> 0]
  /\ gate' = NoOne /\ open' = FALSE
  /\ harm' = [i \in Imports |-> IF pc[i] = "rebase" THEN "torn" ELSE harm[i]]
  /\ UNCHANGED <<asked, archive, received, installed, product, metadata, plans,
                 content, sources, writing>>

Next ==
  \/ \E i \in Imports : ImportStep(i) \/ CancelImport(i)
  \/ \E e \in Exports : ExportStep(e) \/ CancelExport(e)
  \/ WritePlan \/ WriteMetadata \/ RemoveOldPlan \/ CloseWorkspace \/ Crash

Spec == Init /\ [][Next]_vars

\* Requests go on, threads end, and clients send what they announced or go.
Fairness ==
  /\ \A i \in Imports : WF_vars(ImportStep(i))
  /\ \A e \in Exports : WF_vars(ExportStep(e))
  /\ WF_vars(WriteMetadata) /\ WF_vars(RemoveOldPlan)

FairSpec == Spec /\ Fairness

-----------------------------------------------------------------------------
TypeOK ==
  /\ pc \in [Requests -> {"idle", "reserve", "upload", "extract", "compile", "prepare",
                          "recheck", "publish", "rebase", "finally", "gate", "link", "leave",
                          "slot", "produce", "remove", "release", "send", "done"}]
  /\ outcome \in [Requests -> {"none", "ok", "refused", "failed", "cancelled", "lost"}]
  /\ received \in [Imports -> 0..(MaxArchive + 1)]
  /\ temporary \subseteq Imports /\ file \subseteq Exports
  /\ staging \in [Imports -> {"none", "partial", "compiled", "owned"}]
  /\ installed \in [Imports -> {"none", "moved", "rebased", "sound"}]
  /\ harm \in [Imports -> {"none", "unread", "torn"}]
  /\ importSlots \subseteq Imports /\ snapshotSlots \subseteq Exports
  /\ reserved \in [Requests -> 0..3] /\ Reserved <= Capacity
  /\ gate \in Exports \cup {NoOne, Writer}
  /\ metadata \in 1..MaxGenerations /\ plans \subseteq 1..MaxGenerations
  /\ \A e \in Exports : tree[e].plans \subseteq 1..MaxGenerations

\* An archive is installed only if it is what an archive is meant to be, its
\* nodes and its Analyses each after those they derive from and none left out;
\* and one that is refused after a complete upload is not, unless the disk
\* failed while it was read: the compiler accepts neither a cycle nor less than
\* every acyclic archive.  What an export writes an import accepts: Analyses
\* still queued or running are left out with all that derives from them, and no
\* Tab lists one.
AcceptsTheWellFormed ==
  /\ \A i \in Imports :
       /\ installed[i] # "none" => archive[i] \in WellFormed \cap WellOrdered
       /\ outcome[i] = "refused" /\ received[i] \in 1..MaxArchive =>
            archive[i] \notin WellFormed \/ harm[i] = "unread"
  /\ \A e \in Exports : product[e] # Nothing => product[e] \in Importable

\* A request that has been answered has left nothing behind: no upload, no
\* staging directory, no export tree, no slot and no reservation.  An import
\* has installed a whole Workspace or none, and one if it said so.  There are
\* two exceptions.  A torn import has left a Workspace that can be opened and
\* whose plans scan its staging directory, which is gone: a crash between the
\* move and the end of the rebasing, or a move that could not be made durable,
\* in spite of "Atomically install a validated archive" and "any failure rolls
\* back temporary and installed paths" in the code's own documentation.  And a
\* cancelled export keeps what it had: see CancelExport.
NothingIsLeft ==
  /\ TypeOK
  /\ \A r \in Requests : pc[r] = "done" =>
       /\ r \in Imports =>
            /\ r \notin temporary \cup importSlots
            /\ reserved[r] = 0 /\ staging[r] = "none"
            /\ installed[r] \in {"none", "sound"} \/ harm[r] = "torn"
            /\ outcome[r] = "ok" => installed[r] = "sound"
            /\ outcome[r] \in {"refused", "failed"} => installed[r] # "sound"
            /\ harm[r] = "torn" => outcome[r] \in {"failed", "lost"}
       /\ r \in Exports /\ outcome[r] # "cancelled" =>
            r \notin file \cup snapshotSlots /\ reserved[r] = 0 /\ tree[r] = Nowhere

\* The links an export works from are one committed generation, whatever is
\* committed to the Workspace meanwhile, and working on them leaves the plan
\* of the live Workspace as it was: it is there and names its own sources.
ExportIsOneGeneration ==
  /\ \A e \in Exports : pc[e] \in {"leave", "rebase", "slot", "produce"} => TreeIsComplete(e)
  /\ metadata \in plans /\ \A g \in plans : sources[g] = "live"

\* Every request ends, unless cancelled exports have lost every response slot.
EveryRequestEnds ==
  <>[](\A r \in asked : \/ pc[r] = "done"
                        \/ pc[r] = "slot" /\ Cardinality(snapshotSlots) = SnapshotSlots)

=============================================================================
