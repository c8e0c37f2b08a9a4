---------------------- MODULE WorkspaceArchivesProofs -----------------------
(***************************************************************************)
(* Proofs about imports and exports, for any requests, archives, contents, *)
(* limits and faults: what has been answered has left nothing behind, an   *)
(* export works from one committed generation, and what is installed is    *)
(* what the compiler of archives accepts.                                  *)
(***************************************************************************)
EXTENDS WorkspaceArchives, SumTheorems, FiniteSetTheorems, TLAPS

\* The steps of an import that has begun, and those after its reservation.
Staged == {"compile", "prepare", "recheck", "publish"}
Uploaded == {"upload", "extract", "rebase", "finally"} \cup Staged
ImportSteps == {"idle", "reserve", "done"} \cup Uploaded

\* The steps of an export: in the gate of the Workspace, with a whole tree of
\* links, and after its response has been decided.
Gated == {"link", "leave"}
Linked == {"leave", "rebase", "slot", "produce"}
Decided == {"remove", "release", "send"}
ExportSteps == {"idle", "gate", "done"} \cup Gated \cup Linked \cup Decided

Outcomes == {"none", "ok", "refused", "failed", "cancelled", "lost"}
Answers == {"ok", "refused", "failed", "cancelled"}

Types ==
  /\ pc \in [Requests -> ImportSteps \cup ExportSteps]
  /\ \A i \in Imports : pc[i] \in ImportSteps
  /\ \A e \in Exports : pc[e] \in ExportSteps
  /\ outcome \in [Requests -> Outcomes]
  /\ received \in [Imports -> 0..(MaxArchive + 1)]
  /\ temporary \subseteq Imports /\ file \subseteq Exports
  /\ staging \in [Imports -> {"none", "partial", "compiled", "owned"}]
  /\ installed \in [Imports -> {"none", "moved", "rebased", "sound"}]
  /\ harm \in [Imports -> {"none", "unread", "torn"}]
  /\ importSlots \subseteq Imports /\ snapshotSlots \subseteq Exports
  /\ reserved \in [Requests -> 0..3]
  /\ gate \in Exports \cup {NoOne, Writer}
  /\ tree \in [Exports -> [plans : SUBSET (1..MaxGenerations), metadata : 0..MaxGenerations,
                           rebased : BOOLEAN]]

\* An import has what its steps have taken, and has installed what it says.
ImportInv(i) ==
  /\ i \in temporary => pc[i] \in Uploaded
  /\ i \in importSlots => pc[i] \notin {"idle", "done"}
  /\ reserved[i] = IF pc[i] \in Uploaded THEN 1 ELSE 0
  /\ staging[i] # "none" => pc[i] \in Uploaded
  /\ pc[i] \in {"idle", "reserve"} => received[i] = 0
  /\ pc[i] = "upload" => received[i] <= MaxArchive
  /\ pc[i] \in {"idle", "reserve", "upload", "extract"} \cup Staged => installed[i] = "none"
  /\ pc[i] = "rebase" => installed[i] \in {"moved", "rebased"}
  /\ pc[i] = "finally" => outcome[i] \in Answers
  /\ pc[i] \notin {"finally", "done"} => harm[i] # "torn"
  /\ pc[i] \in {"finally", "done"} =>
       /\ installed[i] \in {"none", "sound"} \/ harm[i] = "torn"
       /\ outcome[i] = "ok" => installed[i] = "sound"
       /\ outcome[i] \in {"refused", "failed"} => installed[i] # "sound"
       /\ harm[i] = "torn" => outcome[i] \in {"failed", "lost"}

\* So has an export, unless it was cancelled; its tree is one generation.
ExportInv(e) ==
  /\ pc[e] \in Gated <=> gate = e
  /\ pc[e] = "link" =>
       /\ tree[e].plans = {} /\ tree[e].rebased = FALSE
       /\ tree[e].metadata \in {0, metadata}
  /\ pc[e] \in Linked => TreeIsComplete(e)
  /\ pc[e] \in {"idle", "gate", "release", "send"} => tree[e] = Nowhere
  /\ pc[e] \in {"idle", "gate"} \cup Gated \cup Linked => outcome[e] = "none"
  /\ e \in file =>
       \/ outcome[e] = "ok" /\ pc[e] \in Decided
       \/ outcome[e] = "cancelled" /\ pc[e] = "done"
  /\ e \in snapshotSlots =>
       \/ pc[e] = "produce"
       \/ outcome[e] = "ok" /\ pc[e] \in Decided
       \/ outcome[e] = "cancelled" /\ pc[e] = "done"
  /\ pc[e] = "send" => outcome[e] = "ok"
  /\ pc[e] = "done" /\ outcome[e] # "cancelled" => reserved[e] = 0 /\ tree[e] = Nowhere
  /\ pc[e] = "idle" => reserved[e] = 0
  /\ pc[e] \in {"gate", "link", "leave", "rebase", "slot"} => reserved[e] = 1
  /\ pc[e] = "produce" => reserved[e] = 3
  /\ pc[e] \in {"remove", "release"} => reserved[e] = IF outcome[e] = "ok" THEN 3 ELSE 1

\* A generation is written while the gate is held: its plan, then the metadata
\* that names it, and then the plan before it goes.
LiveInv ==
  /\ writing \in {"no", "plan", "metadata"} /\ (writing # "no" <=> gate = Writer)
  /\ metadata \in 1..MaxGenerations /\ Len(sources) <= MaxGenerations
  /\ sources \in Seq({"live"})
  /\ plans = IF writing = "no" THEN {metadata}
             ELSE IF writing = "plan" THEN {metadata, metadata + 1}
             ELSE {metadata - 1, metadata}
  /\ Len(sources) = IF writing = "plan" THEN metadata + 1 ELSE metadata
  /\ writing = "metadata" => metadata > 1

\* What is reserved together has been granted.
RoomInv == IsFiniteSet(Units(reserved, Requests)) /\ Reserved <= Capacity

ArchiveInv ==
  /\ Types
  /\ \A i \in Imports : ImportInv(i)
  /\ \A e \in Exports : ExportInv(e)
  /\ LiveInv /\ RoomInv

-----------------------------------------------------------------------------
\* What the assumptions on the constants say of requests and bounds.
LEMMA ImportsAndExports ==
  /\ NoOne # Writer /\ NoOne \notin Requests /\ Writer \notin Requests
  /\ \A i \in Imports : i \in Requests /\ i \notin Exports
  /\ \A e \in Exports : e \in Requests /\ e \notin Imports
  /\ MaxArchive \in Nat /\ MaxGenerations \in Nat /\ Capacity \in Nat /\ 1 <= MaxGenerations
<1>1. /\ NoOne # Writer /\ NoOne \notin Requests /\ Writer \notin Requests
      /\ \A i \in Imports : i \in Requests /\ i \notin Exports
      /\ \A e \in Exports : e \in Requests /\ e \notin Imports
  <2>1. NoOne # Writer
    BY DEF NoOne, Writer
  <2>2. NoOne \notin Requests /\ Writer \notin Requests
    BY ArchivesAssumption
  <2> QED
    BY <2>1, <2>2, ArchivesAssumption DEF Requests
<1>2. {MaxArchive, Capacity, MaxGenerations} \subseteq Nat \ {0}
  BY ArchivesAssumption
<1> QED
  BY <1>1, <1>2

\* A step of one import leaves the others, the exports and the Workspace alone.
OnlyImport(i) ==
  /\ \A r \in Requests \ {i} :
       pc'[r] = pc[r] /\ outcome'[r] = outcome[r] /\ reserved'[r] = reserved[r]
  /\ \A j \in Imports \ {i} :
       /\ received'[j] = received[j] /\ staging'[j] = staging[j]
       /\ installed'[j] = installed[j] /\ harm'[j] = harm[j]
       /\ j \in temporary' => j \in temporary
       /\ j \in importSlots' => j \in importSlots
  /\ UNCHANGED <<exportVars, liveVars>>

\* A step of one export leaves the others alone, and does not take their gate.
OnlyExport(e) ==
  /\ \A r \in Requests \ {e} :
       pc'[r] = pc[r] /\ outcome'[r] = outcome[r] /\ reserved'[r] = reserved[r]
  /\ \A d \in Exports \ {e} :
       /\ tree'[d] = tree[d]
       /\ d \in file' => d \in file
       /\ d \in snapshotSlots' => d \in snapshotSlots
  /\ gate' = gate \/ (gate \in {NoOne, e} /\ gate' \in {NoOne, e})
  /\ UNCHANGED <<importVars, metadata, plans, sources, writing>>

\* A step of one import keeps the invariant of all others.
LEMMA ImportKeeps ==
  ASSUME ArchiveInv, NEW i \in Imports, OnlyImport(i), Types', ImportInv(i)', RoomInv'
  PROVE  ArchiveInv'
<1>1. ASSUME NEW j \in Imports, j # i
      PROVE  ImportInv(j)'
  <2>1. ImportInv(j) /\ j \in Requests
    BY ImportsAndExports DEF ArchiveInv
  <2> QED
    BY <1>1, <2>1 DEF OnlyImport, ImportInv
<1>2. ASSUME NEW e \in Exports
      PROVE  ExportInv(e)'
  <2>1. ExportInv(e) /\ e \in Requests /\ e # i
    BY ImportsAndExports DEF ArchiveInv
  <2> QED
    BY <2>1 DEF OnlyImport, ExportInv, TreeIsComplete, exportVars, liveVars
<1>3. LiveInv'
  BY DEF ArchiveInv, OnlyImport, LiveInv, liveVars
<1> QED
  BY <1>1, <1>2, <1>3 DEF ArchiveInv

\* A step of one export does, too.
LEMMA ExportKeeps ==
  ASSUME ArchiveInv, NEW e \in Exports, OnlyExport(e), Types', ExportInv(e)', RoomInv'
  PROVE  ArchiveInv'
<1>1. ASSUME NEW i \in Imports
      PROVE  ImportInv(i)'
  <2>1. ImportInv(i) /\ i \in Requests /\ i # e
    BY ImportsAndExports DEF ArchiveInv
  <2> QED
    BY <2>1 DEF OnlyExport, ImportInv, importVars
<1>2. ASSUME NEW d \in Exports, d # e
      PROVE  ExportInv(d)'
  <2>1. ExportInv(d) /\ d \in Requests /\ d # NoOne
    BY ImportsAndExports DEF ArchiveInv
  <2>2. gate' = d <=> gate = d
    BY <1>2, <2>1 DEF OnlyExport
  <2> QED
    BY <1>2, <2>1, <2>2 DEF OnlyExport, ExportInv, TreeIsComplete
<1>3. LiveInv'
  <2>1. LiveInv /\ e # Writer
    BY ImportsAndExports DEF ArchiveInv
  <2>2. gate' = Writer <=> gate = Writer
    BY <2>1, ImportsAndExports DEF OnlyExport
  <2> QED
    BY <2>1, <2>2 DEF LiveInv, OnlyExport
<1> QED
  BY <1>1, <1>2, <1>3 DEF ArchiveInv

\* What is reserved changes by what one request takes or returns.
LEMMA RoomMoves ==
  ASSUME ArchiveInv, NEW r \in Requests, Types',
         \A q \in Requests \ {r} : reserved'[q] = reserved[q],
         reserved'[r] <= reserved[r] \/ Reserved + reserved'[r] - reserved[r] <= Capacity
  PROVE  RoomInv'
<1>1. /\ IsFiniteSet(Units(reserved, Requests)) /\ Sum(reserved, Requests) <= Capacity
      /\ reserved[r] \in Nat /\ reserved'[r] \in Nat /\ Capacity \in Nat
  BY ImportsAndExports DEF ArchiveInv, RoomInv, Reserved, Types
<1>2. /\ IsFiniteSet(Units(reserved', Requests))
      /\ Sum(reserved, Requests) \in Nat /\ Sum(reserved', Requests) \in Nat
      /\ Sum(reserved', Requests) + reserved[r] = Sum(reserved, Requests) + reserved'[r]
  BY <1>1, SumChanges
<1> QED
  BY <1>1, <1>2 DEF RoomInv, Reserved

\* What is reserved together is a number.
LEMMA RoomIsANumber ==
  ASSUME ArchiveInv
  PROVE  Reserved \in Nat
BY FS_CardinalityType DEF ArchiveInv, RoomInv, Reserved, Sum

\* A step that reserves and returns nothing leaves the room as it was.
LEMMA RoomStays ==
  ASSUME ArchiveInv, UNCHANGED reserved
  PROVE  RoomInv'
BY DEF ArchiveInv, RoomInv, Reserved

-----------------------------------------------------------------------------
(* Imports.                                                                *)

\* An import takes a slot; it has nothing else yet.
LEMMA TakeImportSlotStep ==
  ASSUME ArchiveInv, NEW i \in Imports, TakeImportSlot(i)
  PROVE  ArchiveInv'
<1>0. /\ Types /\ ImportInv(i) /\ i \in Requests /\ i \notin Exports
      /\ pc[i] \in ImportSteps /\ reserved[i] \in 0..3
      /\ received[i] \in 0..(MaxArchive + 1) /\ MaxArchive \in Nat
      /\ staging[i] \in {"none", "partial", "compiled", "owned"}
      /\ installed[i] \in {"none", "moved", "rebased", "sound"}
      /\ harm[i] \in {"none", "unread", "torn"}
  BY ImportsAndExports DEF ArchiveInv, Types
<1>1. OnlyImport(i)
  BY <1>0 DEF OnlyImport, Types, TakeImportSlot, Goto, ImportUnchanged
<1>2. ImportInv(i)'
  BY <1>0 DEF ImportInv, Types, TakeImportSlot, Goto, Answers, Uploaded, Staged
<1>3. Types'
  <2>1. /\ pc' \in [Requests -> ImportSteps \cup ExportSteps]
        /\ \A j \in Imports : pc'[j] \in ImportSteps
        /\ \A e \in Exports : pc'[e] \in ExportSteps
    BY <1>0, ImportsAndExports DEF Types, TakeImportSlot, Goto, ImportSteps, Uploaded, Staged
  <2>2. /\ outcome' \in [Requests -> Outcomes]
        /\ received' \in [Imports -> 0..(MaxArchive + 1)]
        /\ reserved' \in [Requests -> 0..3]
    BY <1>0 DEF Types, ImportInv, Uploaded, Staged, TakeImportSlot, Outcomes
  <2>3. /\ temporary' \subseteq Imports /\ importSlots' \subseteq Imports
        /\ staging' \in [Imports -> {"none", "partial", "compiled", "owned"}]
        /\ installed' \in [Imports -> {"none", "moved", "rebased", "sound"}]
        /\ harm' \in [Imports -> {"none", "unread", "torn"}]
    BY <1>0 DEF Types, TakeImportSlot
  <2>4. UNCHANGED <<tree, file, snapshotSlots, gate>>
    BY <1>1 DEF OnlyImport, exportVars, liveVars
  <2> QED
    BY <1>0, <2>1, <2>2, <2>3, <2>4 DEF Types
<1>4. RoomInv'
  BY RoomStays DEF TakeImportSlot
<1> QED
  BY <1>1, <1>3, <1>2, <1>4, ImportKeeps

\* It reserves, or is refused and gives its slot back.
LEMMA ReserveImportStep ==
  ASSUME ArchiveInv, NEW i \in Imports, ReserveImport(i)
  PROVE  ArchiveInv'
<1>0. /\ Types /\ ImportInv(i) /\ i \in Requests /\ i \notin Exports
      /\ pc[i] \in ImportSteps /\ reserved[i] \in 0..3
      /\ received[i] \in 0..(MaxArchive + 1) /\ MaxArchive \in Nat
      /\ staging[i] \in {"none", "partial", "compiled", "owned"}
      /\ installed[i] \in {"none", "moved", "rebased", "sound"}
      /\ harm[i] \in {"none", "unread", "torn"}
  BY ImportsAndExports DEF ArchiveInv, Types
<1>1. OnlyImport(i)
  BY <1>0 DEF OnlyImport, Types, ReserveImport, Goto, Ends, Reserve, ImportUnchanged
<1>2. ImportInv(i)'
  <2>1. /\ pc[i] = "reserve" /\ i \notin temporary /\ reserved[i] = 0
        /\ staging[i] = "none" /\ installed[i] = "none" /\ harm[i] # "torn"
    BY <1>0 DEF ReserveImport, ImportInv, Uploaded, Staged
  <2>2. CASE pc'[i] = "upload"
    <3>1. /\ reserved'[i] = 1 /\ UNCHANGED <<importSlots, staging, installed, harm, received>>
      BY <1>0, <2>1, <2>2 DEF ReserveImport, Goto, Reserve, Types
    <3>2. received[i] = 0 /\ 0 <= MaxArchive
      BY <1>0, <2>1 DEF ImportInv
    <3> QED
      BY <2>1, <2>2, <3>1, <3>2 DEF ImportInv, Uploaded, Staged
  <2>3. CASE pc'[i] = "done"
    <3>1. /\ reserved'[i] = 0 /\ outcome'[i] = "refused" /\ i \notin importSlots'
          /\ UNCHANGED <<temporary, staging, installed, harm>>
      BY <1>0, <2>1, <2>3 DEF ReserveImport, Goto, Ends, Types
    <3> QED
      BY <2>1, <2>3, <3>1 DEF ImportInv, Uploaded, Staged
  <2> QED
    BY <1>0, <2>2, <2>3 DEF ReserveImport, Goto, Types
<1>3. Types'
  <2>1. /\ pc' \in [Requests -> ImportSteps \cup ExportSteps]
        /\ \A j \in Imports : pc'[j] \in ImportSteps
        /\ \A e \in Exports : pc'[e] \in ExportSteps
    BY <1>0, ImportsAndExports DEF Types, ReserveImport, Goto, ImportSteps, Uploaded, Staged
  <2>2. /\ outcome' \in [Requests -> Outcomes]
        /\ received' \in [Imports -> 0..(MaxArchive + 1)]
        /\ reserved' \in [Requests -> 0..3]
    BY <1>0 DEF Types, ImportInv, Uploaded, Staged, ReserveImport, Ends, Outcomes, Reserve
  <2>3. /\ temporary' \subseteq Imports /\ importSlots' \subseteq Imports
        /\ staging' \in [Imports -> {"none", "partial", "compiled", "owned"}]
        /\ installed' \in [Imports -> {"none", "moved", "rebased", "sound"}]
        /\ harm' \in [Imports -> {"none", "unread", "torn"}]
    BY <1>0 DEF Types, ReserveImport
  <2>4. UNCHANGED <<tree, file, snapshotSlots, gate>>
    BY <1>1 DEF OnlyImport, exportVars, liveVars
  <2> QED
    BY <1>0, <2>1, <2>2, <2>3, <2>4 DEF Types
<1>4. RoomInv'
  <2>1. /\ \A q \in Requests \ {i} : reserved'[q] = reserved[q]
        /\ reserved'[i] <= reserved[i] \/ Reserved + reserved'[i] - reserved[i] <= Capacity
    BY <1>0, RoomIsANumber DEF Types, ReserveImport, Reserve
  <2> QED
    BY <1>0, <1>3, <2>1, RoomMoves
<1> QED
  BY <1>1, <1>3, <1>2, <1>4, ImportKeeps

\* A chunk of the upload comes, or its end, or one chunk too many.
LEMMA UploadStep ==
  ASSUME ArchiveInv, NEW i \in Imports, Upload(i)
  PROVE  ArchiveInv'
<1>0. /\ Types /\ ImportInv(i) /\ i \in Requests /\ i \notin Exports
      /\ pc[i] \in ImportSteps /\ reserved[i] \in 0..3
      /\ received[i] \in 0..(MaxArchive + 1) /\ MaxArchive \in Nat
      /\ staging[i] \in {"none", "partial", "compiled", "owned"}
      /\ installed[i] \in {"none", "moved", "rebased", "sound"}
      /\ harm[i] \in {"none", "unread", "torn"}
  BY ImportsAndExports DEF ArchiveInv, Types
<1>1. OnlyImport(i)
  BY <1>0 DEF OnlyImport, Types, Upload, Goto, Ends, ImportUnchanged
<1>2. ImportInv(i)'
  BY <1>0 DEF ImportInv, Types, Upload, Goto, Ends, Answers, Uploaded, Staged
<1>3. Types'
  <2>1. /\ pc' \in [Requests -> ImportSteps \cup ExportSteps]
        /\ \A j \in Imports : pc'[j] \in ImportSteps
        /\ \A e \in Exports : pc'[e] \in ExportSteps
    BY <1>0, ImportsAndExports DEF Types, Upload, Goto, ImportSteps, Uploaded, Staged
  <2>2. /\ outcome' \in [Requests -> Outcomes]
        /\ received' \in [Imports -> 0..(MaxArchive + 1)]
        /\ reserved' \in [Requests -> 0..3]
    BY <1>0 DEF Types, ImportInv, Uploaded, Staged, Upload, Ends, Outcomes
  <2>3. /\ temporary' \subseteq Imports /\ importSlots' \subseteq Imports
        /\ staging' \in [Imports -> {"none", "partial", "compiled", "owned"}]
        /\ installed' \in [Imports -> {"none", "moved", "rebased", "sound"}]
        /\ harm' \in [Imports -> {"none", "unread", "torn"}]
    BY <1>0 DEF Types, Upload
  <2>4. UNCHANGED <<tree, file, snapshotSlots, gate>>
    BY <1>1 DEF OnlyImport, exportVars, liveVars
  <2> QED
    BY <1>0, <2>1, <2>2, <2>3, <2>4 DEF Types
<1>4. RoomInv'
  BY RoomStays DEF Upload
<1> QED
  BY <1>1, <1>3, <1>2, <1>4, ImportKeeps

\* The members are in the staging directory, or are refused.
LEMMA ExtractStep ==
  ASSUME ArchiveInv, NEW i \in Imports, Extract(i)
  PROVE  ArchiveInv'
<1>0. /\ Types /\ ImportInv(i) /\ i \in Requests /\ i \notin Exports
      /\ pc[i] \in ImportSteps /\ reserved[i] \in 0..3
      /\ received[i] \in 0..(MaxArchive + 1) /\ MaxArchive \in Nat
      /\ staging[i] \in {"none", "partial", "compiled", "owned"}
      /\ installed[i] \in {"none", "moved", "rebased", "sound"}
      /\ harm[i] \in {"none", "unread", "torn"}
  BY ImportsAndExports DEF ArchiveInv, Types
<1>1. OnlyImport(i)
  BY <1>0 DEF OnlyImport, Types, Extract, Misjudge, Goto, Ends, ImportUnchanged
<1>2. ImportInv(i)'
  BY <1>0 DEF ImportInv, Types, Extract, Misjudge, Goto, Ends, Answers, Uploaded, Staged
<1>3. Types'
  <2>1. /\ pc' \in [Requests -> ImportSteps \cup ExportSteps]
        /\ \A j \in Imports : pc'[j] \in ImportSteps
        /\ \A e \in Exports : pc'[e] \in ExportSteps
    BY <1>0, ImportsAndExports DEF Types, Extract, Goto, ImportSteps, Uploaded, Staged
  <2>2. /\ outcome' \in [Requests -> Outcomes]
        /\ received' \in [Imports -> 0..(MaxArchive + 1)]
        /\ reserved' \in [Requests -> 0..3]
    BY <1>0 DEF Types, ImportInv, Uploaded, Staged, Extract, Misjudge, Ends, Outcomes
  <2>3. /\ temporary' \subseteq Imports /\ importSlots' \subseteq Imports
        /\ staging' \in [Imports -> {"none", "partial", "compiled", "owned"}]
        /\ installed' \in [Imports -> {"none", "moved", "rebased", "sound"}]
        /\ harm' \in [Imports -> {"none", "unread", "torn"}]
    BY <1>0 DEF Types, Extract, Misjudge
  <2>4. UNCHANGED <<tree, file, snapshotSlots, gate>>
    BY <1>1 DEF OnlyImport, exportVars, liveVars
  <2> QED
    BY <1>0, <2>1, <2>2, <2>3, <2>4 DEF Types
<1>4. RoomInv'
  BY RoomStays DEF Extract
<1> QED
  BY <1>1, <1>3, <1>2, <1>4, ImportKeeps

\* The archive is compiled; one that is refused leaves no staging directory.
LEMMA CompileStep ==
  ASSUME ArchiveInv, NEW i \in Imports, Compile(i)
  PROVE  ArchiveInv'
<1>0. /\ Types /\ ImportInv(i) /\ i \in Requests /\ i \notin Exports
      /\ pc[i] \in ImportSteps /\ reserved[i] \in 0..3
      /\ received[i] \in 0..(MaxArchive + 1) /\ MaxArchive \in Nat
      /\ staging[i] \in {"none", "partial", "compiled", "owned"}
      /\ installed[i] \in {"none", "moved", "rebased", "sound"}
      /\ harm[i] \in {"none", "unread", "torn"}
  BY ImportsAndExports DEF ArchiveInv, Types
<1>1. OnlyImport(i)
  BY <1>0 DEF OnlyImport, Types, Compile, Misjudge, Goto, Ends, ImportUnchanged
<1>2. ImportInv(i)'
  BY <1>0 DEF ImportInv, Types, Compile, Misjudge, Goto, Ends, Answers, Uploaded, Staged
<1>3. Types'
  <2>1. /\ pc' \in [Requests -> ImportSteps \cup ExportSteps]
        /\ \A j \in Imports : pc'[j] \in ImportSteps
        /\ \A e \in Exports : pc'[e] \in ExportSteps
    BY <1>0, ImportsAndExports DEF Types, Compile, Goto, ImportSteps, Uploaded, Staged
  <2>2. /\ outcome' \in [Requests -> Outcomes]
        /\ received' \in [Imports -> 0..(MaxArchive + 1)]
        /\ reserved' \in [Requests -> 0..3]
    BY <1>0 DEF Types, ImportInv, Uploaded, Staged, Compile, Misjudge, Ends, Outcomes
  <2>3. /\ temporary' \subseteq Imports /\ importSlots' \subseteq Imports
        /\ staging' \in [Imports -> {"none", "partial", "compiled", "owned"}]
        /\ installed' \in [Imports -> {"none", "moved", "rebased", "sound"}]
        /\ harm' \in [Imports -> {"none", "unread", "torn"}]
    BY <1>0 DEF Types, Compile, Misjudge
  <2>4. UNCHANGED <<tree, file, snapshotSlots, gate>>
    BY <1>1 DEF OnlyImport, exportVars, liveVars
  <2> QED
    BY <1>0, <2>1, <2>2, <2>3, <2>4 DEF Types
<1>4. RoomInv'
  BY RoomStays DEF Compile
<1> QED
  BY <1>1, <1>3, <1>2, <1>4, ImportKeeps

\* The staged Workspace gets its owner.
LEMMA PrepareStep ==
  ASSUME ArchiveInv, NEW i \in Imports, Prepare(i)
  PROVE  ArchiveInv'
<1>0. /\ Types /\ ImportInv(i) /\ i \in Requests /\ i \notin Exports
      /\ pc[i] \in ImportSteps /\ reserved[i] \in 0..3
      /\ received[i] \in 0..(MaxArchive + 1) /\ MaxArchive \in Nat
      /\ staging[i] \in {"none", "partial", "compiled", "owned"}
      /\ installed[i] \in {"none", "moved", "rebased", "sound"}
      /\ harm[i] \in {"none", "unread", "torn"}
  BY ImportsAndExports DEF ArchiveInv, Types
<1>1. OnlyImport(i)
  BY <1>0 DEF OnlyImport, Types, Prepare, Goto, Ends, ImportUnchanged
<1>2. ImportInv(i)'
  BY <1>0 DEF ImportInv, Types, Prepare, Goto, Ends, Answers, Uploaded, Staged
<1>3. Types'
  <2>1. /\ pc' \in [Requests -> ImportSteps \cup ExportSteps]
        /\ \A j \in Imports : pc'[j] \in ImportSteps
        /\ \A e \in Exports : pc'[e] \in ExportSteps
    BY <1>0, ImportsAndExports DEF Types, Prepare, Goto, ImportSteps, Uploaded, Staged
  <2>2. /\ outcome' \in [Requests -> Outcomes]
        /\ received' \in [Imports -> 0..(MaxArchive + 1)]
        /\ reserved' \in [Requests -> 0..3]
    BY <1>0 DEF Types, ImportInv, Uploaded, Staged, Prepare, Ends, Outcomes
  <2>3. /\ temporary' \subseteq Imports /\ importSlots' \subseteq Imports
        /\ staging' \in [Imports -> {"none", "partial", "compiled", "owned"}]
        /\ installed' \in [Imports -> {"none", "moved", "rebased", "sound"}]
        /\ harm' \in [Imports -> {"none", "unread", "torn"}]
    BY <1>0 DEF Types, Prepare
  <2>4. UNCHANGED <<tree, file, snapshotSlots, gate>>
    BY <1>1 DEF OnlyImport, exportVars, liveVars
  <2> QED
    BY <1>0, <2>1, <2>2, <2>3, <2>4 DEF Types
<1>4. RoomInv'
  BY RoomStays DEF Prepare
<1> QED
  BY <1>1, <1>3, <1>2, <1>4, ImportKeeps

\* The quota is looked at again.
LEMMA RecheckStep ==
  ASSUME ArchiveInv, NEW i \in Imports, Recheck(i)
  PROVE  ArchiveInv'
<1>0. /\ Types /\ ImportInv(i) /\ i \in Requests /\ i \notin Exports
      /\ pc[i] \in ImportSteps /\ reserved[i] \in 0..3
      /\ received[i] \in 0..(MaxArchive + 1) /\ MaxArchive \in Nat
      /\ staging[i] \in {"none", "partial", "compiled", "owned"}
      /\ installed[i] \in {"none", "moved", "rebased", "sound"}
      /\ harm[i] \in {"none", "unread", "torn"}
  BY ImportsAndExports DEF ArchiveInv, Types
<1>1. OnlyImport(i)
  BY <1>0 DEF OnlyImport, Types, Recheck, Goto, Ends, ImportUnchanged
<1>2. ImportInv(i)'
  BY <1>0 DEF ImportInv, Types, Recheck, Goto, Ends, Answers, Uploaded, Staged
<1>3. Types'
  <2>1. /\ pc' \in [Requests -> ImportSteps \cup ExportSteps]
        /\ \A j \in Imports : pc'[j] \in ImportSteps
        /\ \A e \in Exports : pc'[e] \in ExportSteps
    BY <1>0, ImportsAndExports DEF Types, Recheck, Goto, ImportSteps, Uploaded, Staged
  <2>2. /\ outcome' \in [Requests -> Outcomes]
        /\ received' \in [Imports -> 0..(MaxArchive + 1)]
        /\ reserved' \in [Requests -> 0..3]
    BY <1>0 DEF Types, ImportInv, Uploaded, Staged, Recheck, Ends, Outcomes
  <2>3. /\ temporary' \subseteq Imports /\ importSlots' \subseteq Imports
        /\ staging' \in [Imports -> {"none", "partial", "compiled", "owned"}]
        /\ installed' \in [Imports -> {"none", "moved", "rebased", "sound"}]
        /\ harm' \in [Imports -> {"none", "unread", "torn"}]
    BY <1>0 DEF Types, Recheck
  <2>4. UNCHANGED <<tree, file, snapshotSlots, gate>>
    BY <1>1 DEF OnlyImport, exportVars, liveVars
  <2> QED
    BY <1>0, <2>1, <2>2, <2>3, <2>4 DEF Types
<1>4. RoomInv'
  BY RoomStays DEF Recheck
<1> QED
  BY <1>1, <1>3, <1>2, <1>4, ImportKeeps

\* The directory moves into place: from here on there is something installed.
LEMMA PublishStep ==
  ASSUME ArchiveInv, NEW i \in Imports, Publish(i)
  PROVE  ArchiveInv'
<1>0. /\ Types /\ ImportInv(i) /\ i \in Requests /\ i \notin Exports
      /\ pc[i] \in ImportSteps /\ reserved[i] \in 0..3
      /\ received[i] \in 0..(MaxArchive + 1) /\ MaxArchive \in Nat
      /\ staging[i] \in {"none", "partial", "compiled", "owned"}
      /\ installed[i] \in {"none", "moved", "rebased", "sound"}
      /\ harm[i] \in {"none", "unread", "torn"}
  BY ImportsAndExports DEF ArchiveInv, Types
<1>1. OnlyImport(i)
  BY <1>0 DEF OnlyImport, Types, Publish, Goto, Ends, ImportUnchanged
<1>2. ImportInv(i)'
  BY <1>0 DEF ImportInv, Types, Publish, Goto, Ends, Answers, Uploaded, Staged
<1>3. Types'
  <2>1. /\ pc' \in [Requests -> ImportSteps \cup ExportSteps]
        /\ \A j \in Imports : pc'[j] \in ImportSteps
        /\ \A e \in Exports : pc'[e] \in ExportSteps
    BY <1>0, ImportsAndExports DEF Types, Publish, Goto, ImportSteps, Uploaded, Staged
  <2>2. /\ outcome' \in [Requests -> Outcomes]
        /\ received' \in [Imports -> 0..(MaxArchive + 1)]
        /\ reserved' \in [Requests -> 0..3]
    BY <1>0 DEF Types, ImportInv, Uploaded, Staged, Publish, Ends, Outcomes
  <2>3. /\ temporary' \subseteq Imports /\ importSlots' \subseteq Imports
        /\ staging' \in [Imports -> {"none", "partial", "compiled", "owned"}]
        /\ installed' \in [Imports -> {"none", "moved", "rebased", "sound"}]
        /\ harm' \in [Imports -> {"none", "unread", "torn"}]
    BY <1>0 DEF Types, Publish
  <2>4. UNCHANGED <<tree, file, snapshotSlots, gate>>
    BY <1>1 DEF OnlyImport, exportVars, liveVars
  <2> QED
    BY <1>0, <2>1, <2>2, <2>3, <2>4 DEF Types
<1>4. RoomInv'
  BY RoomStays DEF Publish
<1> QED
  BY <1>1, <1>3, <1>2, <1>4, ImportKeeps

\* It is rebased and read, or removed again.
LEMMA RebaseInstalledStep ==
  ASSUME ArchiveInv, NEW i \in Imports, RebaseInstalled(i)
  PROVE  ArchiveInv'
<1>0. /\ Types /\ ImportInv(i) /\ i \in Requests /\ i \notin Exports
      /\ pc[i] \in ImportSteps /\ reserved[i] \in 0..3
      /\ received[i] \in 0..(MaxArchive + 1) /\ MaxArchive \in Nat
      /\ staging[i] \in {"none", "partial", "compiled", "owned"}
      /\ installed[i] \in {"none", "moved", "rebased", "sound"}
      /\ harm[i] \in {"none", "unread", "torn"}
  BY ImportsAndExports DEF ArchiveInv, Types
<1>1. OnlyImport(i)
  BY <1>0 DEF OnlyImport, Types, RebaseInstalled, Goto, Ends, ImportUnchanged
<1>2. ImportInv(i)'
  BY <1>0 DEF ImportInv, Types, RebaseInstalled, Goto, Ends, Answers, Uploaded, Staged
<1>3. Types'
  <2>1. /\ pc' \in [Requests -> ImportSteps \cup ExportSteps]
        /\ \A j \in Imports : pc'[j] \in ImportSteps
        /\ \A e \in Exports : pc'[e] \in ExportSteps
    BY <1>0, ImportsAndExports DEF Types, RebaseInstalled, Goto, ImportSteps, Uploaded, Staged
  <2>2. /\ outcome' \in [Requests -> Outcomes]
        /\ received' \in [Imports -> 0..(MaxArchive + 1)]
        /\ reserved' \in [Requests -> 0..3]
    BY <1>0 DEF Types, ImportInv, Uploaded, Staged, RebaseInstalled, Ends, Outcomes
  <2>3. /\ temporary' \subseteq Imports /\ importSlots' \subseteq Imports
        /\ staging' \in [Imports -> {"none", "partial", "compiled", "owned"}]
        /\ installed' \in [Imports -> {"none", "moved", "rebased", "sound"}]
        /\ harm' \in [Imports -> {"none", "unread", "torn"}]
    BY <1>0 DEF Types, RebaseInstalled
  <2>4. UNCHANGED <<tree, file, snapshotSlots, gate>>
    BY <1>1 DEF OnlyImport, exportVars, liveVars
  <2> QED
    BY <1>0, <2>1, <2>2, <2>3, <2>4 DEF Types
<1>4. RoomInv'
  BY RoomStays DEF RebaseInstalled
<1> QED
  BY <1>1, <1>3, <1>2, <1>4, ImportKeeps

\* A cancelled import goes on to its finally clauses.
LEMMA CancelImportStep ==
  ASSUME ArchiveInv, NEW i \in Imports, CancelImport(i)
  PROVE  ArchiveInv'
<1>0. /\ Types /\ ImportInv(i) /\ i \in Requests /\ i \notin Exports
      /\ pc[i] \in ImportSteps /\ reserved[i] \in 0..3
      /\ received[i] \in 0..(MaxArchive + 1) /\ MaxArchive \in Nat
      /\ staging[i] \in {"none", "partial", "compiled", "owned"}
      /\ installed[i] \in {"none", "moved", "rebased", "sound"}
      /\ harm[i] \in {"none", "unread", "torn"}
  BY ImportsAndExports DEF ArchiveInv, Types
<1>1. OnlyImport(i)
  BY <1>0 DEF OnlyImport, Types, CancelImport, Goto, Ends, ImportUnchanged
<1>2. ImportInv(i)'
  BY <1>0 DEF ImportInv, Types, CancelImport, Goto, Ends, Answers, Uploaded, Staged
<1>3. Types'
  <2>1. /\ pc' \in [Requests -> ImportSteps \cup ExportSteps]
        /\ \A j \in Imports : pc'[j] \in ImportSteps
        /\ \A e \in Exports : pc'[e] \in ExportSteps
    BY <1>0, ImportsAndExports DEF Types, CancelImport, Goto, ImportSteps, Uploaded, Staged
  <2>2. /\ outcome' \in [Requests -> Outcomes]
        /\ received' \in [Imports -> 0..(MaxArchive + 1)]
        /\ reserved' \in [Requests -> 0..3]
    BY <1>0 DEF Types, ImportInv, Uploaded, Staged, CancelImport, Ends, Outcomes
  <2>3. /\ temporary' \subseteq Imports /\ importSlots' \subseteq Imports
        /\ staging' \in [Imports -> {"none", "partial", "compiled", "owned"}]
        /\ installed' \in [Imports -> {"none", "moved", "rebased", "sound"}]
        /\ harm' \in [Imports -> {"none", "unread", "torn"}]
    BY <1>0 DEF Types, CancelImport
  <2>4. UNCHANGED <<tree, file, snapshotSlots, gate>>
    BY <1>1 DEF OnlyImport, exportVars, liveVars
  <2> QED
    BY <1>0, <2>1, <2>2, <2>3, <2>4 DEF Types
<1>4. RoomInv'
  BY RoomStays DEF CancelImport
<1> QED
  BY <1>1, <1>3, <1>2, <1>4, ImportKeeps

\* The finally clauses give everything back.
LEMMA CleanImportStep ==
  ASSUME ArchiveInv, NEW i \in Imports, CleanImport(i)
  PROVE  ArchiveInv'
<1>0. /\ Types /\ ImportInv(i) /\ i \in Requests /\ i \notin Exports
      /\ pc[i] \in ImportSteps /\ reserved[i] \in 0..3
      /\ received[i] \in 0..(MaxArchive + 1) /\ MaxArchive \in Nat
      /\ staging[i] \in {"none", "partial", "compiled", "owned"}
      /\ installed[i] \in {"none", "moved", "rebased", "sound"}
      /\ harm[i] \in {"none", "unread", "torn"}
  BY ImportsAndExports DEF ArchiveInv, Types
<1>1. OnlyImport(i)
  BY <1>0 DEF OnlyImport, Types, CleanImport, Goto, Release, ImportUnchanged
<1>2. ImportInv(i)'
  BY <1>0 DEF ImportInv, Types, CleanImport, Goto, Release, Answers, Uploaded, Staged
<1>3. Types'
  <2>1. /\ pc' \in [Requests -> ImportSteps \cup ExportSteps]
        /\ \A j \in Imports : pc'[j] \in ImportSteps
        /\ \A e \in Exports : pc'[e] \in ExportSteps
    BY <1>0, ImportsAndExports DEF Types, CleanImport, Goto, ImportSteps, Uploaded, Staged
  <2>2. /\ outcome' \in [Requests -> Outcomes]
        /\ received' \in [Imports -> 0..(MaxArchive + 1)]
        /\ reserved' \in [Requests -> 0..3]
    BY <1>0 DEF Types, ImportInv, Uploaded, Staged, CleanImport, Outcomes, Release
  <2>3. /\ temporary' \subseteq Imports /\ importSlots' \subseteq Imports
        /\ staging' \in [Imports -> {"none", "partial", "compiled", "owned"}]
        /\ installed' \in [Imports -> {"none", "moved", "rebased", "sound"}]
        /\ harm' \in [Imports -> {"none", "unread", "torn"}]
    BY <1>0 DEF Types, CleanImport
  <2>4. UNCHANGED <<tree, file, snapshotSlots, gate>>
    BY <1>1 DEF OnlyImport, exportVars, liveVars
  <2> QED
    BY <1>0, <2>1, <2>2, <2>3, <2>4 DEF Types
<1>4. RoomInv'
  <2>1. /\ \A q \in Requests \ {i} : reserved'[q] = reserved[q]
        /\ reserved'[i] <= reserved[i] \/ Reserved + reserved'[i] - reserved[i] <= Capacity
    BY <1>0, RoomIsANumber DEF Types, CleanImport, Release
  <2> QED
    BY <1>0, <1>3, <2>1, RoomMoves
<1> QED
  BY <1>1, <1>3, <1>2, <1>4, ImportKeeps

-----------------------------------------------------------------------------
(* Exports.                                                                *)

\* An export reserves for its tree, or is refused.
LEMMA ReserveTreeStep ==
  ASSUME ArchiveInv, NEW e \in Exports, ReserveTree(e)
  PROVE  ArchiveInv'
<1>0. /\ Types /\ ExportInv(e) /\ LiveInv /\ e \in Requests /\ e \notin Imports
      /\ e # NoOne /\ e # Writer /\ NoOne # Writer
      /\ pc[e] \in ExportSteps /\ reserved[e] \in 0..3 /\ MaxGenerations \in Nat
      /\ tree[e] \in
            [plans : SUBSET (1..MaxGenerations), metadata : 0..MaxGenerations, rebased : BOOLEAN]
      /\ gate \in Exports \cup {NoOne, Writer}
      /\ metadata \in 1..MaxGenerations /\ plans \subseteq 1..MaxGenerations
      /\ writing = "no" => plans = {metadata}
      /\ writing # "no" <=> gate = Writer
  <2>1. /\ Types /\ ExportInv(e) /\ LiveInv /\ e \in Requests /\ e \notin Imports
        /\ e # NoOne /\ e # Writer /\ NoOne # Writer /\ MaxGenerations \in Nat
    BY ImportsAndExports DEF ArchiveInv
  <2>2. /\ metadata \in 1..MaxGenerations /\ plans \subseteq 1..MaxGenerations
        /\ writing = "no" => plans = {metadata}
        /\ writing # "no" <=> gate = Writer
    BY <2>1 DEF LiveInv
  <2> QED
    BY <2>1, <2>2 DEF Types
<1>1. OnlyExport(e)
  BY <1>0 DEF OnlyExport, Types, ReserveTree, Goto, Ends, Reserve, ExportUnchanged, exportVars,
     importVars, ExportInv, Gated
<1>2. ExportInv(e)'
  BY <1>0 DEF ExportInv, Types, ReserveTree, Goto, Ends, Reserve, ExportUnchanged, exportVars,
     Gated, Linked, Decided, TreeIsComplete, Nowhere
<1>3. Types'
  <2>1. /\ pc' \in [Requests -> ImportSteps \cup ExportSteps]
        /\ \A i \in Imports : pc'[i] \in ImportSteps
        /\ \A d \in Exports : pc'[d] \in ExportSteps
    BY <1>0, ImportsAndExports DEF Types, ReserveTree, Goto, ExportSteps, Gated, Linked, Decided
  <2>2. /\ outcome' \in [Requests -> Outcomes]
        /\ file' \subseteq Exports /\ snapshotSlots' \subseteq Exports
        /\ gate' \in Exports \cup {NoOne, Writer}
    BY <1>0 DEF Types, ReserveTree, Ends, Outcomes, exportVars
  <2>3. reserved' \in [Requests -> 0..3]
    BY <1>0 DEF Types, ExportInv, ReserveTree, Reserve
  <2>4. tree' \in
           [Exports -> [plans : SUBSET (1..MaxGenerations), metadata : 0..MaxGenerations, rebased : BOOLEAN]]
    BY <1>0 DEF Types, ReserveTree, exportVars
  <2>5. UNCHANGED <<received, temporary, staging, installed, harm, importSlots>>
    BY <1>1 DEF OnlyExport, importVars
  <2> QED
    BY <1>0, <2>1, <2>2, <2>3, <2>4, <2>5 DEF Types
<1>4. RoomInv'
  <2>1. /\ \A q \in Requests \ {e} : reserved'[q] = reserved[q]
        /\ reserved'[e] <= reserved[e] \/ Reserved + reserved'[e] - reserved[e] <= Capacity
    BY <1>0, RoomIsANumber DEF Types, ReserveTree, Reserve, ExportInv
  <2> QED
    BY <1>0, <1>3, <2>1, RoomMoves
<1> QED
  BY <1>1, <1>3, <1>2, <1>4, ExportKeeps

\* It enters the gate of the Workspace, or finds it closed.
LEMMA EnterGateStep ==
  ASSUME ArchiveInv, NEW e \in Exports, EnterGate(e)
  PROVE  ArchiveInv'
<1>0. /\ Types /\ ExportInv(e) /\ LiveInv /\ e \in Requests /\ e \notin Imports
      /\ e # NoOne /\ e # Writer /\ NoOne # Writer
      /\ pc[e] \in ExportSteps /\ reserved[e] \in 0..3 /\ MaxGenerations \in Nat
      /\ tree[e] \in
            [plans : SUBSET (1..MaxGenerations), metadata : 0..MaxGenerations, rebased : BOOLEAN]
      /\ gate \in Exports \cup {NoOne, Writer}
      /\ metadata \in 1..MaxGenerations /\ plans \subseteq 1..MaxGenerations
      /\ writing = "no" => plans = {metadata}
      /\ writing # "no" <=> gate = Writer
  <2>1. /\ Types /\ ExportInv(e) /\ LiveInv /\ e \in Requests /\ e \notin Imports
        /\ e # NoOne /\ e # Writer /\ NoOne # Writer /\ MaxGenerations \in Nat
    BY ImportsAndExports DEF ArchiveInv
  <2>2. /\ metadata \in 1..MaxGenerations /\ plans \subseteq 1..MaxGenerations
        /\ writing = "no" => plans = {metadata}
        /\ writing # "no" <=> gate = Writer
    BY <2>1 DEF LiveInv
  <2> QED
    BY <2>1, <2>2 DEF Types
<1>1. OnlyExport(e)
  BY <1>0 DEF OnlyExport, Types, EnterGate, Goto, Ends, ExportUnchanged, exportVars, importVars,
     ExportInv, Gated
<1>2. ExportInv(e)'
  BY <1>0 DEF ExportInv, Types, EnterGate, Goto, Ends, ExportUnchanged, exportVars, Gated,
     Linked, Decided, TreeIsComplete, Nowhere
<1>3. Types'
  <2>1. /\ pc' \in [Requests -> ImportSteps \cup ExportSteps]
        /\ \A i \in Imports : pc'[i] \in ImportSteps
        /\ \A d \in Exports : pc'[d] \in ExportSteps
    BY <1>0, ImportsAndExports DEF Types, EnterGate, Goto, ExportSteps, Gated, Linked, Decided
  <2>2. /\ outcome' \in [Requests -> Outcomes]
        /\ file' \subseteq Exports /\ snapshotSlots' \subseteq Exports
        /\ gate' \in Exports \cup {NoOne, Writer}
    BY <1>0 DEF Types, EnterGate, Ends, Outcomes, exportVars
  <2>3. reserved' \in [Requests -> 0..3]
    BY <1>0 DEF Types, ExportInv, EnterGate
  <2>4. tree' \in
           [Exports -> [plans : SUBSET (1..MaxGenerations), metadata : 0..MaxGenerations, rebased : BOOLEAN]]
    BY <1>0 DEF Types, EnterGate, exportVars
  <2>5. UNCHANGED <<received, temporary, staging, installed, harm, importSlots>>
    BY <1>1 DEF OnlyExport, importVars
  <2> QED
    BY <1>0, <2>1, <2>2, <2>3, <2>4, <2>5 DEF Types
<1>4. RoomInv'
  BY RoomStays DEF EnterGate
<1> QED
  BY <1>1, <1>3, <1>2, <1>4, ExportKeeps

\* Inside the gate it links the metadata, then the plan, of one generation.
LEMMA LinkStep ==
  ASSUME ArchiveInv, NEW e \in Exports, Link(e)
  PROVE  ArchiveInv'
<1>0. /\ Types /\ ExportInv(e) /\ LiveInv /\ e \in Requests /\ e \notin Imports
      /\ e # NoOne /\ e # Writer /\ NoOne # Writer
      /\ pc[e] \in ExportSteps /\ reserved[e] \in 0..3 /\ MaxGenerations \in Nat
      /\ tree[e] \in
            [plans : SUBSET (1..MaxGenerations), metadata : 0..MaxGenerations, rebased : BOOLEAN]
      /\ gate \in Exports \cup {NoOne, Writer}
      /\ metadata \in 1..MaxGenerations /\ plans \subseteq 1..MaxGenerations
      /\ writing = "no" => plans = {metadata}
      /\ writing # "no" <=> gate = Writer
  <2>1. /\ Types /\ ExportInv(e) /\ LiveInv /\ e \in Requests /\ e \notin Imports
        /\ e # NoOne /\ e # Writer /\ NoOne # Writer /\ MaxGenerations \in Nat
    BY ImportsAndExports DEF ArchiveInv
  <2>2. /\ metadata \in 1..MaxGenerations /\ plans \subseteq 1..MaxGenerations
        /\ writing = "no" => plans = {metadata}
        /\ writing # "no" <=> gate = Writer
    BY <2>1 DEF LiveInv
  <2> QED
    BY <2>1, <2>2 DEF Types
<1>1. OnlyExport(e)
  BY <1>0 DEF OnlyExport, Types, Link, Goto, Ends, ExportUnchanged, importVars, ExportInv, Gated
<1>2. ExportInv(e)'
  <2>1. /\ pc[e] = "link" /\ gate = e /\ plans = {metadata} /\ reserved[e] = 1
        /\ tree[e].plans = {} /\ tree[e].rebased = FALSE /\ tree[e].metadata \in {0, metadata}
        /\ outcome[e] = "none" /\ e \notin file /\ e \notin snapshotSlots
    BY <1>0 DEF Link, ExportInv, Gated
  <2>2. UNCHANGED <<file, snapshotSlots, reserved, metadata>>
    BY DEF Link, ExportUnchanged
  <2>3. CASE /\ tree' = [tree EXCEPT ![e].metadata = metadata]
             /\ UNCHANGED <<pc, gate, outcome>>
    <3>1. /\ tree'[e].plans = {} /\ tree'[e].rebased = FALSE
          /\ tree'[e].metadata = metadata
      BY <1>0, <2>1, <2>3 DEF Types
    <3> QED
      BY <2>1, <2>2, <2>3, <3>1 DEF ExportInv, Gated, Linked, Decided
  <2>4. CASE /\ tree[e].metadata # 0 /\ tree' = [tree EXCEPT ![e].plans = plans]
             /\ Goto(e, "leave") /\ UNCHANGED <<gate, outcome>>
    <3>1. /\ tree'[e].plans = {metadata} /\ tree'[e].metadata = metadata
          /\ pc'[e] = "leave"
      BY <1>0, <2>1, <2>4 DEF Types, Goto
    <3> QED
      BY <2>1, <2>2, <2>4, <3>1 DEF ExportInv, Gated, Linked, Decided, TreeIsComplete
  <2>5. CASE /\ tree' = [tree EXCEPT ![e] = Nowhere] /\ gate' = NoOne
             /\ Goto(e, "release") /\ Ends(e, "failed")
    <3>1. /\ tree'[e] = Nowhere /\ pc'[e] = "release" /\ outcome'[e] = "failed"
      BY <1>0, <2>5 DEF Types, Goto, Ends
    <3> QED
      BY <1>0, <2>1, <2>2, <2>5, <3>1 DEF ExportInv, Gated, Linked, Decided
  <2> QED
    BY <2>3, <2>4, <2>5 DEF Link
<1>3. Types'
  <2>1. /\ pc' \in [Requests -> ImportSteps \cup ExportSteps]
        /\ \A i \in Imports : pc'[i] \in ImportSteps
        /\ \A d \in Exports : pc'[d] \in ExportSteps
    BY <1>0, ImportsAndExports DEF Types, Link, Goto, ExportSteps, Gated, Linked, Decided
  <2>2. /\ outcome' \in [Requests -> Outcomes]
        /\ file' \subseteq Exports /\ snapshotSlots' \subseteq Exports
        /\ gate' \in Exports \cup {NoOne, Writer}
    BY <1>0 DEF Types, Link, Ends, Outcomes
  <2>3. reserved' \in [Requests -> 0..3]
    BY <1>0 DEF Types, ExportInv, Link
  <2>4. tree' \in
           [Exports -> [plans : SUBSET (1..MaxGenerations), metadata : 0..MaxGenerations, rebased : BOOLEAN]]
    <3>1. metadata \in 0..MaxGenerations /\ plans \in SUBSET (1..MaxGenerations)
      BY <1>0
    <3>2. Nowhere \in
             [plans : SUBSET (1..MaxGenerations), metadata : 0..MaxGenerations, rebased : BOOLEAN]
      BY <1>0 DEF Nowhere
    <3>3. \/ tree' = [tree EXCEPT ![e].metadata = metadata]
          \/ tree' = [tree EXCEPT ![e].plans = plans]
          \/ tree' = [tree EXCEPT ![e] = Nowhere]
      BY DEF Link
    <3> HIDE DEF Nowhere
    <3> QED
      BY <1>0, <3>1, <3>2, <3>3 DEF Types
  <2>5. UNCHANGED <<received, temporary, staging, installed, harm, importSlots>>
    BY <1>1 DEF OnlyExport, importVars
  <2> QED
    BY <1>0, <2>1, <2>2, <2>3, <2>4, <2>5 DEF Types
<1>4. RoomInv'
  BY RoomStays DEF Link
<1> QED
  BY <1>1, <1>3, <1>2, <1>4, ExportKeeps

\* It leaves the gate with a whole tree.
LEMMA LeaveGateStep ==
  ASSUME ArchiveInv, NEW e \in Exports, LeaveGate(e)
  PROVE  ArchiveInv'
<1>0. /\ Types /\ ExportInv(e) /\ LiveInv /\ e \in Requests /\ e \notin Imports
      /\ e # NoOne /\ e # Writer /\ NoOne # Writer
      /\ pc[e] \in ExportSteps /\ reserved[e] \in 0..3 /\ MaxGenerations \in Nat
      /\ tree[e] \in
            [plans : SUBSET (1..MaxGenerations), metadata : 0..MaxGenerations, rebased : BOOLEAN]
      /\ gate \in Exports \cup {NoOne, Writer}
      /\ metadata \in 1..MaxGenerations /\ plans \subseteq 1..MaxGenerations
      /\ writing = "no" => plans = {metadata}
      /\ writing # "no" <=> gate = Writer
  <2>1. /\ Types /\ ExportInv(e) /\ LiveInv /\ e \in Requests /\ e \notin Imports
        /\ e # NoOne /\ e # Writer /\ NoOne # Writer /\ MaxGenerations \in Nat
    BY ImportsAndExports DEF ArchiveInv
  <2>2. /\ metadata \in 1..MaxGenerations /\ plans \subseteq 1..MaxGenerations
        /\ writing = "no" => plans = {metadata}
        /\ writing # "no" <=> gate = Writer
    BY <2>1 DEF LiveInv
  <2> QED
    BY <2>1, <2>2 DEF Types
<1>1. OnlyExport(e)
  BY <1>0 DEF OnlyExport, Types, LeaveGate, Goto, ExportUnchanged, exportVars, importVars,
     ExportInv, Gated
<1>2. ExportInv(e)'
  BY <1>0 DEF ExportInv, Types, LeaveGate, Goto, ExportUnchanged, exportVars, Gated, Linked,
     Decided, TreeIsComplete, Nowhere
<1>3. Types'
  <2>1. /\ pc' \in [Requests -> ImportSteps \cup ExportSteps]
        /\ \A i \in Imports : pc'[i] \in ImportSteps
        /\ \A d \in Exports : pc'[d] \in ExportSteps
    BY <1>0, ImportsAndExports DEF Types, LeaveGate, Goto, ExportSteps, Gated, Linked, Decided
  <2>2. /\ outcome' \in [Requests -> Outcomes]
        /\ file' \subseteq Exports /\ snapshotSlots' \subseteq Exports
        /\ gate' \in Exports \cup {NoOne, Writer}
    BY <1>0 DEF Types, LeaveGate, Outcomes, exportVars
  <2>3. reserved' \in [Requests -> 0..3]
    BY <1>0 DEF Types, ExportInv, LeaveGate
  <2>4. tree' \in
           [Exports -> [plans : SUBSET (1..MaxGenerations), metadata : 0..MaxGenerations, rebased : BOOLEAN]]
    BY <1>0 DEF Types, LeaveGate, exportVars
  <2>5. UNCHANGED <<received, temporary, staging, installed, harm, importSlots>>
    BY <1>1 DEF OnlyExport, importVars
  <2> QED
    BY <1>0, <2>1, <2>2, <2>3, <2>4, <2>5 DEF Types
<1>4. RoomInv'
  BY RoomStays DEF LeaveGate
<1> QED
  BY <1>1, <1>3, <1>2, <1>4, ExportKeeps

\* The tree is rebased; the plan of the live Workspace is not touched.
LEMMA RebaseStep ==
  ASSUME ArchiveInv, NEW e \in Exports, Rebase(e)
  PROVE  ArchiveInv'
<1>0. /\ Types /\ ExportInv(e) /\ LiveInv /\ e \in Requests /\ e \notin Imports
      /\ e # NoOne /\ e # Writer /\ NoOne # Writer
      /\ pc[e] \in ExportSteps /\ reserved[e] \in 0..3 /\ MaxGenerations \in Nat
      /\ tree[e] \in
            [plans : SUBSET (1..MaxGenerations), metadata : 0..MaxGenerations, rebased : BOOLEAN]
      /\ gate \in Exports \cup {NoOne, Writer}
      /\ metadata \in 1..MaxGenerations /\ plans \subseteq 1..MaxGenerations
      /\ writing = "no" => plans = {metadata}
      /\ writing # "no" <=> gate = Writer
  <2>1. /\ Types /\ ExportInv(e) /\ LiveInv /\ e \in Requests /\ e \notin Imports
        /\ e # NoOne /\ e # Writer /\ NoOne # Writer /\ MaxGenerations \in Nat
    BY ImportsAndExports DEF ArchiveInv
  <2>2. /\ metadata \in 1..MaxGenerations /\ plans \subseteq 1..MaxGenerations
        /\ writing = "no" => plans = {metadata}
        /\ writing # "no" <=> gate = Writer
    BY <2>1 DEF LiveInv
  <2> QED
    BY <2>1, <2>2 DEF Types
<1>1. OnlyExport(e)
  BY <1>0 DEF OnlyExport, Types, Rebase, Goto, Ends, ExportUnchanged, importVars, ExportInv,
     Gated
<1>2. ExportInv(e)'
  BY <1>0 DEF ExportInv, Types, Rebase, Goto, Ends, ExportUnchanged, Gated, Linked, Decided,
     TreeIsComplete, Nowhere
<1>3. Types'
  <2>1. /\ pc' \in [Requests -> ImportSteps \cup ExportSteps]
        /\ \A i \in Imports : pc'[i] \in ImportSteps
        /\ \A d \in Exports : pc'[d] \in ExportSteps
    BY <1>0, ImportsAndExports DEF Types, Rebase, Goto, ExportSteps, Gated, Linked, Decided
  <2>2. /\ outcome' \in [Requests -> Outcomes]
        /\ file' \subseteq Exports /\ snapshotSlots' \subseteq Exports
        /\ gate' \in Exports \cup {NoOne, Writer}
    BY <1>0 DEF Types, Rebase, Ends, Outcomes
  <2>3. reserved' \in [Requests -> 0..3]
    BY <1>0 DEF Types, ExportInv, Rebase
  <2>4. tree' \in
           [Exports -> [plans : SUBSET (1..MaxGenerations), metadata : 0..MaxGenerations, rebased : BOOLEAN]]
    <3>1. CASE TreeIsComplete(e)
      <4> DEFINE old == tree[e]
                 new == [old EXCEPT !.plans = {old.metadata}, !.rebased = TRUE]
      <4>1. old.metadata \in 1..MaxGenerations
        BY <1>0, <3>1 DEF TreeIsComplete
      <4>2. new \in
               [plans : SUBSET (1..MaxGenerations), metadata : 0..MaxGenerations, rebased : BOOLEAN]
        BY <1>0, <4>1
      <4>3. tree' = [tree EXCEPT ![e] = new] \/ tree' = tree
        BY DEF Rebase
      <4> HIDE DEF new
      <4> QED
        BY <1>0, <4>2, <4>3 DEF Types
    <3>2. CASE ~TreeIsComplete(e)
      BY <1>0, <3>2 DEF Rebase, Types
    <3> QED
      BY <3>1, <3>2
  <2>5. UNCHANGED <<received, temporary, staging, installed, harm, importSlots>>
    BY <1>1 DEF OnlyExport, importVars
  <2> QED
    BY <1>0, <2>1, <2>2, <2>3, <2>4, <2>5 DEF Types
<1>4. RoomInv'
  BY RoomStays DEF Rebase
<1> QED
  BY <1>1, <1>3, <1>2, <1>4, ExportKeeps

\* A response slot and twice the limit are taken, or it is refused.
LEMMA TakeSnapshotSlotStep ==
  ASSUME ArchiveInv, NEW e \in Exports, TakeSnapshotSlot(e)
  PROVE  ArchiveInv'
<1>0. /\ Types /\ ExportInv(e) /\ LiveInv /\ e \in Requests /\ e \notin Imports
      /\ e # NoOne /\ e # Writer /\ NoOne # Writer
      /\ pc[e] \in ExportSteps /\ reserved[e] \in 0..3 /\ MaxGenerations \in Nat
      /\ tree[e] \in
            [plans : SUBSET (1..MaxGenerations), metadata : 0..MaxGenerations, rebased : BOOLEAN]
      /\ gate \in Exports \cup {NoOne, Writer}
      /\ metadata \in 1..MaxGenerations /\ plans \subseteq 1..MaxGenerations
      /\ writing = "no" => plans = {metadata}
      /\ writing # "no" <=> gate = Writer
  <2>1. /\ Types /\ ExportInv(e) /\ LiveInv /\ e \in Requests /\ e \notin Imports
        /\ e # NoOne /\ e # Writer /\ NoOne # Writer /\ MaxGenerations \in Nat
    BY ImportsAndExports DEF ArchiveInv
  <2>2. /\ metadata \in 1..MaxGenerations /\ plans \subseteq 1..MaxGenerations
        /\ writing = "no" => plans = {metadata}
        /\ writing # "no" <=> gate = Writer
    BY <2>1 DEF LiveInv
  <2> QED
    BY <2>1, <2>2 DEF Types
<1>1. OnlyExport(e)
  BY <1>0 DEF OnlyExport, Types, TakeSnapshotSlot, Goto, Ends, Reserve, ExportUnchanged,
     importVars, ExportInv, Gated
<1>2. ExportInv(e)'
  BY <1>0 DEF ExportInv, Types, TakeSnapshotSlot, Goto, Ends, Reserve, ExportUnchanged, Gated,
     Linked, Decided, TreeIsComplete, Nowhere
<1>3. Types'
  <2>1. /\ pc' \in [Requests -> ImportSteps \cup ExportSteps]
        /\ \A i \in Imports : pc'[i] \in ImportSteps
        /\ \A d \in Exports : pc'[d] \in ExportSteps
    BY <1>0, ImportsAndExports DEF Types, TakeSnapshotSlot, Goto, ExportSteps, Gated, Linked,
       Decided
  <2>2. /\ outcome' \in [Requests -> Outcomes]
        /\ file' \subseteq Exports /\ snapshotSlots' \subseteq Exports
        /\ gate' \in Exports \cup {NoOne, Writer}
    BY <1>0 DEF Types, TakeSnapshotSlot, Ends, Outcomes
  <2>3. reserved' \in [Requests -> 0..3]
    BY <1>0 DEF Types, ExportInv, TakeSnapshotSlot, Reserve
  <2>4. tree' \in
           [Exports -> [plans : SUBSET (1..MaxGenerations), metadata : 0..MaxGenerations, rebased : BOOLEAN]]
    BY <1>0 DEF Types, TakeSnapshotSlot
  <2>5. UNCHANGED <<received, temporary, staging, installed, harm, importSlots>>
    BY <1>1 DEF OnlyExport, importVars
  <2> QED
    BY <1>0, <2>1, <2>2, <2>3, <2>4, <2>5 DEF Types
<1>4. RoomInv'
  <2>1. /\ \A q \in Requests \ {e} : reserved'[q] = reserved[q]
        /\ reserved'[e] <= reserved[e] \/ Reserved + reserved'[e] - reserved[e] <= Capacity
    BY <1>0, RoomIsANumber DEF Types, TakeSnapshotSlot, Reserve, ExportInv
  <2> QED
    BY <1>0, <1>3, <2>1, RoomMoves
<1> QED
  BY <1>1, <1>3, <1>2, <1>4, ExportKeeps

\* The response is written, or what was taken for it is given back.
LEMMA ProduceStep ==
  ASSUME ArchiveInv, NEW e \in Exports, Produce(e)
  PROVE  ArchiveInv'
<1>0. /\ Types /\ ExportInv(e) /\ LiveInv /\ e \in Requests /\ e \notin Imports
      /\ e # NoOne /\ e # Writer /\ NoOne # Writer
      /\ pc[e] \in ExportSteps /\ reserved[e] \in 0..3 /\ MaxGenerations \in Nat
      /\ tree[e] \in
            [plans : SUBSET (1..MaxGenerations), metadata : 0..MaxGenerations, rebased : BOOLEAN]
      /\ gate \in Exports \cup {NoOne, Writer}
      /\ metadata \in 1..MaxGenerations /\ plans \subseteq 1..MaxGenerations
      /\ writing = "no" => plans = {metadata}
      /\ writing # "no" <=> gate = Writer
  <2>1. /\ Types /\ ExportInv(e) /\ LiveInv /\ e \in Requests /\ e \notin Imports
        /\ e # NoOne /\ e # Writer /\ NoOne # Writer /\ MaxGenerations \in Nat
    BY ImportsAndExports DEF ArchiveInv
  <2>2. /\ metadata \in 1..MaxGenerations /\ plans \subseteq 1..MaxGenerations
        /\ writing = "no" => plans = {metadata}
        /\ writing # "no" <=> gate = Writer
    BY <2>1 DEF LiveInv
  <2> QED
    BY <2>1, <2>2 DEF Types
<1>1. OnlyExport(e)
  BY <1>0 DEF OnlyExport, Types, Produce, Goto, Ends, ExportUnchanged, importVars, ExportInv,
     Gated
<1>2. ExportInv(e)'
  BY <1>0 DEF ExportInv, Types, Produce, Goto, Ends, ExportUnchanged, Gated, Linked, Decided,
     TreeIsComplete, Nowhere
<1>3. Types'
  <2>1. /\ pc' \in [Requests -> ImportSteps \cup ExportSteps]
        /\ \A i \in Imports : pc'[i] \in ImportSteps
        /\ \A d \in Exports : pc'[d] \in ExportSteps
    BY <1>0, ImportsAndExports DEF Types, Produce, Goto, ExportSteps, Gated, Linked, Decided
  <2>2. /\ outcome' \in [Requests -> Outcomes]
        /\ file' \subseteq Exports /\ snapshotSlots' \subseteq Exports
        /\ gate' \in Exports \cup {NoOne, Writer}
    BY <1>0 DEF Types, Produce, Ends, Outcomes
  <2>3. reserved' \in [Requests -> 0..3]
    BY <1>0 DEF Types, ExportInv, Produce
  <2>4. tree' \in
           [Exports -> [plans : SUBSET (1..MaxGenerations), metadata : 0..MaxGenerations, rebased : BOOLEAN]]
    BY <1>0 DEF Types, Produce
  <2>5. UNCHANGED <<received, temporary, staging, installed, harm, importSlots>>
    BY <1>1 DEF OnlyExport, importVars
  <2> QED
    BY <1>0, <2>1, <2>2, <2>3, <2>4, <2>5 DEF Types
<1>4. RoomInv'
  <2>1. /\ \A q \in Requests \ {e} : reserved'[q] = reserved[q]
        /\ reserved'[e] <= reserved[e] \/ Reserved + reserved'[e] - reserved[e] <= Capacity
    BY <1>0, RoomIsANumber DEF Types, Produce, ExportInv
  <2> QED
    BY <1>0, <1>3, <2>1, RoomMoves
<1> QED
  BY <1>1, <1>3, <1>2, <1>4, ExportKeeps

\* The tree is removed.
LEMMA RemoveTreeStep ==
  ASSUME ArchiveInv, NEW e \in Exports, RemoveTree(e)
  PROVE  ArchiveInv'
<1>0. /\ Types /\ ExportInv(e) /\ LiveInv /\ e \in Requests /\ e \notin Imports
      /\ e # NoOne /\ e # Writer /\ NoOne # Writer
      /\ pc[e] \in ExportSteps /\ reserved[e] \in 0..3 /\ MaxGenerations \in Nat
      /\ tree[e] \in
            [plans : SUBSET (1..MaxGenerations), metadata : 0..MaxGenerations, rebased : BOOLEAN]
      /\ gate \in Exports \cup {NoOne, Writer}
      /\ metadata \in 1..MaxGenerations /\ plans \subseteq 1..MaxGenerations
      /\ writing = "no" => plans = {metadata}
      /\ writing # "no" <=> gate = Writer
  <2>1. /\ Types /\ ExportInv(e) /\ LiveInv /\ e \in Requests /\ e \notin Imports
        /\ e # NoOne /\ e # Writer /\ NoOne # Writer /\ MaxGenerations \in Nat
    BY ImportsAndExports DEF ArchiveInv
  <2>2. /\ metadata \in 1..MaxGenerations /\ plans \subseteq 1..MaxGenerations
        /\ writing = "no" => plans = {metadata}
        /\ writing # "no" <=> gate = Writer
    BY <2>1 DEF LiveInv
  <2> QED
    BY <2>1, <2>2 DEF Types
<1>1. OnlyExport(e)
  BY <1>0 DEF OnlyExport, Types, RemoveTree, Goto, ExportUnchanged, importVars, ExportInv, Gated
<1>2. ExportInv(e)'
  BY <1>0 DEF ExportInv, Types, RemoveTree, Goto, ExportUnchanged, Gated, Linked, Decided,
     TreeIsComplete, Nowhere
<1>3. Types'
  <2>1. /\ pc' \in [Requests -> ImportSteps \cup ExportSteps]
        /\ \A i \in Imports : pc'[i] \in ImportSteps
        /\ \A d \in Exports : pc'[d] \in ExportSteps
    BY <1>0, ImportsAndExports DEF Types, RemoveTree, Goto, ExportSteps, Gated, Linked, Decided
  <2>2. /\ outcome' \in [Requests -> Outcomes]
        /\ file' \subseteq Exports /\ snapshotSlots' \subseteq Exports
        /\ gate' \in Exports \cup {NoOne, Writer}
    BY <1>0 DEF Types, RemoveTree, Outcomes
  <2>3. reserved' \in [Requests -> 0..3]
    BY <1>0 DEF Types, ExportInv, RemoveTree
  <2>4. tree' \in
           [Exports -> [plans : SUBSET (1..MaxGenerations), metadata : 0..MaxGenerations, rebased : BOOLEAN]]
    BY <1>0 DEF Types, RemoveTree, Nowhere
  <2>5. UNCHANGED <<received, temporary, staging, installed, harm, importSlots>>
    BY <1>1 DEF OnlyExport, importVars
  <2> QED
    BY <1>0, <2>1, <2>2, <2>3, <2>4, <2>5 DEF Types
<1>4. RoomInv'
  BY RoomStays DEF RemoveTree
<1> QED
  BY <1>1, <1>3, <1>2, <1>4, ExportKeeps

\* The reservation for the tree is returned; the response keeps its own.
LEMMA ReleaseTreeStep ==
  ASSUME ArchiveInv, NEW e \in Exports, ReleaseTree(e)
  PROVE  ArchiveInv'
<1>0. /\ Types /\ ExportInv(e) /\ LiveInv /\ e \in Requests /\ e \notin Imports
      /\ e # NoOne /\ e # Writer /\ NoOne # Writer
      /\ pc[e] \in ExportSteps /\ reserved[e] \in 0..3 /\ MaxGenerations \in Nat
      /\ tree[e] \in
            [plans : SUBSET (1..MaxGenerations), metadata : 0..MaxGenerations, rebased : BOOLEAN]
      /\ gate \in Exports \cup {NoOne, Writer}
      /\ metadata \in 1..MaxGenerations /\ plans \subseteq 1..MaxGenerations
      /\ writing = "no" => plans = {metadata}
      /\ writing # "no" <=> gate = Writer
  <2>1. /\ Types /\ ExportInv(e) /\ LiveInv /\ e \in Requests /\ e \notin Imports
        /\ e # NoOne /\ e # Writer /\ NoOne # Writer /\ MaxGenerations \in Nat
    BY ImportsAndExports DEF ArchiveInv
  <2>2. /\ metadata \in 1..MaxGenerations /\ plans \subseteq 1..MaxGenerations
        /\ writing = "no" => plans = {metadata}
        /\ writing # "no" <=> gate = Writer
    BY <2>1 DEF LiveInv
  <2> QED
    BY <2>1, <2>2 DEF Types
<1>1. OnlyExport(e)
  BY <1>0 DEF OnlyExport, Types, ReleaseTree, Goto, ExportUnchanged, exportVars, importVars,
     ExportInv, Gated
<1>2. ExportInv(e)'
  BY <1>0 DEF ExportInv, Types, ReleaseTree, Goto, ExportUnchanged, exportVars, Gated, Linked,
     Decided, TreeIsComplete, Nowhere
<1>3. Types'
  <2>1. /\ pc' \in [Requests -> ImportSteps \cup ExportSteps]
        /\ \A i \in Imports : pc'[i] \in ImportSteps
        /\ \A d \in Exports : pc'[d] \in ExportSteps
    BY <1>0, ImportsAndExports DEF Types, ReleaseTree, Goto, ExportSteps, Gated, Linked, Decided
  <2>2. /\ outcome' \in [Requests -> Outcomes]
        /\ file' \subseteq Exports /\ snapshotSlots' \subseteq Exports
        /\ gate' \in Exports \cup {NoOne, Writer}
    BY <1>0 DEF Types, ReleaseTree, Outcomes, exportVars
  <2>3. reserved' \in [Requests -> 0..3]
    BY <1>0 DEF Types, ExportInv, ReleaseTree
  <2>4. tree' \in
           [Exports -> [plans : SUBSET (1..MaxGenerations), metadata : 0..MaxGenerations, rebased : BOOLEAN]]
    BY <1>0 DEF Types, ReleaseTree, exportVars
  <2>5. UNCHANGED <<received, temporary, staging, installed, harm, importSlots>>
    BY <1>1 DEF OnlyExport, importVars
  <2> QED
    BY <1>0, <2>1, <2>2, <2>3, <2>4, <2>5 DEF Types
<1>4. RoomInv'
  <2>1. /\ \A q \in Requests \ {e} : reserved'[q] = reserved[q]
        /\ reserved'[e] <= reserved[e] \/ Reserved + reserved'[e] - reserved[e] <= Capacity
    BY <1>0, RoomIsANumber DEF Types, ReleaseTree, ExportInv
  <2> QED
    BY <1>0, <1>3, <2>1, RoomMoves
<1> QED
  BY <1>1, <1>3, <1>2, <1>4, ExportKeeps

\* The response has been sent, and gives back the rest.
LEMMA SentStep ==
  ASSUME ArchiveInv, NEW e \in Exports, Sent(e)
  PROVE  ArchiveInv'
<1>0. /\ Types /\ ExportInv(e) /\ LiveInv /\ e \in Requests /\ e \notin Imports
      /\ e # NoOne /\ e # Writer /\ NoOne # Writer
      /\ pc[e] \in ExportSteps /\ reserved[e] \in 0..3 /\ MaxGenerations \in Nat
      /\ tree[e] \in
            [plans : SUBSET (1..MaxGenerations), metadata : 0..MaxGenerations, rebased : BOOLEAN]
      /\ gate \in Exports \cup {NoOne, Writer}
      /\ metadata \in 1..MaxGenerations /\ plans \subseteq 1..MaxGenerations
      /\ writing = "no" => plans = {metadata}
      /\ writing # "no" <=> gate = Writer
  <2>1. /\ Types /\ ExportInv(e) /\ LiveInv /\ e \in Requests /\ e \notin Imports
        /\ e # NoOne /\ e # Writer /\ NoOne # Writer /\ MaxGenerations \in Nat
    BY ImportsAndExports DEF ArchiveInv
  <2>2. /\ metadata \in 1..MaxGenerations /\ plans \subseteq 1..MaxGenerations
        /\ writing = "no" => plans = {metadata}
        /\ writing # "no" <=> gate = Writer
    BY <2>1 DEF LiveInv
  <2> QED
    BY <2>1, <2>2 DEF Types
<1>1. OnlyExport(e)
  BY <1>0 DEF OnlyExport, Types, Sent, Goto, Release, ExportUnchanged, importVars, ExportInv,
     Gated
<1>2. ExportInv(e)'
  BY <1>0 DEF ExportInv, Types, Sent, Goto, Release, ExportUnchanged, Gated, Linked, Decided,
     TreeIsComplete, Nowhere
<1>3. Types'
  <2>1. /\ pc' \in [Requests -> ImportSteps \cup ExportSteps]
        /\ \A i \in Imports : pc'[i] \in ImportSteps
        /\ \A d \in Exports : pc'[d] \in ExportSteps
    BY <1>0, ImportsAndExports DEF Types, Sent, Goto, ExportSteps, Gated, Linked, Decided
  <2>2. /\ outcome' \in [Requests -> Outcomes]
        /\ file' \subseteq Exports /\ snapshotSlots' \subseteq Exports
        /\ gate' \in Exports \cup {NoOne, Writer}
    BY <1>0 DEF Types, Sent, Outcomes
  <2>3. reserved' \in [Requests -> 0..3]
    BY <1>0 DEF Types, ExportInv, Sent, Release
  <2>4. tree' \in
           [Exports -> [plans : SUBSET (1..MaxGenerations), metadata : 0..MaxGenerations, rebased : BOOLEAN]]
    BY <1>0 DEF Types, Sent
  <2>5. UNCHANGED <<received, temporary, staging, installed, harm, importSlots>>
    BY <1>1 DEF OnlyExport, importVars
  <2> QED
    BY <1>0, <2>1, <2>2, <2>3, <2>4, <2>5 DEF Types
<1>4. RoomInv'
  <2>1. /\ \A q \in Requests \ {e} : reserved'[q] = reserved[q]
        /\ reserved'[e] <= reserved[e] \/ Reserved + reserved'[e] - reserved[e] <= Capacity
    BY <1>0, RoomIsANumber DEF Types, Sent, Release, ExportInv
  <2> QED
    BY <1>0, <1>3, <2>1, RoomMoves
<1> QED
  BY <1>1, <1>3, <1>2, <1>4, ExportKeeps

\* A cancelled export leaves the gate, but may keep what it had.
LEMMA CancelExportStep ==
  ASSUME ArchiveInv, NEW e \in Exports, CancelExport(e)
  PROVE  ArchiveInv'
<1>0. /\ Types /\ ExportInv(e) /\ LiveInv /\ e \in Requests /\ e \notin Imports
      /\ e # NoOne /\ e # Writer /\ NoOne # Writer
      /\ pc[e] \in ExportSteps /\ reserved[e] \in 0..3 /\ MaxGenerations \in Nat
      /\ tree[e] \in
            [plans : SUBSET (1..MaxGenerations), metadata : 0..MaxGenerations, rebased : BOOLEAN]
      /\ gate \in Exports \cup {NoOne, Writer}
      /\ metadata \in 1..MaxGenerations /\ plans \subseteq 1..MaxGenerations
      /\ writing = "no" => plans = {metadata}
      /\ writing # "no" <=> gate = Writer
  <2>1. /\ Types /\ ExportInv(e) /\ LiveInv /\ e \in Requests /\ e \notin Imports
        /\ e # NoOne /\ e # Writer /\ NoOne # Writer /\ MaxGenerations \in Nat
    BY ImportsAndExports DEF ArchiveInv
  <2>2. /\ metadata \in 1..MaxGenerations /\ plans \subseteq 1..MaxGenerations
        /\ writing = "no" => plans = {metadata}
        /\ writing # "no" <=> gate = Writer
    BY <2>1 DEF LiveInv
  <2> QED
    BY <2>1, <2>2 DEF Types
<1>1. OnlyExport(e)
  BY <1>0 DEF OnlyExport, Types, CancelExport, Goto, Ends, ExportUnchanged, exportVars,
     importVars, ExportInv, Gated
<1>2. ExportInv(e)'
  BY <1>0 DEF ExportInv, Types, CancelExport, Goto, Ends, ExportUnchanged, exportVars, Gated,
     Linked, Decided, TreeIsComplete, Nowhere
<1>3. Types'
  <2>1. /\ pc' \in [Requests -> ImportSteps \cup ExportSteps]
        /\ \A i \in Imports : pc'[i] \in ImportSteps
        /\ \A d \in Exports : pc'[d] \in ExportSteps
    BY <1>0, ImportsAndExports DEF Types, CancelExport, Goto, ExportSteps, Gated, Linked,
       Decided
  <2>2. /\ outcome' \in [Requests -> Outcomes]
        /\ file' \subseteq Exports /\ snapshotSlots' \subseteq Exports
        /\ gate' \in Exports \cup {NoOne, Writer}
    BY <1>0 DEF Types, CancelExport, Ends, Outcomes, exportVars
  <2>3. reserved' \in [Requests -> 0..3]
    BY <1>0 DEF Types, ExportInv, CancelExport
  <2>4. tree' \in
           [Exports -> [plans : SUBSET (1..MaxGenerations), metadata : 0..MaxGenerations, rebased : BOOLEAN]]
    BY <1>0 DEF Types, CancelExport, exportVars
  <2>5. UNCHANGED <<received, temporary, staging, installed, harm, importSlots>>
    BY <1>1 DEF OnlyExport, importVars
  <2> QED
    BY <1>0, <2>1, <2>2, <2>3, <2>4, <2>5 DEF Types
<1>4. RoomInv'
  BY RoomStays DEF CancelExport
<1> QED
  BY <1>1, <1>3, <1>2, <1>4, ExportKeeps

-----------------------------------------------------------------------------
(* The Workspace that is exported, a restart, and the theorems.            *)

\* While nobody but a mutation is in the gate, what it writes is in no tree
\* that is being linked.
LEMMA WriterKeeps ==
  ASSUME ArchiveInv, LiveUnchanged, LiveInv',
         gate \in {NoOne, Writer}, gate' \in {NoOne, Writer}
  PROVE  ArchiveInv'
<1>1. Types'
  BY DEF ArchiveInv, Types, LiveUnchanged, importVars, exportVars
<1>2. ASSUME NEW i \in Imports
      PROVE  ImportInv(i)'
  BY DEF ArchiveInv, ImportInv, LiveUnchanged, importVars
<1>3. ASSUME NEW e \in Exports
      PROVE  ExportInv(e)'
  <2>1. ExportInv(e) /\ e # NoOne /\ e # Writer
    BY ImportsAndExports DEF ArchiveInv
  <2>2. pc[e] # "link"
    BY <2>1 DEF ExportInv, Gated
  <2> QED
    BY <2>1, <2>2 DEF ExportInv, LiveUnchanged, exportVars, TreeIsComplete
<1>4. RoomInv'
  BY RoomStays DEF LiveUnchanged
<1> QED
  BY <1>1, <1>2, <1>3, <1>4 DEF ArchiveInv

\* A mutation adds a plan beside the committed one.
LEMMA WritePlanStep ==
  ASSUME ArchiveInv, WritePlan
  PROVE  ArchiveInv'
<1>1. /\ LiveInv /\ NoOne # Writer /\ MaxGenerations \in Nat
  BY ImportsAndExports DEF ArchiveInv
<1>2. /\ writing = "no" /\ plans = {metadata} /\ Len(sources) = metadata
      /\ metadata \in 1..MaxGenerations /\ sources \in Seq({"live"})
  BY <1>1 DEF WritePlan, LiveInv
<1>3. /\ Len(sources') = Len(sources) + 1 /\ sources' \in Seq({"live"})
  BY <1>2 DEF WritePlan
<1>4. LiveInv'
  BY <1>1, <1>2, <1>3 DEF WritePlan, LiveInv
<1> QED
  BY <1>4, WriterKeeps DEF WritePlan

\* The metadata names the new plan, while the old one is still there.
LEMMA WriteMetadataStep ==
  ASSUME ArchiveInv, WriteMetadata
  PROVE  ArchiveInv'
<1>1. /\ LiveInv /\ MaxGenerations \in Nat
  BY ImportsAndExports DEF ArchiveInv
<1>2. /\ writing = "plan" /\ plans = {metadata, metadata + 1} /\ gate = Writer
      /\ Len(sources) = metadata + 1 /\ Len(sources) <= MaxGenerations
      /\ metadata \in 1..MaxGenerations /\ sources \in Seq({"live"})
  BY <1>1 DEF WriteMetadata, LiveInv
<1>3. LiveInv'
  BY <1>1, <1>2 DEF WriteMetadata, LiveInv
<1> QED
  BY <1>2, <1>3, WriterKeeps DEF WriteMetadata

\* The old plan goes when nobody links.
LEMMA RemoveOldPlanStep ==
  ASSUME ArchiveInv, RemoveOldPlan
  PROVE  ArchiveInv'
<1>1. LiveInv /\ NoOne # Writer
  BY ImportsAndExports DEF ArchiveInv
<1>2. writing = "metadata" /\ gate = Writer
  BY <1>1 DEF RemoveOldPlan, LiveInv
<1>3. LiveInv'
  BY <1>1, <1>2 DEF RemoveOldPlan, LiveInv
<1> QED
  BY <1>2, <1>3, WriterKeeps DEF RemoveOldPlan

\* Closing the Workspace changes nothing on disk.
LEMMA CloseWorkspaceStep ==
  ASSUME ArchiveInv, CloseWorkspace
  PROVE  ArchiveInv'
<1>1. LiveInv'
  BY DEF ArchiveInv, LiveInv, CloseWorkspace
<1>2. RoomInv'
  BY RoomStays DEF CloseWorkspace
<1> QED
  BY <1>1, <1>2 DEF ArchiveInv, Types, ImportInv, ExportInv, TreeIsComplete, CloseWorkspace,
     importVars, exportVars

\* A restart finds the uploads, the staging directories, the trees and the
\* responses gone, and an import installed as far as it had come.
LEMMA CrashStep ==
  ASSUME ArchiveInv, Crash
  PROVE  ArchiveInv'
<1>1. Types /\ LiveInv /\ NoOne # Writer /\ MaxGenerations \in Nat /\ Capacity \in Nat
  BY ImportsAndExports DEF ArchiveInv
<1>2. Types'
  <2>1. /\ pc' \in [Requests -> ImportSteps \cup ExportSteps]
        /\ \A i \in Imports : pc'[i] \in ImportSteps
        /\ \A e \in Exports : pc'[e] \in ExportSteps
    BY ImportsAndExports DEF Crash, ImportSteps, ExportSteps
  <2>2. outcome' \in [Requests -> Outcomes]
    BY <1>1 DEF Crash, Types, Outcomes
  <2>3. tree' \in [Exports -> [plans : SUBSET (1..MaxGenerations),
                              metadata : 0..MaxGenerations, rebased : BOOLEAN]]
    BY <1>1 DEF Crash, Nowhere
  <2>4. /\ received' \in [Imports -> 0..(MaxArchive + 1)]
        /\ temporary' \subseteq Imports /\ file' \subseteq Exports
        /\ staging' \in [Imports -> {"none", "partial", "compiled", "owned"}]
        /\ installed' \in [Imports -> {"none", "moved", "rebased", "sound"}]
        /\ harm' \in [Imports -> {"none", "unread", "torn"}]
        /\ importSlots' \subseteq Imports /\ snapshotSlots' \subseteq Exports
        /\ reserved' \in [Requests -> 0..3]
        /\ gate' \in Exports \cup {NoOne, Writer}
    BY <1>1 DEF Crash, Types
  <2> QED
    BY <2>1, <2>2, <2>3, <2>4 DEF Types
<1>3. ASSUME NEW i \in Imports
      PROVE  ImportInv(i)'
  <2>1. /\ pc'[i] = "done" /\ i \notin temporary' /\ i \notin importSlots'
        /\ reserved'[i] = 0 /\ staging'[i] = "none" /\ installed'[i] = installed[i]
        /\ outcome'[i] = IF pc[i] = "done" THEN outcome[i] ELSE "lost"
        /\ harm'[i] = IF pc[i] = "rebase" THEN "torn" ELSE harm[i]
    BY ImportsAndExports DEF Crash
  <2>2. outcome'[i] # "lost" => pc[i] = "done" /\ outcome'[i] = outcome[i]
    BY <2>1
  <2>3. ImportInv(i) /\ pc[i] \in ImportSteps
    BY <1>1 DEF ArchiveInv, Types
  <2> QED
    BY <2>1, <2>2, <2>3 DEF ImportInv, ImportSteps, Uploaded, Staged
<1>4. ASSUME NEW e \in Exports
      PROVE  ExportInv(e)'
  <2>1. /\ pc'[e] = "done" /\ e \notin file' /\ e \notin snapshotSlots'
        /\ reserved'[e] = 0 /\ tree'[e] = Nowhere /\ gate' = NoOne /\ e # NoOne
    BY ImportsAndExports DEF Crash
  <2> QED
    BY <2>1 DEF ExportInv, Gated, Linked, Decided
<1>5. LiveInv'
  BY <1>1 DEF LiveInv, Crash
<1>6. RoomInv'
  <2>1. \A r \in Requests : reserved'[r] = 0
    BY DEF Crash
  <2>2. IsFiniteSet(Units(reserved', Requests)) /\ Sum(reserved', Requests) = 0
    BY <2>1, SumOfNothing
  <2> QED
    BY <1>1, <2>2 DEF RoomInv, Reserved
<1> QED
  BY <1>2, <1>3, <1>4, <1>5, <1>6 DEF ArchiveInv

\* At first no request has anything.
LEMMA InitArchiveInv ==
  ASSUME Init
  PROVE  ArchiveInv
<1>1. MaxGenerations \in Nat /\ 1 <= MaxGenerations /\ Capacity \in Nat /\ NoOne # Writer
      /\ MaxArchive \in Nat
  BY ImportsAndExports
<1>2. Types
  <2>1. /\ pc \in [Requests -> ImportSteps \cup ExportSteps]
        /\ \A i \in Imports : pc[i] \in ImportSteps
        /\ \A e \in Exports : pc[e] \in ExportSteps
    BY ImportsAndExports DEF Init, ImportSteps, ExportSteps
  <2>2. tree \in [Exports -> [plans : SUBSET (1..MaxGenerations),
                             metadata : 0..MaxGenerations, rebased : BOOLEAN]]
    BY <1>1 DEF Init, Nowhere
  <2>3. /\ outcome \in [Requests -> Outcomes]
        /\ received \in [Imports -> 0..(MaxArchive + 1)]
        /\ temporary \subseteq Imports /\ file \subseteq Exports
        /\ staging \in [Imports -> {"none", "partial", "compiled", "owned"}]
        /\ installed \in [Imports -> {"none", "moved", "rebased", "sound"}]
        /\ harm \in [Imports -> {"none", "unread", "torn"}]
        /\ importSlots \subseteq Imports /\ snapshotSlots \subseteq Exports
        /\ reserved \in [Requests -> 0..3]
        /\ gate \in Exports \cup {NoOne, Writer}
    BY <1>1 DEF Init, Outcomes
  <2> QED
    BY <2>1, <2>2, <2>3 DEF Types
<1>3. ASSUME NEW i \in Imports
      PROVE  ImportInv(i)
  <2>1. /\ pc[i] = "idle" /\ i \notin temporary /\ i \notin importSlots /\ reserved[i] = 0
        /\ staging[i] = "none" /\ installed[i] = "none" /\ received[i] = 0
        /\ harm[i] = "none"
    BY ImportsAndExports DEF Init
  <2> QED
    BY <2>1 DEF ImportInv, Uploaded, Staged
<1>4. ASSUME NEW e \in Exports
      PROVE  ExportInv(e)
  <2>1. /\ pc[e] = "idle" /\ e \notin file /\ e \notin snapshotSlots /\ reserved[e] = 0
        /\ tree[e] = Nowhere /\ gate = NoOne /\ e # NoOne /\ outcome[e] = "none"
    BY ImportsAndExports DEF Init
  <2> QED
    BY <2>1 DEF ExportInv, Gated, Linked, Decided
<1>5. LiveInv
  BY <1>1 DEF Init, LiveInv
<1>6. RoomInv
  <2>1. \A r \in Requests : reserved[r] = 0
    BY DEF Init
  <2>2. IsFiniteSet(Units(reserved, Requests)) /\ Sum(reserved, Requests) = 0
    BY <2>1, SumOfNothing
  <2> QED
    BY <1>1, <2>2 DEF RoomInv, Reserved
<1> QED
  BY <1>2, <1>3, <1>4, <1>5, <1>6 DEF ArchiveInv

\* Every step keeps the invariant.
LEMMA NextArchiveInv ==
  ASSUME ArchiveInv, [Next]_vars
  PROVE  ArchiveInv'
<1>1. ASSUME NEW i \in Imports, ImportStep(i) \/ CancelImport(i)
      PROVE  ArchiveInv'
  BY <1>1, TakeImportSlotStep, ReserveImportStep, UploadStep, ExtractStep, CompileStep,
     PrepareStep, RecheckStep, PublishStep, RebaseInstalledStep, CancelImportStep,
     CleanImportStep DEF ImportStep
<1>2. ASSUME NEW e \in Exports, ExportStep(e) \/ CancelExport(e)
      PROVE  ArchiveInv'
  BY <1>2, ReserveTreeStep, EnterGateStep, LinkStep, LeaveGateStep, RebaseStep,
     TakeSnapshotSlotStep, ProduceStep, RemoveTreeStep, ReleaseTreeStep, SentStep,
     CancelExportStep DEF ExportStep
<1>3. CASE WritePlan \/ WriteMetadata \/ RemoveOldPlan \/ CloseWorkspace \/ Crash
  BY <1>3, WritePlanStep, WriteMetadataStep, RemoveOldPlanStep, CloseWorkspaceStep, CrashStep
<1>4. CASE UNCHANGED vars
  <2>1. RoomInv'
    BY <1>4, RoomStays DEF vars
  <2> QED
    BY <1>4, <2>1 DEF ArchiveInv, Types, ImportInv, ExportInv, LiveInv, TreeIsComplete, vars,
       importVars, exportVars, liveVars
<1> QED
  BY <1>1, <1>2, <1>3, <1>4 DEF Next

\* What the invariant says of requests that have been answered and of trees.
LEMMA ArchiveInvMeans ==
  ASSUME ArchiveInv
  PROVE  NothingIsLeft /\ ExportIsOneGeneration
<1>1. Types /\ LiveInv /\ RoomInv /\ MaxGenerations \in Nat
  BY ImportsAndExports DEF ArchiveInv
<1>2. plans \subseteq 1..MaxGenerations /\ metadata \in plans
  BY <1>1 DEF LiveInv
<1>3. TypeOK
  BY <1>1, <1>2 DEF TypeOK, Types, RoomInv, LiveInv, ImportSteps, ExportSteps, Uploaded, Staged,
     Gated, Linked, Decided, Outcomes
<1>4. ASSUME NEW r \in Imports, pc[r] = "done"
      PROVE  /\ r \notin temporary \cup importSlots
             /\ reserved[r] = 0 /\ staging[r] = "none"
             /\ installed[r] \in {"none", "sound"} \/ harm[r] = "torn"
             /\ outcome[r] = "ok" => installed[r] = "sound"
             /\ outcome[r] \in {"refused", "failed"} => installed[r] # "sound"
             /\ harm[r] = "torn" => outcome[r] \in {"failed", "lost"}
  BY <1>4 DEF ArchiveInv, ImportInv, Uploaded, Staged
<1>5. ASSUME NEW r \in Exports, pc[r] = "done", outcome[r] # "cancelled"
      PROVE  r \notin file \cup snapshotSlots /\ reserved[r] = 0 /\ tree[r] = Nowhere
  BY <1>5 DEF ArchiveInv, ExportInv, Decided
<1>6. \A g \in plans : sources[g] = "live"
  BY <1>1, <1>2 DEF LiveInv
<1>7. \A e \in Exports : pc[e] \in {"leave", "rebase", "slot", "produce"} => TreeIsComplete(e)
  BY DEF ArchiveInv, ExportInv, Linked
<1> QED
  BY <1>2, <1>3, <1>4, <1>5, <1>6, <1>7 DEF NothingIsLeft, ExportIsOneGeneration

\* Who holds what, step by step, and what the live directory and the trees have.
THEOREM ArchivesInvariance == Spec => []ArchiveInv
<1>1. Init => ArchiveInv
  BY InitArchiveInv
<1>2. ArchiveInv /\ [Next]_vars => ArchiveInv'
  BY NextArchiveInv
<1> QED
  BY <1>1, <1>2, PTL DEF Spec

\* Whatever fails, is cancelled or crashes, and in whatever order requests and
\* mutations interleave: a request that has been answered holds nothing, unless
\* it is a cancelled export, and an import has installed a whole Workspace or
\* none, unless it is torn, by a crash before the end of its rebasing or by a
\* move that could not be made durable.
THEOREM NothingIsEverLeft == Spec => []NothingIsLeft
<1>1. ArchiveInv => NothingIsLeft
  BY ArchiveInvMeans
<1> QED
  BY <1>1, ArchivesInvariance, PTL

\* The links of every export are one committed generation, and the live Workspace
\* keeps its own plan and sources.
THEOREM ExportsAreOneGeneration == Spec => []ExportIsOneGeneration
<1>1. ArchiveInv => ExportIsOneGeneration
  BY ArchiveInvMeans
<1> QED
  BY <1>1, ArchivesInvariance, PTL

-----------------------------------------------------------------------------
(* What the compiler of archives says is what is done.                     *)

\* An import that has been refused or installed has been judged, unless the
\* disk failed while it was.
Judged(i) ==
  /\ pc[i] \in {"idle", "reserve", "upload", "extract"} \cup Staged => outcome[i] = "none"
  /\ pc[i] \in {"prepare", "recheck", "publish"} => archive[i] \in Compilable
  /\ installed[i] # "none" => archive[i] \in Compilable
  /\ outcome[i] = "refused" /\ received[i] \in 1..MaxArchive =>
       archive[i] \notin Compilable \/ harm[i] = "unread"

\* An export works from a generation that has been committed, and has written
\* what a reader of its content can read.
Written(e) ==
  /\ tree[e].metadata <= metadata
  /\ product[e] # Nothing => product[e] \in DOMAIN Contents \ Unreadable

JudgedInv ==
  /\ archive \in [Imports -> DOMAIN Archives \cup {NotSent}]
  /\ product \in [Exports -> DOMAIN Contents \cup {Nothing}]
  /\ content \in Seq(DOMAIN Contents) /\ Len(content) = Len(sources)
  /\ \A i \in Imports : Judged(i)
  /\ \A e \in Exports : Written(e)

\* Only what opens is compiled.
LEMMA CompilableOpens == Compilable \subseteq Openable
BY DEF Compilable, Listed

\* What the step of an import leaves alone.
Apart(i) ==
  /\ \A j \in Imports \ {i} :
       /\ pc'[j] = pc[j] /\ outcome'[j] = outcome[j] /\ archive'[j] = archive[j]
       /\ received'[j] = received[j] /\ installed'[j] = installed[j] /\ harm'[j] = harm[j]
  /\ UNCHANGED <<tree, product, metadata, content, sources>>

\* A step of one import leaves the judgement of the others as it was.
LEMMA ImportIsJudged ==
  ASSUME JudgedInv, NEW i \in Imports, Apart(i), Judged(i)',
         archive' \in [Imports -> DOMAIN Archives \cup {NotSent}]
  PROVE  JudgedInv'
<1>1. ASSUME NEW j \in Imports, j # i
      PROVE  Judged(j)'
  BY <1>1 DEF JudgedInv, Judged, Apart
<1>2. ASSUME NEW e \in Exports
      PROVE  Written(e)'
  BY DEF JudgedInv, Written, Apart
<1> QED
  BY <1>1, <1>2 DEF JudgedInv, Apart

\* Every step of an import keeps to what the compiler says of its archive.
LEMMA ImportsAreJudged ==
  ASSUME ArchiveInv, JudgedInv, NEW i \in Imports, ImportStep(i) \/ CancelImport(i)
  PROVE  JudgedInv'
<1>1. /\ Types /\ ImportInv(i) /\ Judged(i) /\ i \in Requests /\ i \notin Exports
      /\ archive \in [Imports -> DOMAIN Archives \cup {NotSent}] /\ MaxArchive \in Nat
      /\ received[i] \in 0..(MaxArchive + 1)
  BY ImportsAndExports DEF ArchiveInv, JudgedInv, Types
<1>2. \A j \in Imports : j \in Requests
  BY ImportsAndExports
<1>3. CASE TakeImportSlot(i)
  <2>1. Apart(i)
    BY <1>3, <1>1, <1>2 DEF Apart, Types, TakeImportSlot, Goto, ImportUnchanged, exportVars,
       liveVars
  <2>2. Judged(i)'
    BY <1>3, <1>1, CompilableOpens DEF Judged, ImportInv, Types, TakeImportSlot, Goto, Staged
  <2>3. archive' \in [Imports -> DOMAIN Archives \cup {NotSent}]
    BY <1>3, <1>1, ArchivesAssumption DEF TakeImportSlot
  <2> QED
    BY <2>1, <2>2, <2>3, ImportIsJudged
<1>4. CASE ReserveImport(i)
  <2>1. Apart(i)
    BY <1>4, <1>1, <1>2 DEF Apart, Types, ReserveImport, Goto, Ends, ImportUnchanged,
       exportVars, liveVars
  <2>2. Judged(i)'
    BY <1>4, <1>1, CompilableOpens DEF Judged, ImportInv, Types, ReserveImport, Goto, Ends,
       Staged
  <2>3. archive' \in [Imports -> DOMAIN Archives \cup {NotSent}]
    BY <1>4, <1>1, ArchivesAssumption DEF ReserveImport
  <2> QED
    BY <2>1, <2>2, <2>3, ImportIsJudged
<1>5. CASE Upload(i)
  <2>1. Apart(i)
    BY <1>5, <1>1, <1>2 DEF Apart, Types, Upload, Goto, Ends, ImportUnchanged, exportVars,
       liveVars
  <2>2. Judged(i)'
    BY <1>5, <1>1, CompilableOpens DEF Judged, ImportInv, Types, Upload, Goto, Ends, Staged
  <2>3. archive' \in [Imports -> DOMAIN Archives \cup {NotSent}]
    BY <1>5, <1>1, ArchivesAssumption DEF Upload
  <2> QED
    BY <2>1, <2>2, <2>3, ImportIsJudged
<1>6. CASE Extract(i)
  <2>1. Apart(i)
    BY <1>6, <1>1, <1>2 DEF Apart, Types, Extract, Misjudge, Goto, Ends, ImportUnchanged,
       exportVars, liveVars
  <2>2. Judged(i)'
    BY <1>6, <1>1, CompilableOpens DEF Judged, ImportInv, Types, Extract, Misjudge, Goto, Ends,
       Staged
  <2>3. archive' \in [Imports -> DOMAIN Archives \cup {NotSent}]
    BY <1>6, <1>1, ArchivesAssumption DEF Extract
  <2> QED
    BY <2>1, <2>2, <2>3, ImportIsJudged
<1>7. CASE Compile(i)
  <2>1. Apart(i)
    BY <1>7, <1>1, <1>2 DEF Apart, Types, Compile, Misjudge, Goto, Ends, ImportUnchanged,
       exportVars, liveVars
  <2>2. Judged(i)'
    BY <1>7, <1>1, CompilableOpens DEF Judged, ImportInv, Types, Compile, Misjudge, Goto, Ends,
       Staged
  <2>3. archive' \in [Imports -> DOMAIN Archives \cup {NotSent}]
    BY <1>7, <1>1, ArchivesAssumption DEF Compile
  <2> QED
    BY <2>1, <2>2, <2>3, ImportIsJudged
<1>8. CASE Prepare(i)
  <2>1. Apart(i)
    BY <1>8, <1>1, <1>2 DEF Apart, Types, Prepare, Goto, Ends, ImportUnchanged, exportVars,
       liveVars
  <2>2. Judged(i)'
    BY <1>8, <1>1, CompilableOpens DEF Judged, ImportInv, Types, Prepare, Goto, Ends, Staged
  <2>3. archive' \in [Imports -> DOMAIN Archives \cup {NotSent}]
    BY <1>8, <1>1, ArchivesAssumption DEF Prepare
  <2> QED
    BY <2>1, <2>2, <2>3, ImportIsJudged
<1>9. CASE Recheck(i)
  <2>1. Apart(i)
    BY <1>9, <1>1, <1>2 DEF Apart, Types, Recheck, Goto, Ends, ImportUnchanged, exportVars,
       liveVars
  <2>2. Judged(i)'
    BY <1>9, <1>1, CompilableOpens DEF Judged, ImportInv, Types, Recheck, Goto, Ends, Staged
  <2>3. archive' \in [Imports -> DOMAIN Archives \cup {NotSent}]
    BY <1>9, <1>1, ArchivesAssumption DEF Recheck
  <2> QED
    BY <2>1, <2>2, <2>3, ImportIsJudged
<1>10. CASE Publish(i)
  <2>1. Apart(i)
    BY <1>10, <1>1, <1>2 DEF Apart, Types, Publish, Goto, Ends, ImportUnchanged, exportVars,
       liveVars
  <2>2. Judged(i)'
    BY <1>10, <1>1, CompilableOpens DEF Judged, ImportInv, Types, Publish, Goto, Ends, Staged
  <2>3. archive' \in [Imports -> DOMAIN Archives \cup {NotSent}]
    BY <1>10, <1>1, ArchivesAssumption DEF Publish
  <2> QED
    BY <2>1, <2>2, <2>3, ImportIsJudged
<1>11. CASE RebaseInstalled(i)
  <2>1. Apart(i)
    BY <1>11, <1>1, <1>2 DEF Apart, Types, RebaseInstalled, Goto, Ends, ImportUnchanged,
       exportVars, liveVars
  <2>2. Judged(i)'
    BY <1>11, <1>1, CompilableOpens DEF Judged, ImportInv, Types, RebaseInstalled, Goto, Ends,
       Staged
  <2>3. archive' \in [Imports -> DOMAIN Archives \cup {NotSent}]
    BY <1>11, <1>1, ArchivesAssumption DEF RebaseInstalled
  <2> QED
    BY <2>1, <2>2, <2>3, ImportIsJudged
<1>12. CASE CancelImport(i)
  <2>1. Apart(i)
    BY <1>12, <1>1, <1>2 DEF Apart, Types, CancelImport, Goto, Ends, ImportUnchanged,
       exportVars, liveVars
  <2>2. Judged(i)'
    BY <1>12, <1>1, CompilableOpens DEF Judged, ImportInv, Types, CancelImport, Goto, Ends,
       Staged
  <2>3. archive' \in [Imports -> DOMAIN Archives \cup {NotSent}]
    BY <1>12, <1>1, ArchivesAssumption DEF CancelImport
  <2> QED
    BY <2>1, <2>2, <2>3, ImportIsJudged
<1>13. CASE CleanImport(i)
  <2>1. Apart(i)
    BY <1>13, <1>1, <1>2 DEF Apart, Types, CleanImport, Goto, ImportUnchanged, exportVars,
       liveVars
  <2>2. Judged(i)'
    BY <1>13, <1>1, CompilableOpens DEF Judged, ImportInv, Types, CleanImport, Goto, Staged
  <2>3. archive' \in [Imports -> DOMAIN Archives \cup {NotSent}]
    BY <1>13, <1>1, ArchivesAssumption DEF CleanImport
  <2> QED
    BY <2>1, <2>2, <2>3, ImportIsJudged
<1> QED
  BY <1>3, <1>4, <1>5, <1>6, <1>7, <1>8, <1>9, <1>10, <1>11, <1>12, <1>13 DEF ImportStep

\* What the step of an export leaves alone.
Elsewhere(e) ==
  /\ \A d \in Exports \ {e} : tree'[d] = tree[d] /\ product'[d] = product[d]
  /\ \A i \in Imports : pc'[i] = pc[i] /\ outcome'[i] = outcome[i]
  /\ UNCHANGED <<archive, received, installed, harm, metadata, content, sources>>

\* A step of one export leaves what the others have written.
LEMMA ExportIsWritten ==
  ASSUME JudgedInv, NEW e \in Exports, Elsewhere(e), Written(e)',
         product' \in [Exports -> DOMAIN Contents \cup {Nothing}]
  PROVE  JudgedInv'
<1>1. ASSUME NEW i \in Imports
      PROVE  Judged(i)'
  BY DEF JudgedInv, Judged, Elsewhere
<1>2. ASSUME NEW d \in Exports, d # e
      PROVE  Written(d)'
  BY <1>2 DEF JudgedInv, Written, Elsewhere
<1> QED
  BY <1>1, <1>2 DEF JudgedInv, Elsewhere

\* Every step of an export keeps to a committed generation.
LEMMA ExportsAreWritten ==
  ASSUME ArchiveInv, JudgedInv, NEW e \in Exports, ExportStep(e) \/ CancelExport(e)
  PROVE  JudgedInv'
<1>1. /\ Types /\ ExportInv(e) /\ LiveInv /\ Written(e) /\ e \in Requests
      /\ product \in [Exports -> DOMAIN Contents \cup {Nothing}]
      /\ content \in Seq(DOMAIN Contents) /\ Len(content) = Len(sources)
      /\ \A i \in Imports : i \in Requests /\ i # e
  BY ImportsAndExports DEF ArchiveInv, JudgedInv
<1>2. /\ metadata \in Nat /\ 1 <= metadata /\ metadata <= Len(content)
  BY <1>1, ImportsAndExports DEF LiveInv
<1>3. CASE ReserveTree(e)
  <2>1. Elsewhere(e)
    BY <1>3, <1>1 DEF Elsewhere, Types, ReserveTree, Goto, Ends, ExportUnchanged, exportVars,
       importVars
  <2>2. Written(e)' /\ product' \in [Exports -> DOMAIN Contents \cup {Nothing}]
    BY <1>3, <1>1, <1>2 DEF Written, Types, ReserveTree, ExportUnchanged, exportVars
  <2> QED
    BY <2>1, <2>2, ExportIsWritten
<1>4. CASE EnterGate(e)
  <2>1. Elsewhere(e)
    BY <1>4, <1>1 DEF Elsewhere, Types, EnterGate, Goto, Ends, ExportUnchanged, exportVars,
       importVars
  <2>2. Written(e)' /\ product' \in [Exports -> DOMAIN Contents \cup {Nothing}]
    BY <1>4, <1>1, <1>2 DEF Written, Types, EnterGate, ExportUnchanged, exportVars
  <2> QED
    BY <2>1, <2>2, ExportIsWritten
<1>5. CASE Link(e)
  <2>1. Elsewhere(e)
    BY <1>5, <1>1 DEF Elsewhere, Types, Link, Goto, Ends, ExportUnchanged, importVars
  <2>2. Written(e)' /\ product' \in [Exports -> DOMAIN Contents \cup {Nothing}]
    <3>1. UNCHANGED <<product, metadata>>
      BY <1>5 DEF Link, ExportUnchanged
    <3>2. tree'[e].metadata <= metadata
      <4>1. /\ tree \in [Exports -> [plans : SUBSET (1..MaxGenerations),
                                     metadata : 0..MaxGenerations, rebased : BOOLEAN]]
            /\ tree[e].metadata <= metadata
        BY <1>1 DEF Types, Written
      <4>2. \/ tree' = [tree EXCEPT ![e].metadata = metadata]
            \/ tree' = [tree EXCEPT ![e].plans = plans]
            \/ tree' = [tree EXCEPT ![e] = Nowhere]
        BY <1>5 DEF Link
      <4> QED
        BY <1>2, <4>1, <4>2 DEF Nowhere
    <3> QED
      BY <1>1, <3>1, <3>2 DEF Written
  <2> QED
    BY <2>1, <2>2, ExportIsWritten
<1>6. CASE LeaveGate(e)
  <2>1. Elsewhere(e)
    BY <1>6, <1>1 DEF Elsewhere, Types, LeaveGate, Goto, ExportUnchanged, exportVars, importVars
  <2>2. Written(e)' /\ product' \in [Exports -> DOMAIN Contents \cup {Nothing}]
    BY <1>6, <1>1, <1>2 DEF Written, Types, LeaveGate, ExportUnchanged, exportVars
  <2> QED
    BY <2>1, <2>2, ExportIsWritten
<1>7. CASE Rebase(e)
  <2>1. Elsewhere(e)
    BY <1>7, <1>1 DEF Elsewhere, Types, Rebase, Goto, Ends, ExportUnchanged, importVars
  <2>2. Written(e)' /\ product' \in [Exports -> DOMAIN Contents \cup {Nothing}]
    <3>1. UNCHANGED <<product, metadata>>
      BY <1>7 DEF Rebase, ExportUnchanged
    <3>2. tree'[e].metadata <= metadata
      <4>1. /\ tree \in [Exports -> [plans : SUBSET (1..MaxGenerations),
                                     metadata : 0..MaxGenerations, rebased : BOOLEAN]]
            /\ tree[e].metadata <= metadata
        BY <1>1 DEF Types, Written
      <4>2. \/ tree' = [tree EXCEPT ![e].plans = {tree[e].metadata}, ![e].rebased = TRUE]
            \/ tree' = tree
        BY <1>7 DEF Rebase
      <4> QED
        BY <1>2, <4>1, <4>2
    <3> QED
      BY <1>1, <3>1, <3>2 DEF Written
  <2> QED
    BY <2>1, <2>2, ExportIsWritten
<1>8. CASE TakeSnapshotSlot(e)
  <2>1. Elsewhere(e)
    BY <1>8, <1>1 DEF Elsewhere, Types, TakeSnapshotSlot, Goto, Ends, ExportUnchanged,
       importVars
  <2>2. Written(e)' /\ product' \in [Exports -> DOMAIN Contents \cup {Nothing}]
    BY <1>8, <1>1, <1>2 DEF Written, Types, TakeSnapshotSlot, ExportUnchanged
  <2> QED
    BY <2>1, <2>2, ExportIsWritten
<1>9. CASE Produce(e)
  <2>1. Elsewhere(e)
    BY <1>9, <1>1 DEF Elsewhere, Types, Produce, Goto, Ends, ExportUnchanged, importVars
  <2>2. Written(e)' /\ product' \in [Exports -> DOMAIN Contents \cup {Nothing}]
    <3> DEFINE c == content[tree[e].metadata]
    <3>1. tree[e].metadata \in 1..Len(content) /\ UNCHANGED <<tree, metadata>>
      <4>1. tree[e].metadata \in tree[e].plans /\ tree[e].plans \subseteq 1..MaxGenerations
        BY <1>1, <1>9 DEF Produce, ExportInv, Linked, TreeIsComplete, Types
      <4>2. tree[e].metadata \in 1..MaxGenerations /\ MaxGenerations \in Nat
        BY <4>1, ImportsAndExports
      <4> QED
        BY <1>1, <1>2, <1>9, <4>2 DEF Written, Produce, ExportUnchanged
    <3>2. c \in DOMAIN Contents
      BY <1>1, <3>1
    <3>3. \/ product' = product
          \/ c \notin Unreadable /\ product' = [product EXCEPT ![e] = c]
      BY <1>9 DEF Produce
    <3> HIDE DEF c
    <3> QED
      BY <1>1, <3>1, <3>2, <3>3 DEF Written
  <2> QED
    BY <2>1, <2>2, ExportIsWritten
<1>10. CASE RemoveTree(e)
  <2>1. Elsewhere(e)
    BY <1>10, <1>1 DEF Elsewhere, Types, RemoveTree, Goto, ExportUnchanged, importVars
  <2>2. Written(e)' /\ product' \in [Exports -> DOMAIN Contents \cup {Nothing}]
    BY <1>10, <1>1, <1>2 DEF Written, Types, RemoveTree, ExportUnchanged, Nowhere
  <2> QED
    BY <2>1, <2>2, ExportIsWritten
<1>11. CASE ReleaseTree(e)
  <2>1. Elsewhere(e)
    BY <1>11, <1>1 DEF Elsewhere, Types, ReleaseTree, Goto, ExportUnchanged, exportVars,
       importVars
  <2>2. Written(e)' /\ product' \in [Exports -> DOMAIN Contents \cup {Nothing}]
    BY <1>11, <1>1, <1>2 DEF Written, Types, ReleaseTree, ExportUnchanged, exportVars
  <2> QED
    BY <2>1, <2>2, ExportIsWritten
<1>12. CASE Sent(e)
  <2>1. Elsewhere(e)
    BY <1>12, <1>1 DEF Elsewhere, Types, Sent, Goto, ExportUnchanged, importVars
  <2>2. Written(e)' /\ product' \in [Exports -> DOMAIN Contents \cup {Nothing}]
    BY <1>12, <1>1, <1>2 DEF Written, Types, Sent, ExportUnchanged
  <2> QED
    BY <2>1, <2>2, ExportIsWritten
<1>13. CASE CancelExport(e)
  <2>1. Elsewhere(e)
    BY <1>13, <1>1 DEF Elsewhere, Types, CancelExport, Goto, Ends, ExportUnchanged, exportVars,
       importVars
  <2>2. Written(e)' /\ product' \in [Exports -> DOMAIN Contents \cup {Nothing}]
    BY <1>13, <1>1, <1>2 DEF Written, Types, CancelExport, ExportUnchanged, exportVars
  <2> QED
    BY <2>1, <2>2, ExportIsWritten
<1> QED
  BY <1>3, <1>4, <1>5, <1>6, <1>7, <1>8, <1>9, <1>10, <1>11, <1>12, <1>13 DEF ExportStep

\* At first nothing has been judged, installed or written.
LEMMA InitJudgedInv ==
  ASSUME Init
  PROVE  JudgedInv
<1>1. 1 \in DOMAIN Contents
  BY ArchivesAssumption
<1>2. \E c \in DOMAIN Contents : content = <<c>>
  BY <1>1 DEF Init
<1>3. \A e \in Exports : Written(e)
  BY DEF Init, Written, Nowhere
<1>4. \A i \in Imports : Judged(i)
  BY ImportsAndExports DEF Init, Judged
<1> QED
  BY <1>2, <1>3, <1>4 DEF Init, JudgedInv

\* Every step keeps that.
LEMMA NextJudgedInv ==
  ASSUME ArchiveInv, JudgedInv, [Next]_vars
  PROVE  JudgedInv'
<1>1. /\ Types /\ LiveInv /\ MaxGenerations \in Nat
      /\ content \in Seq(DOMAIN Contents) /\ Len(content) = Len(sources)
      /\ \A i \in Imports : Judged(i)
      /\ \A e \in Exports : Written(e)
  BY ImportsAndExports DEF ArchiveInv, JudgedInv
<1>2. metadata \in Nat /\ sources \in Seq({"live"}) /\ \A e \in Exports : tree[e].metadata \in Nat
  BY <1>1 DEF LiveInv, Types
<1>3. CASE WritePlan
  <2>1. /\ content' \in Seq(DOMAIN Contents) /\ Len(content') = Len(content) + 1
        /\ Len(sources') = Len(sources) + 1
    BY <1>1, <1>2, <1>3 DEF WritePlan
  <2> QED
    BY <1>1, <1>3, <2>1 DEF JudgedInv, Judged, Written, WritePlan, LiveUnchanged, importVars,
       exportVars
<1>4. CASE WriteMetadata
  <2>1. \A e \in Exports : Written(e)'
    BY <1>1, <1>2, <1>4 DEF Written, WriteMetadata, LiveUnchanged, exportVars
  <2> QED
    BY <1>4, <2>1 DEF JudgedInv, Judged, WriteMetadata, LiveUnchanged, importVars, exportVars
<1>5. CASE RemoveOldPlan
  BY <1>5 DEF JudgedInv, Judged, Written, RemoveOldPlan, LiveUnchanged, importVars, exportVars
<1>6. CASE CloseWorkspace
  BY <1>6 DEF JudgedInv, Judged, Written, CloseWorkspace, importVars, exportVars
<1>7. CASE Crash
  <2>1. ASSUME NEW i \in Imports
        PROVE  Judged(i)'
    <3>1. /\ pc'[i] = "done" /\ outcome'[i] \in {outcome[i], "lost"}
          /\ UNCHANGED <<archive, installed, received>>
          /\ harm'[i] = harm[i] \/ outcome'[i] = "lost"
      BY <1>7, ImportsAndExports DEF Crash
    <3> QED
      BY <1>1, <3>1 DEF Judged, Staged
  <2>2. ASSUME NEW e \in Exports
        PROVE  Written(e)'
    <3>1. tree'[e].metadata = 0 /\ UNCHANGED <<product, metadata>>
      BY <1>7 DEF Crash, Nowhere
    <3> QED
      BY <1>1, <1>2, <3>1 DEF Written
  <2> QED
    BY <1>7, <2>1, <2>2 DEF JudgedInv, Crash
<1>8. CASE UNCHANGED vars
  BY <1>8 DEF JudgedInv, Judged, Written, vars, importVars, exportVars, liveVars
<1> QED
  BY <1>3, <1>4, <1>5, <1>6, <1>7, <1>8, ImportsAreJudged, ExportsAreWritten DEF Next

\* Only what the compiler accepts is installed, only what it does not accept is
\* refused after a complete upload, unless the disk failed while it was read,
\* and only what can be read is exported.
THEOREM TheCompilerDecides ==
  Spec => []( /\ \A i \in Imports :
                   /\ installed[i] # "none" => archive[i] \in Compilable
                   /\ outcome[i] = "refused" /\ received[i] \in 1..MaxArchive =>
                        archive[i] \notin Compilable \/ harm[i] = "unread"
              /\ \A e \in Exports : product[e] # Nothing => product[e] \notin Unreadable )
<1> DEFINE Decides ==
      /\ \A i \in Imports :
           /\ installed[i] # "none" => archive[i] \in Compilable
           /\ outcome[i] = "refused" /\ received[i] \in 1..MaxArchive =>
                archive[i] \notin Compilable \/ harm[i] = "unread"
      /\ \A e \in Exports : product[e] # Nothing => product[e] \notin Unreadable
<1>1. Init => JudgedInv
  BY InitJudgedInv
<1>2. ArchiveInv /\ JudgedInv /\ [Next]_vars => JudgedInv'
  BY NextJudgedInv
<1>3. JudgedInv => Decides
  BY DEF JudgedInv, Judged, Written
<1> HIDE DEF Decides
<1>4. Spec => []Decides
  BY <1>1, <1>2, <1>3, ArchivesInvariance, PTL DEF Spec
<1> QED
  BY <1>4 DEF Decides

\* What the recursion of the compiler computes, over the data.
CompilerIsRight ==
  /\ Compilable = WellFormed /\ Compilable \subseteq WellOrdered
  /\ DOMAIN Contents \ Unreadable \subseteq Importable

\* If it is right about the archives at hand, every interleaving of requests,
\* failures, cancellations and crashes keeps to it.
THEOREM TheWellFormedAreAccepted ==
  ASSUME CompilerIsRight
  PROVE  Spec => []AcceptsTheWellFormed
<1>1. Init => JudgedInv
  BY InitJudgedInv
<1>2. ArchiveInv /\ JudgedInv /\ [Next]_vars => JudgedInv'
  BY NextJudgedInv
<1>3. JudgedInv => AcceptsTheWellFormed
  BY DEF JudgedInv, Judged, Written, AcceptsTheWellFormed, CompilerIsRight
<1> QED
  BY <1>1, <1>2, <1>3, ArchivesInvariance, PTL DEF Spec

=============================================================================
