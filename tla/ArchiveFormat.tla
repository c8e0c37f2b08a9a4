--------------------------- MODULE ArchiveFormat ---------------------------
(***************************************************************************)
(* What a portable Workspace archive is, how an import checks and compiles *)
(* one, and what an export puts into one (services/workspace_archives.py,  *)
(* models/workspace.py).                                                   *)
(*                                                                         *)
(* An archive is [bytes, container, members, manifest].  A member's path is*)
(* the sequence of its parts; key stands for the path after normalisation  *)
(* and case folding.  The manifest has nodes [id, parents, column], tabs   *)
(* [id, analyses] and analyses [id, parent, tab, state, artifacts, query,  *)
(* needs, inputs]: needs are the nodes its request reads, inputs those     *)
(* whose data the archive has.  Sizes are small numbers.                   *)
(***************************************************************************)
EXTENDS Integers, SequencesExt

CONSTANTS
  MaxMembers,   \* limits of WorkspaceArchiveLimits
  MaxPacked, MaxMember, MaxExpanded, MaxRatio, MaxManifest, MaxEdges,
  MaxNodes, MaxSnapshot,  \* limits of the store, on what it commits
  NoParent      \* parent_analysis_id of a root Analysis

ASSUME FormatAssumption ==
  {MaxMembers, MaxPacked, MaxMember, MaxExpanded, MaxRatio, MaxManifest, MaxEdges,
   MaxNodes, MaxSnapshot} \subseteq Nat \ {0}

Metadata == "workspace.json"
TerminalStates == {"succeeded", "failed", "cancelled"}
IsDuplicateFree(s) == Cardinality(ToSet(s)) = Len(s)
Ids(s) == [k \in 1..Len(s) |-> s[k].id]
Total(s) == FoldLeft(+, 0, s)

-----------------------------------------------------------------------------
(* The members of the ZIP.                                                 *)

MemberIsSafe(m) ==
  /\ m.safe /\ ~m.encrypted /\ m.kind \in {"file", "dir"}
  /\ m.packed <= MaxPacked /\ m.size <= MaxMember
  /\ m.size # 0 => m.packed # 0 /\ m.size <= MaxRatio * m.packed

ValidMembers(ms) ==
  /\ ms # <<>> /\ Len(ms) <= MaxMembers
  /\ IsDuplicateFree([k \in DOMAIN ms |-> ms[k].key])
  /\ \A m \in ToSet(ms) : MemberIsSafe(m)
  /\ Total([k \in DOMAIN ms |-> ms[k].size]) <= MaxExpanded

IsForeign(path) == "__MACOSX" \in ToSet(path)

\* The metadata file nearest to the top says where the Workspace is, unless
\* two are equally near.
Shallowest(ms) ==
  LET candidates == {m \in ToSet(ms) : /\ m.kind = "file" /\ Last(m.path) = Metadata
                                       /\ ~IsForeign(m.path)}
  IN {m \in candidates : \A other \in candidates : Len(m.path) <= Len(other.path)}

HasRoot(ms) == Cardinality(Shallowest(ms)) = 1
RootPrefix(ms) == Front((CHOOSE m \in Shallowest(ms) : TRUE).path)

\* What is written below the staging directory: what is outside the root, and
\* what an operating system adds, is left out.
Extracted(ms) ==
  LET prefix == RootPrefix(ms) IN
  {[m EXCEPT !.path = SubSeq(m.path, Len(prefix) + 1, Len(m.path))] :
     m \in {n \in ToSet(ms) : /\ ~IsForeign(n.path) /\ IsStrictPrefix(prefix, n.path)
                              /\ Last(n.path) # ".DS_Store"}}

\* A file cannot be made where a directory is, nor below a file, and the bytes
\* must be what the directory of the ZIP says.
Extracts(ms) ==
  /\ \A m \in ToSet(ms) : m.path = RootPrefix(ms) \o <<Metadata>> => m.size <= MaxManifest
  /\ \A m, n \in Extracted(ms) : m.kind = "file" => ~IsStrictPrefix(m.path, n.path)
  /\ \A m \in Extracted(ms) : m.kind = "file" => m.sound

Files(ms) == {m.path : m \in {n \in Extracted(ms) : n.kind = "file"}}

-----------------------------------------------------------------------------
(* The manifest.                                                           *)

InputsMatch(a) == a.inputs = (IF a.query THEN a.needs ELSE <<>>)

ValidManifest(m) ==
  LET listed == FlattenSeq([k \in DOMAIN m.tabs |-> m.tabs[k].analyses])
      Named(id) == CHOOSE a \in ToSet(m.analyses) : a.id = id
      ids == ToSet(Ids(m.analyses))
  IN /\ m.named
     /\ IsDuplicateFree(Ids(m.analyses))
     /\ \A a \in ToSet(m.analyses) : a.state \in TerminalStates /\ InputsMatch(a)
     /\ IsDuplicateFree(listed) /\ ToSet(listed) = ids
     /\ \A t \in ToSet(m.tabs) : \A id \in ToSet(t.analyses) : Named(id).tab = t.id
     /\ \A a \in ToSet(m.analyses) :
          a.parent # NoParent => a.parent \in ids /\ Named(a.parent).tab = a.tab

GraphIsDeclared(nodes) ==
  /\ IsDuplicateFree(Ids(nodes))
  /\ \A n \in ToSet(nodes) : /\ IsDuplicateFree(n.parents) /\ n.id \notin ToSet(n.parents)
                             /\ ToSet(n.parents) \subseteq ToSet(Ids(nodes))
  /\ Total([k \in DOMAIN nodes |-> Len(nodes[k].parents)]) <= MaxEdges

DataFile(n) == <<"data", n.id>>
ArtifactFiles(a) ==
  [k \in DOMAIN a.artifacts |-> <<"analyses", a.id, "artifacts", a.artifacts[k]>>]
InputFiles(a) == [k \in DOMAIN a.inputs |-> <<"analyses", a.id, "query-data", a.inputs[k]>>]

DeclaredFiles(m) ==
  <<<<Metadata>>>> \o [k \in DOMAIN m.nodes |-> DataFile(m.nodes[k])]
    \o FlattenSeq([k \in DOMAIN m.analyses |->
                      ArtifactFiles(m.analyses[k]) \o InputFiles(m.analyses[k])])
Declared(m) == ToSet(DeclaredFiles(m))

-----------------------------------------------------------------------------
(* The compilation: nodes are added once their parents are there, the roots*)
(* first and in the order of the manifest.                                 *)

StartGraph(nodes) ==
  [added |-> <<>>,
   ready |-> SelectSeq(Ids(nodes), LAMBDA id :
               \E n \in ToSet(nodes) : n.id = id /\ n.parents = <<>>),
   indegree |-> [id \in ToSet(Ids(nodes)) |->
                   Len((CHOOSE n \in ToSet(nodes) : n.id = id).parents)]]

AddReadyNode(nodes, s) ==
  LET id == Head(s.ready)
      children == SelectSeq(Ids(nodes), LAMBDA c :
                    \E n \in ToSet(nodes) : n.id = c /\ id \in ToSet(n.parents))
      left == [c \in DOMAIN s.indegree |->
                 IF c \in ToSet(children) THEN s.indegree[c] - 1 ELSE s.indegree[c]]
  IN [added |-> Append(s.added, id),
      ready |-> Tail(s.ready) \o SelectSeq(children, LAMBDA c : left[c] = 0),
      indegree |-> left]

CompiledGraph(nodes) ==
  FoldLeft(LAMBDA s, k : IF s.ready = <<>> THEN s ELSE AddReadyNode(nodes, s),
           StartGraph(nodes), nodes).added

\* One pass over the records that wait for their parent: those whose parent is
\* there are added.
AddRecord(s, a) ==
  IF a.parent = NoParent \/ a.parent \in ToSet(Ids(s.added))
  THEN [s EXCEPT !.added = Append(@, a)]
  ELSE [s EXCEPT !.pending = Append(@, a)]

AddRecords(s) == FoldLeft(AddRecord, [added |-> s.added, pending |-> <<>>], s.pending)

\* A pass adds one record at least or is the last.
AddForest(records) ==
  FoldLeft(LAMBDA s, k : AddRecords(s), [added |-> <<>>, pending |-> records], records)

ForestIsValid(records) == AddForest(records).pending = <<>>

\* What is compiled is one commit, in which a plan or a record is a unit, and a
\* snapshot of its inputs for every Analysis that is to be queried.
FitsTheStore(m) ==
  /\ Len(m.nodes) <= MaxNodes
  /\ Len(m.nodes) + Len(m.tabs) + Len(m.analyses) <= MaxSnapshot
  /\ \A a \in ToSet(m.analyses) : Len(a.inputs) <= MaxSnapshot

\* Everything _prepare_from_path may refuse an archive for.
Opens(a) == a.container /\ ValidMembers(a.members) /\ HasRoot(a.members) /\ Extracts(a.members)
\* Mutant: that nodes were left out, each waiting for another, goes unnoticed.
CompilesSomeOf(a) ==
  LET m == a.manifest IN
  /\ ValidManifest(m) /\ GraphIsDeclared(m.nodes)
  /\ Files(a.members) = Declared(m)
  /\ IsDuplicateFree(Ids(m.tabs))
  /\ \A n \in ToSet(m.nodes) : n.column
  /\ ForestIsValid(m.analyses) /\ FitsTheStore(m)

Compiles(a) ==
  LET m == a.manifest IN
  /\ ValidManifest(m) /\ GraphIsDeclared(m.nodes)
  /\ Files(a.members) = Declared(m)
  /\ IsDuplicateFree(Ids(m.tabs))
  /\ \A n \in ToSet(CompiledGraph(m.nodes)) :
       (CHOOSE x \in ToSet(m.nodes) : x.id = n).column
  /\ Len(CompiledGraph(m.nodes)) = Len(m.nodes)
  /\ ForestIsValid(m.analyses) /\ FitsTheStore(m)

-----------------------------------------------------------------------------
(* What an export writes.                                                  *)

IsLive(c, id) == \E t \in ToSet(c.tabs) : id \in ToSet(t.analyses)

\* The terminal Analyses of the Tabs, a parent before its children; a child
\* whose parent is not among them is left out.
TerminalAnalyses(c) ==
  AddForest(SelectSeq(c.analyses, LAMBDA a :
                        IsLive(c, a.id) /\ a.state \in TerminalStates)).added

ExportedManifest(c) ==
  LET records == TerminalAnalyses(c)
      kept == ToSet(Ids(records))
  IN [named |-> TRUE,
      nodes |-> c.nodes,
      tabs |-> [k \in DOMAIN c.tabs |->
                  [c.tabs[k] EXCEPT !.analyses =
                     SelectSeq(@, LAMBDA id : id \in kept)]],
      analyses |-> [k \in DOMAIN records |->
                      [records[k] EXCEPT !.inputs =
                         IF records[k].query THEN records[k].needs ELSE <<>>]]]

\* Every file is written below one directory, one unit each.
ExportedArchive(c) ==
  LET m == ExportedManifest(c)
      Member(path) == [path |-> <<"workspace">> \o path, key |-> path, kind |-> "file",
                       safe |-> TRUE, encrypted |-> FALSE, packed |-> 1, size |-> 1,
                       sound |-> TRUE]
      files == DeclaredFiles(m)
  IN [bytes |-> 1, container |-> TRUE, manifest |-> m,
      members |-> [k \in DOMAIN files |-> Member(files[k])]]

-----------------------------------------------------------------------------
(* What an archive is meant to be, said without an order of additions.     *)

\* x is among the ancestors of y.
IsAncestor(nodes, x, y) ==
  LET ids == ToSet(Ids(nodes))
      IsParent(p, c) == \E k \in DOMAIN nodes : nodes[k].id = c /\ p \in ToSet(nodes[k].parents)
  IN \E path \in UNION {[1..k -> ids] : k \in 2..(Len(nodes) + 1)} :
       /\ path[1] = x /\ path[Len(path)] = y
       /\ \A k \in 1..(Len(path) - 1) : IsParent(path[k], path[k + 1])

IsAcyclic(nodes) == \A id \in ToSet(Ids(nodes)) : ~IsAncestor(nodes, id, id)

AsNodes(records) ==
  [k \in DOMAIN records |->
     [id |-> records[k].id,
      parents |-> IF records[k].parent = NoParent THEN <<>> ELSE <<records[k].parent>>]]

\* order has every node once, after its parents.
ParentsFirst(nodes, order) ==
  /\ Len(order) = Len(nodes) /\ ToSet(order) = ToSet(Ids(nodes))
  /\ \A n \in ToSet(nodes) : \A p \in ToSet(n.parents) :
       \E j, k \in DOMAIN order : j < k /\ order[j] = p /\ order[k] = n.id

IsWellFormed(a) ==
  /\ Opens(a) /\ ValidManifest(a.manifest) /\ GraphIsDeclared(a.manifest.nodes)
  /\ Files(a.members) = Declared(a.manifest) /\ IsDuplicateFree(Ids(a.manifest.tabs))
  /\ \A n \in ToSet(a.manifest.nodes) : n.column
  /\ IsAcyclic(a.manifest.nodes) /\ IsAcyclic(AsNodes(a.manifest.analyses))
  /\ FitsTheStore(a.manifest)
=============================================================================
