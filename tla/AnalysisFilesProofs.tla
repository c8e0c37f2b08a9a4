------------------------ MODULE AnalysisFilesProofs -------------------------
(***************************************************************************)
(* Proofs about the files of analyses, for any records, parents, sources,  *)
(* readers and faults: what a worker reads is there, what a reader copies  *)
(* is there, and nothing is left that no record owns.                      *)
(***************************************************************************)
EXTENDS AnalysisFiles, FiniteSetTheorems, TLAPS

\* Where a runner is while it holds the gate, and where what its process has
\* written is still to be removed.
Commanding == {"submitting", "launching", "refusing", "reporting", "completing", "recording",
               "lastRecording"}
Unclean == {"executing", "reporting", "stopping", "confirming", "completing", "recording",
            "cleaning", "clearing"}
Inside == {"slot", "room", "copy", "leaving"}

\* Who is under the gate knows it, and only a command holds records that are
\* not committed.
GateInv ==
  /\ gate.by = NoOne <=> gate.step = "free"
  /\ gate.by \in Readers <=> gate.step = "read"
  /\ \A a \in Analyses : run[a] \in Commanding <=> gate.by = a
  /\ \A r \in Readers : reader[r].at \in Inside <=> gate.by = r
  /\ gate.step \in {"free", "read", "collect"} => rollback = {} /\ mem = disk

\* Until the start is over nobody but the workers of the former process goes on.
StartInv ==
  /\ up # "up" =>
       /\ gate.step = "free" /\ rooms = {} /\ slots = {} /\ lost = {}
       /\ \A a \in Analyses : run[a] \in {"new", "over"}
       /\ \A r \in Readers : reader[r].at \in {"idle", "done"}
  /\ up = "starting" => data \subseteq disk.blocks

ProcInv ==
  \A a \in Analyses : proc[a] \in {"running", "read"} =>
    \/ run[a] \in {"executing", "reporting", "stopping"}
    \/ run[a] = "over" /\ a \in orphans

\* The records of g are sound, and find their files.
RecordInv(g) ==
  \A a \in Analyses :
    /\ g.state[a] = "running" /\ ParentOf[a] \in Analyses => g.state[ParentOf[a]] = "succeeded"
    /\ a \notin hurt =>
         /\ g.state[a] = "succeeded" /\ KindOf[a] = "table" => "artifacts" \in dirs[a]
         /\ g.state[a] = "succeeded" /\ KindOf[a] = "preview" => "query" \in dirs[a]
         /\ a \in g.blocks => a \in data

\* A runner that is new has no record yet.
NewInv ==
  \A a \in Analyses : run[a] = "new" => mem.state[a] = "none" /\ disk.state[a] = "none"

\* What an undo removes no committed record needs, unless it is hurt, and no
\* worker reads.
RollbackInv ==
  \A p \in rollback :
    /\ p[1] \in hurt \/ p[2] = "data" \/ disk.state[p[1]] # "succeeded"
    /\ p[1] \in hurt \/ p[2] # "data" \/ p[1] \notin disk.blocks
    /\ \A b \in Analyses :
         ParentOf[b] = p[1] => mem.state[b] # "running" /\ disk.state[b] # "running"

\* A worker that has still to read, or is about to be launched, has its files.
StageInv(g) ==
  \A a \in Analyses :
    /\ \/ run[a] = "launching"
       \/ run[a] \in {"executing", "reporting"} /\ proc[a] = "running"
    /\ g.state[a] = "running"
    => InputsAreThere(a)

\* What no committed record owns is still to be undone or to be cleaned.
LeftInv ==
  up = "up" /\ ~messy /\ gate.step # "collect" =>
    /\ \A a \in Analyses : \A e \in dirs[a] :
         \/ Owned(disk, a, e)
         \/ <<a, e>> \in rollback
         \/ e \in {"input", "output"} /\ (run[a] \in Unclean \/ a \in orphans)
    /\ \A a \in data : a \in disk.blocks \/ <<a, "data">> \in rollback

\* What a reader looks for and what it holds.
ReaderInv ==
  \A r \in Readers :
    /\ r \in lost => reader[r].at = "done"
    /\ reader[r].at \in Inside => reader[r].of \in Analyses
    /\ reader[r].at \in {"slot", "room", "copy"} =>
         disk.state[reader[r].of] = "succeeded" /\ KindOf[reader[r].of] # "block"
    /\ up = "up" /\ r \notin lost =>
         /\ reader[r].at \in {"idle", "slot", "done"} => r \notin copies \cup rooms \cup slots
         /\ reader[r].at = "room" => r \notin copies \cup rooms
         /\ reader[r].at = "copy" => r \notin copies
         /\ reader[r].at = "leaving" /\ r \notin copies => r \notin rooms \cup slots

FilesInv ==
  /\ TypeOK /\ IsFiniteSet(slots)
  /\ GateInv /\ StartInv /\ ProcInv /\ NewInv
  /\ RecordInv(mem) /\ RecordInv(disk)
  /\ RollbackInv
  /\ StageInv(mem) /\ StageInv(disk)
  /\ LeftInv /\ ReaderInv

-----------------------------------------------------------------------------
\* Every record of h is that of g, or has ended without success; and a record
\* that runs keeps a parent that has succeeded.
Thins(h, g) ==
  /\ h \in Graphs /\ h.blocks = g.blocks
  /\ \A a \in Analyses : \/ h.state[a] = g.state[a]
                         \/ h.state[a] = "none"
                         \/ g.state[a] # "none" /\ h.state[a] \in {"failed", "cancelled"}
  /\ \A a \in Analyses : h.state[a] = "running" /\ ParentOf[a] \in Analyses
       /\ g.state[ParentOf[a]] = "succeeded" => h.state[ParentOf[a]] = "succeeded"

\* Every command says where its runner goes, after a commit and after an undo.
LEMMA CommandsReport == DOMAIN AfterCommit = Commanding /\ DOMAIN AfterUndo = Commanding
BY DEF AfterCommit, AfterUndo, Commanding

\* Where else a runner may be.
Places == {"new", "over", "waiting", "executing", "stopping", "confirming",
           "falling", "cleaning", "clearing"}

\* A runner goes to a place that runners have.
LEMMA GoType ==
  ASSUME TypeOK, NEW a \in Analyses, NEW p \in Places \cup Commanding, Go(a, p)
  PROVE  run' \in [Analyses -> Places \cup DOMAIN AfterCommit]
BY CommandsReport DEF TypeOK, Go, Places

\* What a record graph is made of.
LEMMA GraphParts ==
  ASSUME NEW g \in Graphs
  PROVE  /\ g.state \in [Analyses -> States] /\ g.linked \subseteq Analyses
         /\ g.asked \subseteq Analyses /\ g.blocks \subseteq Analyses
BY DEF Graphs

\* What With does.
LEMMA WithState ==
  ASSUME NEW g \in Graphs, NEW a \in Analyses, NEW s \in States
  PROVE  /\ With(g, a, s) \in Graphs
         /\ With(g, a, s).blocks = g.blocks /\ With(g, a, s).linked = g.linked
         /\ With(g, a, s).asked = g.asked
         /\ With(g, a, s).state[a] = s
         /\ \A b \in Analyses : b # a => With(g, a, s).state[b] = g.state[b]
BY DEF With, Graphs

\* What Without does.
LEMMA WithoutIs ==
  ASSUME NEW g \in Graphs, NEW gone
  PROVE  Without(g, gone) = [state |-> [a \in Analyses |-> IF a \in gone THEN "none" ELSE g.state[a]],
                             linked |-> g.linked \ gone, asked |-> g.asked \ gone,
                             blocks |-> g.blocks]
<1> DEFINE state == [a \in Analyses |-> IF a \in gone THEN "none" ELSE g.state[a]]
           linked == g.linked \ gone
           asked == g.asked \ gone
<1> DEFINE f == [g EXCEPT !.state = state]
       h == [f EXCEPT !.linked = linked]
<1>1. f = [state |-> state, linked |-> g.linked, asked |-> g.asked, blocks |-> g.blocks]
  BY DEF Graphs
<1>2. h = [state |-> state, linked |-> linked, asked |-> g.asked, blocks |-> g.blocks]
  <2> HIDE DEF f
  <2> QED
    BY <1>1
<1>3. [h EXCEPT !.asked = asked] = [state |-> state, linked |-> linked, asked |-> asked, blocks |-> g.blocks]
  <2> HIDE DEF h
  <2> QED
    BY <1>2
<1>4. Without(g, gone) = [h EXCEPT !.asked = asked]
  BY DEF Without
<1> HIDE DEF f, h
<1> QED
  BY <1>3, <1>4

\* Without only takes records away.
LEMMA WithoutState ==
  ASSUME NEW g \in Graphs, NEW gone \in SUBSET Analyses
  PROVE  /\ Without(g, gone) \in Graphs
         /\ Without(g, gone).blocks = g.blocks
         /\ Without(g, gone).asked = g.asked \ gone
         /\ Without(g, gone).linked = g.linked \ gone
         /\ \A a \in Analyses : Without(g, gone).state[a] = IF a \in gone THEN "none" ELSE g.state[a]
<1>1. "none" \in States
  BY DEF States
<1> QED
  BY <1>1, WithoutIs DEF Graphs

\* What thins a thinned graph thins the graph.
LEMMA ThinsAgain ==
  ASSUME NEW f \in Graphs, NEW g \in Graphs, NEW h \in Graphs, Thins(h, g), Thins(g, f)
  PROVE  Thins(h, f)
BY DEF Thins, Works, Working

\* Whole trees go.
LEMMA TreesThin ==
  ASSUME NEW g \in Graphs, NEW roots \in SUBSET Analyses
  PROVE  Thins(Without(g, UNION {Tree(r) : r \in roots}), g)
<1> DEFINE gone == UNION {Tree(r) : r \in roots}
<1>1. gone \in SUBSET Analyses
  BY DEF Tree
<1>2. ASSUME NEW a \in Analyses, a \notin gone, ParentOf[a] \in Analyses
      PROVE  ParentOf[a] \notin gone
  <2> SUFFICES ASSUME ParentOf[a] \in gone PROVE FALSE
    OBVIOUS
  <2>1. PICK r \in roots : ParentOf[a] \in Tree(r)
    OBVIOUS
  <2>2. a \in Tree(ParentOf[a])
    BY DEF Tree
  <2>3. ParentOf[a] # r
    BY <1>2, <2>2
  <2>4. ParentOf[ParentOf[a]] = r
    BY <2>1, <2>3 DEF Tree
  <2> QED
    BY <1>2, <2>4, KindsAreKnown
<1> HIDE DEF gone
<1>3. Thins(Without(g, gone), g)
  BY <1>1, <1>2, WithoutState DEF Thins, Works, Working
<1> QED
  BY <1>3 DEF gone

\* Dropping the records that ended without success thins a graph.
LEMMA DropEndedThins ==
  ASSUME NEW g \in Graphs, NEW root \in Analyses
  PROVE  Thins(DropEnded(g, root), g) /\ DropEnded(g, root) \in Graphs
<1>1. Tree(root) \in SUBSET Analyses
  BY DEF Tree
<1>2. Tree(root) = UNION {Tree(r) : r \in {root}}
  OBVIOUS
<1>3. Thins(Without(g, Tree(root)), g)
  BY <1>2, TreesThin
<1>4. Thins(g, g)
  BY DEF Thins
<1> QED
  BY <1>1, <1>3, <1>4, WithoutState DEF DropEnded

\* The root of a tree is in it.
LEMMA RootIsThere ==
  ASSUME NEW a \in Analyses
  PROVE  Root(a) \in Analyses
BY KindsAreKnown DEF Root

\* Detaching trees thins a graph.
LEMMA DetachTreesThins ==
  ASSUME NEW g \in Graphs, NEW roots \in SUBSET Analyses
  PROVE  Thins(DetachTrees(g, roots), g)
<1> DEFINE asked == {a \in Analyses : Root(a) \in roots /\ g.state[a] = "running"}
           kept  == {Root(a) : a \in asked}
           state == [a \in Analyses |-> IF Root(a) \in roots /\ g.state[a] = "queued"
                                        THEN "cancelled" ELSE g.state[a]]
           linked == {a \in g.linked : Root(a) \notin roots}
           ended == [g EXCEPT !.state = state, !.linked = linked, !.asked = g.asked \cup asked]
           gone == {a \in Analyses : Root(a) \in roots \ kept}
<1>1. DetachTrees(g, roots) = Without(ended, gone)
  BY DEF DetachTrees
<1>2. ended = [state |-> state, linked |-> linked, asked |-> g.asked \cup asked,
               blocks |-> g.blocks]
  <2> HIDE DEF state, linked, asked
  <2> DEFINE k == g.asked \cup asked
  <2> DEFINE f == [g EXCEPT !.state = state]
         h == [f EXCEPT !.linked = linked]
  <2>1. f = [state |-> state, linked |-> g.linked, asked |-> g.asked, blocks |-> g.blocks]
    BY DEF Graphs
  <2>2. h = [state |-> state, linked |-> linked, asked |-> g.asked, blocks |-> g.blocks]
    <3> HIDE DEF f
    <3> QED
      BY <2>1
  <2>3. [h EXCEPT !.asked = k] = [state |-> state, linked |-> linked, asked |-> k, blocks |-> g.blocks]
    <3> HIDE DEF h
    <3> QED
      BY <2>2
  <2>4. ended = [h EXCEPT !.asked = k]
    OBVIOUS
  <2> HIDE DEF f, h
  <2> QED
    BY <2>3, <2>4
<1>3. state \in [Analyses -> States] /\ linked \subseteq Analyses /\ asked \subseteq Analyses
      /\ gone \subseteq Analyses
  BY GraphParts DEF States
<1>4. \A a \in Analyses : state[a] = IF Root(a) \in roots /\ g.state[a] = "queued"
                                     THEN "cancelled" ELSE g.state[a]
  OBVIOUS
<1>5. ASSUME NEW a \in Analyses, a \notin gone, ParentOf[a] \in Analyses
      PROVE  ParentOf[a] \notin gone
  BY <1>5, KindsAreKnown DEF Root
<1> HIDE DEF state, linked, asked, gone, ended
<1>6. ended \in Graphs /\ ended.blocks = g.blocks /\ ended.state = state
  BY <1>2, <1>3 DEF Graphs
<1>7. Thins(Without(ended, gone), g)
  <2>1. /\ Without(ended, gone) \in Graphs /\ Without(ended, gone).blocks = g.blocks
        /\ \A a \in Analyses : Without(ended, gone).state[a] =
             IF a \in gone THEN "none" ELSE state[a]
    BY <1>3, <1>6, WithoutState
  <2> QED
    BY <1>4, <1>5, <2>1 DEF Thins, Works, Working
<1> QED
  BY <1>1, <1>7

-----------------------------------------------------------------------------
(* Readers of results.                                                     *)

\* Where nothing of the records, the files and the runners changes.
LEMMA FilesStay ==
  ASSUME FilesInv, UNCHANGED <<commandVars, disk, fileVars, run, proc, up, hurt, messy, orphans>>,
         gate.step = "collect" => gate'.step = "collect"
  PROVE  /\ ProcInv' /\ NewInv' /\ RecordInv(mem)' /\ RecordInv(disk)' /\ RollbackInv'
         /\ StageInv(mem)' /\ StageInv(disk)' /\ LeftInv'
<1> USE DEF FilesInv, commandVars, fileVars
<1>1. ProcInv' /\ NewInv'
  BY DEF ProcInv, NewInv
<1>2. RecordInv(mem)' /\ RecordInv(disk)'
  BY DEF RecordInv
<1>3. RollbackInv'
  BY DEF RollbackInv
<1>4. StageInv(mem)' /\ StageInv(disk)'
  BY DEF StageInv, InputsAreThere, ParentIsReadable
<1>5. LeftInv'
  BY DEF LeftInv
<1> QED
  BY <1>1, <1>2, <1>3, <1>4, <1>5

\* The gate of a reader, and what is known there.
LEMMA ReaderIsInside ==
  ASSUME FilesInv, NEW r \in Readers, reader[r].at \in Inside
  PROVE  /\ up = "up" /\ gate = [by |-> r, step |-> "read"] /\ rollback = {} /\ mem = disk
         /\ \A s \in Readers : s # r => reader[s].at \notin Inside
         /\ reader[r].of \in Analyses
BY DEF FilesInv, TypeOK, GateInv, StartInv, ReaderInv

\* A slot is given back.
LEMMA SlotsGo ==
  ASSUME IsFiniteSet(slots), Cardinality(slots) <= Slots, NEW S \in SUBSET slots
  PROVE  IsFiniteSet(S) /\ Cardinality(S) <= Slots
BY FS_Subset, FS_CardinalityType, KindsAreKnown

\* A slot is taken.
LEMMA SlotTaken ==
  ASSUME NEW S, IsFiniteSet(S), NEW r
  PROVE  IsFiniteSet(S \cup {r}) /\ Cardinality(S \cup {r}) \in {Cardinality(S), Cardinality(S) + 1}
BY FS_AddElement

\* A reader enters the gate with a listed success, or is refused when its file is gone.
LEMMA EnterStep ==
  ASSUME FilesInv, NEW r \in Readers, Enter(r)
  PROVE  FilesInv'
<1> USE DEF FilesInv, Enter, readerVars, faultVars, commandVars, fileVars
<1>0. PICK a \in mem.linked :
        /\ mem.state[a] = "succeeded" /\ KindOf[a] # "block"
        /\ IF Downloads(a) /\ ~ArtifactsResolve(a)
           THEN Aside(r, "done") /\ UNCHANGED gate
           ELSE /\ reader' = [reader EXCEPT ![r] =
                       [at |-> IF Downloads(a) THEN "slot" ELSE "room", of |-> a]]
                /\ Hold(r, "read")
  OBVIOUS
<1>a. a \in Analyses /\ up = "up" /\ gate.by = NoOne /\ mem = disk /\ reader[r].at = "idle"
  BY GraphParts DEF TypeOK, GateInv, Open
<1>b. \/ reader' = [reader EXCEPT ![r] = [at |-> "done", of |-> NoAnalysis]]
      \/ /\ \/ reader' = [reader EXCEPT ![r] = [at |-> "slot", of |-> a]]
            \/ reader' = [reader EXCEPT ![r] = [at |-> "room", of |-> a]]
         /\ mem.state[a] = "succeeded" /\ KindOf[a] # "block"
  BY <1>0 DEF Aside
<1>1. TypeOK' /\ IsFiniteSet(slots)'
  <2>1. IsFiniteSet(slots') /\ Cardinality(slots') <= Slots
    BY DEF TypeOK
  <2>2. /\ reader' \in [Readers -> [at : {"idle", "slot", "room", "copy", "leaving", "copied", "done"},
                                  of : Analyses \cup {NoAnalysis}]]
        /\ copies' \subseteq Readers /\ rooms' \subseteq Readers /\ slots' \subseteq Readers
        /\ lost' \subseteq Readers
    BY <1>a, <1>b DEF TypeOK
  <2>3. gate' \in [by : Analyses \cup Readers \cup {NoOne, User},
                  step : {"free", "commit", "collect", "undo", "read"}]
        /\ faults' \in 0..MaxDisturbances
    BY DEF TypeOK, Hold
  <2> QED
    BY <2>2, <2>3 DEF TypeOK
<1>2. GateInv'
  BY NamesDiffer DEF GateInv, TypeOK, Aside, Hold, Open, Inside
<1>3. StartInv'
  BY DEF StartInv, Open
<1>4. ReaderInv'
  <2>1. UNCHANGED <<copies, rooms, slots, lost, disk, up>>
    OBVIOUS
  <2> QED
    BY <1>a, <1>b DEF ReaderInv, TypeOK, Inside
<1>5. gate.step = "collect" => gate'.step = "collect"
  BY DEF Open
<1> QED
  BY <1>1, <1>2, <1>3, <1>4, <1>5, FilesStay

\* A download takes a response slot while it holds the gate.
LEMMA TakeSlotStep ==
  ASSUME FilesInv, NEW r \in Readers, TakeSlot(r)
  PROVE  FilesInv'
<1> USE DEF FilesInv, TakeSlot, readerVars, faultVars, commandVars, fileVars
<1>1. TypeOK' /\ IsFiniteSet(slots)'
  <2>1. IsFiniteSet(slots') /\ Cardinality(slots') <= Slots
    <3>1. slots' = slots \cup {r} /\ IsFiniteSet(slots)
      OBVIOUS
    <3>2. IsFiniteSet(slots') /\ Cardinality(slots') \in {Cardinality(slots), Cardinality(slots) + 1}
      BY SlotTaken
    <3> QED
      BY <3>2, FS_CardinalityType, KindsAreKnown
  <2>2. /\ reader' \in [Readers -> [at : {"idle", "slot", "room", "copy", "leaving", "copied", "done"},
                                  of : Analyses \cup {NoAnalysis}]]
        /\ copies' \subseteq Readers /\ rooms' \subseteq Readers /\ slots' \subseteq Readers
        /\ lost' \subseteq Readers
    BY DEF TypeOK, At
  <2>3. gate' \in [by : Analyses \cup Readers \cup {NoOne, User},
                  step : {"free", "commit", "collect", "undo", "read"}]
        /\ faults' \in 0..MaxDisturbances
    BY DEF TypeOK
  <2> QED
    BY <2>1, <2>2 DEF TypeOK
<1>2. GateInv'
  BY DEF GateInv, At, Inside
<1>3. StartInv'
  BY DEF StartInv
<1>4. ReaderInv'
  BY DEF ReaderInv, TypeOK, At, Inside
<1>5. gate.step = "collect" => gate'.step = "collect"
  OBVIOUS
<1> QED
  BY <1>1, <1>2, <1>3, <1>4, FilesStay

\* It reserves room for the copy, or is refused.
LEMMA ReserveStep ==
  ASSUME FilesInv, NEW r \in Readers, Reserve(r)
  PROVE  FilesInv'
<1> USE DEF FilesInv, Reserve, readerVars, faultVars, commandVars, fileVars
<1>1. TypeOK' /\ IsFiniteSet(slots)'
  <2>1. IsFiniteSet(slots') /\ Cardinality(slots') <= Slots
    BY SlotsGo DEF TypeOK
  <2>2. /\ reader' \in [Readers -> [at : {"idle", "slot", "room", "copy", "leaving", "copied", "done"},
                                  of : Analyses \cup {NoAnalysis}]]
        /\ copies' \subseteq Readers /\ rooms' \subseteq Readers /\ slots' \subseteq Readers
        /\ lost' \subseteq Readers
    BY DEF TypeOK, At
  <2>3. gate' \in [by : Analyses \cup Readers \cup {NoOne, User},
                  step : {"free", "commit", "collect", "undo", "read"}]
        /\ faults' \in 0..MaxDisturbances
    BY DEF TypeOK
  <2> QED
    BY <2>1, <2>2 DEF TypeOK
<1>2. GateInv'
  BY DEF GateInv, TypeOK, At, Inside
<1>3. StartInv'
  BY DEF StartInv
<1>4. ReaderInv'
  BY DEF ReaderInv, TypeOK, At, Inside
<1>5. gate.step = "collect" => gate'.step = "collect"
  OBVIOUS
<1> QED
  BY <1>1, <1>2, <1>3, <1>4, FilesStay

\* It copies what the record owns, and the copy may fail.
LEMMA CopyStep ==
  ASSUME FilesInv, NEW r \in Readers, Copy(r)
  PROVE  FilesInv'
<1> USE DEF FilesInv, Copy, readerVars, faultVars, commandVars, fileVars
<1>1. TypeOK' /\ IsFiniteSet(slots)'
  <2>1. IsFiniteSet(slots') /\ Cardinality(slots') <= Slots
    BY SlotsGo DEF TypeOK, GiveBack
  <2>2. /\ reader' \in [Readers -> [at : {"idle", "slot", "room", "copy", "leaving", "copied", "done"},
                                  of : Analyses \cup {NoAnalysis}]]
        /\ copies' \subseteq Readers /\ rooms' \subseteq Readers /\ slots' \subseteq Readers
        /\ lost' \subseteq Readers
    BY DEF TypeOK, At, GiveBack
  <2>3. gate' \in [by : Analyses \cup Readers \cup {NoOne, User},
                  step : {"free", "commit", "collect", "undo", "read"}]
        /\ faults' \in 0..MaxDisturbances
    BY DEF TypeOK
  <2> QED
    BY <2>1, <2>2 DEF TypeOK
<1>2. GateInv'
  BY DEF GateInv, At, Inside
<1>3. StartInv'
  BY DEF StartInv
<1>4. ReaderInv'
  BY DEF ReaderInv, TypeOK, At, GiveBack, Inside
<1>5. gate.step = "collect" => gate'.step = "collect"
  OBVIOUS
<1> QED
  BY <1>1, <1>2, <1>3, <1>4, FilesStay

\* It leaves the gate.
LEMMA LeaveStep ==
  ASSUME FilesInv, NEW r \in Readers, Leave(r)
  PROVE  FilesInv'
<1> USE DEF FilesInv, Leave, readerVars, faultVars, commandVars, fileVars
<1>1. TypeOK' /\ IsFiniteSet(slots)'
  <2>1. IsFiniteSet(slots') /\ Cardinality(slots') <= Slots
    BY DEF TypeOK
  <2>2. /\ reader' \in [Readers -> [at : {"idle", "slot", "room", "copy", "leaving", "copied", "done"},
                                  of : Analyses \cup {NoAnalysis}]]
        /\ copies' \subseteq Readers /\ rooms' \subseteq Readers /\ slots' \subseteq Readers
        /\ lost' \subseteq Readers
    BY DEF TypeOK, Aside
  <2>3. gate' \in [by : Analyses \cup Readers \cup {NoOne, User},
                  step : {"free", "commit", "collect", "undo", "read"}]
        /\ faults' \in 0..MaxDisturbances
    BY DEF TypeOK, Free
  <2> QED
    BY <2>2, <2>3 DEF TypeOK
<1>2. GateInv'
  BY NamesDiffer DEF GateInv, TypeOK, Aside, Free, Inside
<1>3. StartInv'
  BY DEF StartInv
<1>4. ReaderInv'
  BY DEF ReaderInv, Aside, Inside
<1>5. gate.step = "collect" => gate'.step = "collect"
  BY ReaderIsInside DEF Inside
<1> QED
  BY <1>1, <1>2, <1>3, <1>4, <1>5, FilesStay

\* Its response is over: the copy, the room and the slot go back.
LEMMA CleanUpStep ==
  ASSUME FilesInv, NEW r \in Readers, CleanUp(r)
  PROVE  FilesInv'
<1> USE DEF FilesInv, CleanUp, readerVars, faultVars, commandVars, fileVars
<1>1. TypeOK' /\ IsFiniteSet(slots)'
  <2>1. IsFiniteSet(slots') /\ Cardinality(slots') <= Slots
    BY SlotsGo DEF TypeOK, GiveBack
  <2>2. /\ reader' \in [Readers -> [at : {"idle", "slot", "room", "copy", "leaving", "copied", "done"},
                                  of : Analyses \cup {NoAnalysis}]]
        /\ copies' \subseteq Readers /\ rooms' \subseteq Readers /\ slots' \subseteq Readers
        /\ lost' \subseteq Readers
    BY DEF TypeOK, Aside, GiveBack
  <2>3. gate' \in [by : Analyses \cup Readers \cup {NoOne, User},
                  step : {"free", "commit", "collect", "undo", "read"}]
        /\ faults' \in 0..MaxDisturbances
    BY DEF TypeOK
  <2> QED
    BY <2>1, <2>2 DEF TypeOK
<1>2. GateInv'
  BY DEF GateInv, Aside, Inside
<1>3. StartInv'
  BY DEF StartInv
<1>4. ReaderInv'
  BY DEF ReaderInv, Aside, GiveBack, Inside
<1>5. gate.step = "collect" => gate'.step = "collect"
  OBVIOUS
<1> QED
  BY <1>1, <1>2, <1>3, <1>4, FilesStay

\* A cancelled reader gives back what it holds, or loses it to its thread.
LEMMA CancelReaderStep ==
  ASSUME FilesInv, NEW r \in Readers, CancelReader(r)
  PROVE  FilesInv'
<1> USE DEF FilesInv, CancelReader, readerVars, faultVars, commandVars, fileVars
<1>1. TypeOK' /\ IsFiniteSet(slots)'
  <2>1. IsFiniteSet(slots') /\ Cardinality(slots') <= Slots
    BY SlotsGo DEF TypeOK, GiveBack
  <2>2. /\ reader' \in [Readers -> [at : {"idle", "slot", "room", "copy", "leaving", "copied", "done"},
                                  of : Analyses \cup {NoAnalysis}]]
        /\ copies' \subseteq Readers /\ rooms' \subseteq Readers /\ slots' \subseteq Readers
        /\ lost' \subseteq Readers
    BY DEF TypeOK, Aside, GiveBack
  <2>3. gate' \in [by : Analyses \cup Readers \cup {NoOne, User},
                  step : {"free", "commit", "collect", "undo", "read"}]
        /\ faults' \in 0..MaxDisturbances
    BY KindsAreKnown DEF TypeOK, Free
  <2> QED
    BY <2>1, <2>2, <2>3 DEF TypeOK
<1>2. GateInv'
  BY NamesDiffer DEF GateInv, TypeOK, Aside, Free, Inside
<1>3. StartInv'
  BY DEF StartInv
<1>4. ReaderInv'
  BY DEF ReaderInv, TypeOK, Aside, GiveBack, Inside
<1>5. gate.step = "collect" => gate'.step = "collect"
  BY ReaderIsInside DEF Inside
<1> QED
  BY <1>1, <1>2, <1>3, <1>4, <1>5, FilesStay

-----------------------------------------------------------------------------
(* Workers, and what they leave.                                           *)

\* A worker has read its inputs.
LEMMA ReadsStep ==
  ASSUME FilesInv, NEW a \in Analyses, Reads(a)
  PROVE  FilesInv'
<1> USE DEF FilesInv, Reads, readerVars, faultVars, commandVars, fileVars
<1>1. TypeOK' /\ IsFiniteSet(slots)'
  BY DEF TypeOK
<1>2. GateInv'
  BY DEF GateInv
<1>3. StartInv'
  BY DEF StartInv
<1>4. ProcInv'
  BY DEF ProcInv
<1>5. RecordInv(mem)' /\ RecordInv(disk)'
  BY DEF RecordInv
<1>6. RollbackInv'
  BY DEF RollbackInv
<1>7. StageInv(mem)' /\ StageInv(disk)'
  BY DEF StageInv, InputsAreThere, ParentIsReadable
<1>8. LeftInv'
  BY DEF LeftInv
<1>9. ReaderInv'
  BY DEF ReaderInv
<1>10. NewInv'
  BY DEF NewInv
<1> QED
  BY <1>1, <1>2, <1>3, <1>4, <1>5, <1>6, <1>7, <1>8, <1>9, <1>10

\* A worker writes its outputs.
LEMMA WritesStep ==
  ASSUME FilesInv, NEW a \in Analyses, Writes(a)
  PROVE  FilesInv'
<1> USE DEF FilesInv, Writes, readerVars, faultVars, commandVars, fileVars
<1>1. TypeOK' /\ IsFiniteSet(slots)'
  BY DEF TypeOK, Entries
<1>2. GateInv'
  BY DEF GateInv
<1>3. StartInv'
  BY DEF StartInv
<1>4. ProcInv'
  BY DEF ProcInv
<1>5. RecordInv(mem)' /\ RecordInv(disk)'
  BY DEF RecordInv
<1>6. RollbackInv'
  BY DEF RollbackInv
<1>7. StageInv(mem)' /\ StageInv(disk)'
  BY DEF StageInv, InputsAreThere, ParentIsReadable
<1>8. LeftInv'
  BY DEF LeftInv, Unclean, ProcInv
<1>9. ReaderInv'
  BY DEF ReaderInv
<1>10. NewInv'
  BY DEF NewInv
<1> QED
  BY <1>1, <1>2, <1>3, <1>4, <1>5, <1>6, <1>7, <1>8, <1>9, <1>10

\* A worker fails.
LEMMA WorkerFailsStep ==
  ASSUME FilesInv, NEW a \in Analyses, WorkerFails(a)
  PROVE  FilesInv'
<1> USE DEF FilesInv, WorkerFails, readerVars, faultVars, commandVars, fileVars
<1>1. TypeOK' /\ IsFiniteSet(slots)'
  BY DEF TypeOK
<1>2. GateInv'
  BY DEF GateInv
<1>3. StartInv'
  BY DEF StartInv
<1>4. ProcInv'
  BY DEF ProcInv
<1>5. RecordInv(mem)' /\ RecordInv(disk)'
  BY DEF RecordInv
<1>6. RollbackInv'
  BY DEF RollbackInv
<1>7. StageInv(mem)' /\ StageInv(disk)'
  BY DEF StageInv, InputsAreThere, ParentIsReadable
<1>8. LeftInv'
  BY DEF LeftInv
<1>9. ReaderInv'
  BY DEF ReaderInv
<1>10. NewInv'
  BY DEF NewInv
<1> QED
  BY <1>1, <1>2, <1>3, <1>4, <1>5, <1>6, <1>7, <1>8, <1>9, <1>10

\* A runner sees that its worker is gone.
LEMMA StoppedStep ==
  ASSUME FilesInv, NEW a \in Analyses, Stopped(a)
  PROVE  FilesInv'
<1> USE DEF FilesInv, Stopped, readerVars, faultVars, commandVars, fileVars
<1>1. TypeOK' /\ IsFiniteSet(slots)'
  BY DEF TypeOK, Go
<1>2. GateInv'
  BY DEF GateInv, Commanding, Go
<1>3. StartInv'
  BY DEF StartInv
<1>4. ProcInv'
  BY DEF ProcInv, TypeOK, Go
<1>5. RecordInv(mem)' /\ RecordInv(disk)'
  BY DEF RecordInv
<1>6. RollbackInv'
  BY DEF RollbackInv
<1>7. StageInv(mem)' /\ StageInv(disk)'
  BY DEF StageInv, InputsAreThere, ParentIsReadable, Go
<1>8. LeftInv'
  BY DEF LeftInv, Unclean, Go
<1>9. ReaderInv'
  BY DEF ReaderInv
<1>10. NewInv'
  BY DEF NewInv, Go
<1> QED
  BY <1>1, <1>2, <1>3, <1>4, <1>5, <1>6, <1>7, <1>8, <1>9, <1>10

\* It cleans what the worker has left.
LEMMA CleanStep ==
  ASSUME FilesInv, NEW a \in Analyses, Clean(a)
  PROVE  FilesInv'
<1> USE DEF FilesInv, Clean, readerVars, faultVars, commandVars, fileVars
<1>1. TypeOK' /\ IsFiniteSet(slots)'
  <2>1. /\ run' \in [Analyses -> Places \cup DOMAIN AfterCommit]
    <3>1. CASE Go(a, "over")
      BY GoType DEF Places
    <3>2. CASE Go(a, "falling")
      BY GoType DEF Places
    <3> QED
      BY <3>1, <3>2
  <2>2. dirs' \in [Analyses -> SUBSET Entries] /\ faults' \in 0..MaxDisturbances
    BY KindsAreKnown DEF TypeOK, RemoveStage
  <2>3. messy' \in BOOLEAN
    <3>1. CASE UNCHANGED <<faults, messy>>
      BY DEF TypeOK
    <3>2. CASE messy' = TRUE
      BY <3>2
    <3> QED
      BY <3>1
  <2> QED
    BY <2>1, <2>2 DEF TypeOK, Places
<1>2. GateInv'
  BY DEF GateInv, Commanding, Go
<1>3. StartInv'
  BY DEF StartInv
<1>4. ProcInv'
  BY DEF ProcInv, Go
<1>5. RecordInv(mem)' /\ RecordInv(disk)'
  BY DEF RecordInv, TypeOK, RemoveStage
<1>6. RollbackInv'
  BY DEF RollbackInv
<1>7. StageInv(mem)' /\ StageInv(disk)'
  BY DEF StageInv, InputsAreThere, ParentIsReadable, TypeOK, Go, RemoveStage
<1>8. LeftInv'
  BY DEF LeftInv, TypeOK, Go, RemoveStage
<1>9. ReaderInv'
  BY DEF ReaderInv
<1>10. NewInv'
  BY DEF NewInv, Go
<1> QED
  BY <1>1, <1>2, <1>3, <1>4, <1>5, <1>6, <1>7, <1>8, <1>9, <1>10

-----------------------------------------------------------------------------
(* Records that end, and commands of runners.                              *)

\* With the gate free the records are those that are committed.
LEMMA WhenOpen ==
  ASSUME FilesInv, Open
  PROVE  /\ up = "up" /\ gate.by = NoOne /\ gate.step = "free" /\ rollback = {} /\ mem = disk
         /\ mem \in Graphs /\ disk \in Graphs
         /\ \A a \in Analyses : run[a] \notin Commanding
         /\ \A r \in Readers : reader[r].at \notin Inside
BY NamesDiffer DEF FilesInv, Open, GateInv, TypeOK

\* A record that works ends without success.
LEMMA EndedThins ==
  ASSUME NEW g \in Graphs, NEW a \in Analyses, NEW s \in {"failed", "cancelled"}, Works(g, a)
  PROVE  Thins(With(g, a, s), g) /\ With(g, a, s) \in Graphs
<1>1. s \in States
  BY DEF States
<1> QED
  BY <1>1, WithState DEF Thins, Works, Working

\* The Tab is cleared: all its trees are detached.
LEMMA ClearStep ==
  ASSUME FilesInv, Clear
  PROVE  FilesInv'
<1> USE DEF FilesInv, Clear, readerVars, faultVars, commandVars, fileVars
<1>1. Thins(mem', mem)
  <2>1. {Root(a) : a \in mem.linked} \in SUBSET Analyses
    BY WhenOpen, GraphParts, RootIsThere
  <2> QED
    BY <2>1, WhenOpen, DetachTreesThins
<1>2. TypeOK' /\ IsFiniteSet(slots)'
  BY <1>1 DEF TypeOK, Thins, Hold
<1>3. GateInv'
  BY WhenOpen, NamesDiffer DEF GateInv, Hold
<1>4. StartInv'
  BY WhenOpen DEF StartInv
<1>5. ProcInv'
  BY DEF ProcInv
<1>6. RecordInv(mem)'
  BY <1>1 DEF RecordInv, Works, Working, Thins
<1>7. RecordInv(disk)'
  BY DEF RecordInv
<1>8. RollbackInv'
  BY WhenOpen DEF RollbackInv
<1>9. StageInv(mem)'
  BY <1>1 DEF StageInv, InputsAreThere, ParentIsReadable, Thins
<1>10. StageInv(disk)'
  BY DEF StageInv, InputsAreThere, ParentIsReadable
<1>11. LeftInv'
  BY WhenOpen DEF LeftInv
<1>12. ReaderInv'
  BY DEF ReaderInv
<1>13. NewInv'
  BY <1>1 DEF NewInv, Thins
<1> QED
  BY <1>2, <1>3, <1>4, <1>5, <1>6, <1>7, <1>8, <1>9, <1>10, <1>11, <1>12, <1>13

\* A working record is cancelled with its working descendants.
LEMMA CancelStep ==
  ASSUME FilesInv, NEW a \in Analyses, Cancel(a)
  PROVE  FilesInv'
<1> USE DEF FilesInv, Cancel, readerVars, faultVars, commandVars, fileVars
<1>1. Thins(mem', mem)
  <2> DEFINE state == [b \in Analyses |->
                        IF b \in Tree(a) /\ mem.state[b] = "queued" THEN "cancelled" ELSE mem.state[b]]
             asked == mem.asked \cup {b \in Tree(a) : mem.state[b] = "running"}
             f == [mem EXCEPT !.state = state]
  <2>1. f = [state |-> state, linked |-> mem.linked, asked |-> mem.asked, blocks |-> mem.blocks]
    BY WhenOpen DEF Graphs
  <2>2. [f EXCEPT !.asked = asked]
          = [state |-> state, linked |-> mem.linked, asked |-> asked, blocks |-> mem.blocks]
    <3> HIDE DEF f
    <3> QED
      BY <2>1
  <2>3. mem' = [f EXCEPT !.asked = asked]
    OBVIOUS
  <2>4. state \in [Analyses -> States] /\ asked \subseteq Analyses
    BY WhenOpen, GraphParts DEF Tree, States
  <2>5. \A b \in Analyses : state[b] = IF b \in Tree(a) /\ mem.state[b] = "queued"
                                       THEN "cancelled" ELSE mem.state[b]
    OBVIOUS
  <2> HIDE DEF f, state, asked
  <2>6. mem' \in Graphs /\ mem'.state = state /\ mem'.blocks = mem.blocks
    BY <2>2, <2>3, <2>4, WhenOpen, GraphParts DEF Graphs
  <2> QED
    BY <2>5, <2>6 DEF Thins
<1>2. TypeOK' /\ IsFiniteSet(slots)'
  BY <1>1 DEF TypeOK, Thins, Hold
<1>3. GateInv'
  BY WhenOpen, NamesDiffer DEF GateInv, Hold
<1>4. StartInv'
  BY WhenOpen DEF StartInv
<1>5. ProcInv'
  BY DEF ProcInv
<1>6. RecordInv(mem)'
  BY DEF RecordInv, Works, Working
<1>7. RecordInv(disk)'
  BY DEF RecordInv
<1>8. RollbackInv'
  BY WhenOpen DEF RollbackInv
<1>9. StageInv(mem)'
  BY DEF StageInv, InputsAreThere, ParentIsReadable
<1>10. StageInv(disk)'
  BY DEF StageInv, InputsAreThere, ParentIsReadable
<1>11. LeftInv'
  BY WhenOpen DEF LeftInv
<1>12. ReaderInv'
  BY DEF ReaderInv
<1>13. NewInv'
  BY DEF NewInv
<1> QED
  BY <1>2, <1>3, <1>4, <1>5, <1>6, <1>7, <1>8, <1>9, <1>10, <1>11, <1>12, <1>13

\* A progress that cannot be recorded stops the worker.
LEMMA BadProgressStep ==
  ASSUME FilesInv, NEW a \in Analyses, BadProgress(a)
  PROVE  FilesInv'
<1> USE DEF FilesInv, BadProgress, readerVars, faultVars, commandVars, fileVars
<1>1. Thins(mem', mem)
  BY WhenOpen, EndedThins DEF Works, Working
<1>2. TypeOK' /\ IsFiniteSet(slots)'
  <2>1. run' \in [Analyses -> Places \cup DOMAIN AfterCommit]
    BY GoType DEF Commanding
  <2>2. mem' \in Graphs /\ rollback' \subseteq Analyses \X {"artifacts", "query", "data"}
    BY <1>1, WhenOpen DEF Thins
  <2>3. gate' \in [by : Analyses \cup Readers \cup {NoOne, User},
                  step : {"free", "commit", "collect", "undo", "read"}]
    BY DEF Hold
  <2>4. dirs' \in [Analyses -> SUBSET Entries] /\ data' \subseteq Analyses
        /\ proc' \in [Analyses -> {"none", "running", "read", "done", "failed"}]
    BY DEF TypeOK
  <2> QED
    BY <2>1, <2>2, <2>3 DEF TypeOK, Places
<1>3. GateInv'
  BY WhenOpen, NamesDiffer DEF GateInv, TypeOK, Commanding, Go, Hold
<1>4. StartInv'
  BY DEF StartInv
<1>5. ProcInv'
  BY DEF ProcInv, Go
<1>6. RecordInv(mem)'
  BY <1>1 DEF RecordInv, Works, Working, Thins
<1>7. RecordInv(disk)'
  BY DEF RecordInv
<1>8. RollbackInv'
  BY WhenOpen DEF RollbackInv
<1>9. StageInv(mem)'
  BY <1>1 DEF StageInv, InputsAreThere, ParentIsReadable, Thins, Go
<1>10. StageInv(disk)'
  BY DEF StageInv, InputsAreThere, ParentIsReadable, Go
<1>11. LeftInv'
  BY WhenOpen DEF LeftInv, Unclean, Go
<1>12. ReaderInv'
  BY DEF ReaderInv
<1>13. NewInv'
  BY <1>1 DEF NewInv, Thins, Go
<1> QED
  BY <1>2, <1>3, <1>4, <1>5, <1>6, <1>7, <1>8, <1>9, <1>10, <1>11, <1>12, <1>13

\* A record that ends without success thins the graph.
LEMMA EndsThins ==
  ASSUME mem \in Graphs, NEW a \in Analyses, NEW s \in {"failed", "cancelled"}, Works(mem, a),
         Ends(a, With(mem, a, s))
  PROVE  Thins(mem', mem)
BY EndedThins, DropEndedThins, RootIsThere, ThinsAgain DEF Ends

\* A runner goes on without a command.
LEMMA OnlyTheRunner ==
  ASSUME FilesInv, NEW a \in Analyses, NEW p \in {"over", "cleaning"}, Open, Go(a, p),
         p = "over" => run[a] \in {"waiting", "falling"},
         p = "cleaning" => run[a] \in {"executing", "confirming"} /\ proc'[a] \notin {"running", "read"},
         proc' = proc \/ proc' = [proc EXCEPT ![a] = "none"],
         UNCHANGED <<mem, disk, dirs, data, rollback, gate, readerVars, faultVars>>
  PROVE  FilesInv'
<1> USE DEF FilesInv, readerVars, faultVars
<1>1. TypeOK' /\ IsFiniteSet(slots)'
  <2>1. run' \in [Analyses -> Places \cup DOMAIN AfterCommit]
    BY GoType DEF Places
  <2>2. proc' \in [Analyses -> {"none", "running", "read", "done", "failed"}]
    BY DEF TypeOK
  <2> QED
    BY <2>1 DEF TypeOK, Places
<1>2. GateInv'
  BY DEF GateInv, Go, Commanding
<1>3. StartInv'
  BY DEF StartInv
<1>4. ProcInv'
  BY DEF ProcInv, Go, TypeOK
<1>5. RecordInv(mem)' /\ RecordInv(disk)' /\ RollbackInv' /\ NewInv'
  BY DEF RecordInv, RollbackInv, NewInv, Go
<1>6. StageInv(mem)' /\ StageInv(disk)'
  BY DEF StageInv, InputsAreThere, ParentIsReadable, Go, TypeOK
<1>7. LeftInv'
  BY DEF LeftInv, Unclean, Go
<1>8. ReaderInv'
  BY DEF ReaderInv
<1> QED
  BY <1>1, <1>2, <1>3, <1>4, <1>5, <1>6, <1>7, <1>8

\* A command begins, for a runner or for a user.
LEMMA CommandBegins ==
  ASSUME FilesInv, Open, NEW who \in Analyses \cup {User}, Hold(who, "commit"),
         \/ who = User /\ UNCHANGED run
         \/ who \in Analyses /\ \E p \in Commanding : Go(who, p),
         UNCHANGED <<disk, readerVars, faultVars>>
  PROVE  /\ run' \in [Analyses -> Places \cup DOMAIN AfterCommit]
         /\ gate' \in [by : Analyses \cup Readers \cup {NoOne, User},
                       step : {"free", "commit", "collect", "undo", "read"}]
         /\ GateInv' /\ StartInv' /\ ReaderInv'
<1> USE DEF FilesInv, readerVars, faultVars
<1>1. run' \in [Analyses -> Places \cup DOMAIN AfterCommit]
  BY GoType DEF Places, TypeOK
<1>2. gate' \in [by : Analyses \cup Readers \cup {NoOne, User},
                 step : {"free", "commit", "collect", "undo", "read"}]
  BY DEF Hold
<1>3. GateInv'
  BY WhenOpen, NamesDiffer DEF GateInv, Go, Hold, TypeOK
<1>4. StartInv'
  BY WhenOpen DEF StartInv
<1>5. ReaderInv'
  BY DEF ReaderInv
<1> QED
  BY <1>1, <1>2, <1>3, <1>4, <1>5

\* A runner confirms that its worker has stopped.
LEMMA ConfirmStep ==
  ASSUME FilesInv, NEW a \in Analyses, Confirm(a)
  PROVE  FilesInv'
<1> USE DEF FilesInv, Confirm, readerVars, faultVars, commandVars, fileVars
<1>1. CASE ~(mem.state[a] = "running" /\ a \in mem.asked)
  BY <1>1, OnlyTheRunner DEF ProcInv
<1>2. CASE mem.state[a] = "running" /\ a \in mem.asked
  <2>1. Thins(mem', mem)
    BY <1>2, WhenOpen, EndsThins DEF Works, Working
  <2>2. /\ run' \in [Analyses -> Places \cup DOMAIN AfterCommit]
        /\ gate' \in [by : Analyses \cup Readers \cup {NoOne, User},
                      step : {"free", "commit", "collect", "undo", "read"}]
        /\ GateInv' /\ StartInv' /\ ReaderInv'
    BY <1>2, CommandBegins DEF Commanding
  <2>3. TypeOK' /\ IsFiniteSet(slots)'
    <3>1. mem' \in Graphs /\ rollback' \subseteq Analyses \X {"artifacts", "query", "data"}
      BY <2>1, WhenOpen DEF Thins
    <3>2. dirs' \in [Analyses -> SUBSET Entries] /\ data' \subseteq Analyses
          /\ proc' \in [Analyses -> {"none", "running", "read", "done", "failed"}]
      BY DEF TypeOK
    <3> QED
      BY <2>2, <3>1 DEF TypeOK, Places
  <2>4. ProcInv'
    BY DEF ProcInv, TypeOK, Go
  <2>5. RecordInv(mem)'
    <3>1. \A b \in Analyses : mem'.state[b] = "running" /\ ParentOf[b] \in Analyses => mem'.state[ParentOf[b]] = "succeeded"
      BY <2>1 DEF RecordInv, Works, Working, Thins
    <3>2. \A b \in Analyses \ hurt :
            /\ mem'.state[b] = "succeeded" /\ KindOf[b] = "table" => "artifacts" \in dirs'[b]
            /\ mem'.state[b] = "succeeded" /\ KindOf[b] = "preview" => "query" \in dirs'[b]
            /\ b \in mem'.blocks => b \in data'
      BY <2>1 DEF RecordInv, Thins
    <3> QED
      BY <3>1, <3>2 DEF RecordInv
  <2>6. RecordInv(disk)'
    BY DEF RecordInv
  <2>7. RollbackInv'
    BY WhenOpen DEF RollbackInv
  <2>8. StageInv(mem)'
    BY <2>1 DEF StageInv, InputsAreThere, ParentIsReadable, TypeOK, Go, Thins
  <2>9. StageInv(disk)'
    BY DEF StageInv, InputsAreThere, ParentIsReadable, TypeOK, Go
  <2>10. LeftInv'
    BY WhenOpen DEF LeftInv, Unclean, TypeOK, Go
  <2>11. NewInv'
    BY <2>1 DEF NewInv, TypeOK, Go, Thins
  <2> QED
    BY <2>2, <2>3, <2>4, <2>5, <2>6, <2>7, <2>8, <2>9, <2>10, <2>11
<1> QED
  BY <1>1, <1>2

\* A failure is recorded, under the gate.
LEMMA RecordFailureStep ==
  ASSUME FilesInv, NEW a \in Analyses, RecordFailure(a)
  PROVE  FilesInv'
<1> USE DEF FilesInv, RecordFailure, readerVars, faultVars, commandVars, fileVars
<1>1. CASE ~Works(mem, a)
  BY <1>1, OnlyTheRunner DEF TypeOK
<1>2. CASE Works(mem, a)
  <2>1. Thins(mem', mem)
    BY <1>2, WhenOpen, EndsThins
  <2>2. /\ run' \in [Analyses -> Places \cup DOMAIN AfterCommit]
        /\ gate' \in [by : Analyses \cup Readers \cup {NoOne, User},
                      step : {"free", "commit", "collect", "undo", "read"}]
        /\ GateInv' /\ StartInv' /\ ReaderInv'
    BY <1>2, CommandBegins DEF Commanding
  <2>3. TypeOK' /\ IsFiniteSet(slots)'
    <3>1. mem' \in Graphs /\ rollback' \subseteq Analyses \X {"artifacts", "query", "data"}
      BY <2>1, WhenOpen DEF Thins
    <3>2. dirs' \in [Analyses -> SUBSET Entries] /\ data' \subseteq Analyses
          /\ proc' \in [Analyses -> {"none", "running", "read", "done", "failed"}]
      BY DEF TypeOK
    <3> QED
      BY <2>2, <3>1 DEF TypeOK, Places
  <2>4. ProcInv'
    BY DEF ProcInv, TypeOK, Go
  <2>5. RecordInv(mem)'
    <3>1. \A b \in Analyses : mem'.state[b] = "running" /\ ParentOf[b] \in Analyses => mem'.state[ParentOf[b]] = "succeeded"
      BY <2>1 DEF RecordInv, Works, Working, Thins
    <3>2. \A b \in Analyses \ hurt :
            /\ mem'.state[b] = "succeeded" /\ KindOf[b] = "table" => "artifacts" \in dirs'[b]
            /\ mem'.state[b] = "succeeded" /\ KindOf[b] = "preview" => "query" \in dirs'[b]
            /\ b \in mem'.blocks => b \in data'
      BY <2>1 DEF RecordInv, Thins
    <3> QED
      BY <3>1, <3>2 DEF RecordInv
  <2>6. RecordInv(disk)'
    BY DEF RecordInv
  <2>7. RollbackInv'
    BY WhenOpen DEF RollbackInv
  <2>8. StageInv(mem)'
    BY <2>1 DEF StageInv, InputsAreThere, ParentIsReadable, TypeOK, Go, Thins
  <2>9. StageInv(disk)'
    BY DEF StageInv, InputsAreThere, ParentIsReadable, TypeOK, Go
  <2>10. LeftInv'
    BY WhenOpen DEF LeftInv, Unclean, TypeOK, Go
  <2>11. NewInv'
    BY <2>1 DEF NewInv, TypeOK, Go, Thins
  <2> QED
    BY <2>2, <2>3, <2>4, <2>5, <2>6, <2>7, <2>8, <2>9, <2>10, <2>11
<1> QED
  BY <1>1, <1>2

\* A record is admitted: its inputs are staged, or it is refused.
LEMMA AdmitStep ==
  ASSUME FilesInv, NEW a \in Analyses, Admit(a)
  PROVE  FilesInv'
<1> USE DEF FilesInv, Admit, readerVars, faultVars, commandVars, fileVars
<1>1. CASE mem.state[a] # "queued"
  BY <1>1, OnlyTheRunner
<1>2. CASE /\ mem.state[a] = "queued" /\ ParentHasResult(a) /\ ParentIsReadable(a)
           /\ MakeInput(a)
           /\ mem' = With(mem, a, "running") /\ Go(a, "launching")
  <2>1. /\ mem' \in Graphs /\ mem'.blocks = mem.blocks /\ mem'.state[a] = "running"
        /\ \A b \in Analyses : b # a => mem'.state[b] = mem.state[b]
      <3>1. "running" \in States
      BY DEF States
      <3> QED
      BY <1>2, <3>1, WhenOpen, WithState
  <2>2. /\ run' \in [Analyses -> Places \cup DOMAIN AfterCommit]
        /\ gate' \in [by : Analyses \cup Readers \cup {NoOne, User},
                      step : {"free", "commit", "collect", "undo", "read"}]
        /\ GateInv' /\ StartInv' /\ ReaderInv'
    BY <1>2, CommandBegins DEF Commanding
  <2>3. TypeOK' /\ IsFiniteSet(slots)'
    <3>1. mem' \in Graphs /\ rollback' \subseteq Analyses \X {"artifacts", "query", "data"}
      BY <2>1, WhenOpen
      <3>2. dirs' \in [Analyses -> SUBSET Entries] /\ data' \subseteq Analyses
          /\ proc' \in [Analyses -> {"none", "running", "read", "done", "failed"}]
      BY <1>2 DEF TypeOK, Entries, MakeInput
      <3> QED
      BY <2>2, <3>1, <3>2 DEF TypeOK, Places
  <2>4. ProcInv'
    BY <1>2 DEF ProcInv, Go
  <2>5. RecordInv(mem)'
    <3>1. ASSUME NEW b \in Analyses, mem'.state[b] = "running", ParentOf[b] \in Analyses
          PROVE  mem'.state[ParentOf[b]] = "succeeded"
      <4>1. ParentOf[a] # a
        BY KindsAreKnown
      <4>2. CASE b = a
        BY <1>2, <2>1, <3>1, <4>1, <4>2 DEF ParentHasResult
      <4>3. CASE b # a
        BY <1>2, <2>1, <3>1, <4>3 DEF RecordInv
      <4> QED
        BY <4>2, <4>3
    <3>2. \A b \in Analyses \ hurt :
            /\ mem'.state[b] = "succeeded" /\ KindOf[b] = "table" => "artifacts" \in dirs'[b]
            /\ mem'.state[b] = "succeeded" /\ KindOf[b] = "preview" => "query" \in dirs'[b]
            /\ b \in mem'.blocks => b \in data'
      BY <1>2, <2>1 DEF RecordInv, MakeInput
    <3> QED
      BY <3>1, <3>2 DEF RecordInv
  <2>6. RecordInv(disk)'
    BY <1>2 DEF RecordInv, MakeInput
  <2>7. RollbackInv'
    BY WhenOpen DEF RollbackInv
  <2>8. StageInv(mem)'
    BY <1>2, <2>1 DEF StageInv, InputsAreThere, ParentIsReadable, TypeOK, Go, MakeInput
  <2>9. StageInv(disk)'
    BY <1>2, WhenOpen DEF StageInv, InputsAreThere, ParentIsReadable, Go, MakeInput
  <2>10. LeftInv'
    BY <1>2, WhenOpen DEF LeftInv, Go, Owned, Works, Working, MakeInput
  <2>11. NewInv'
    BY <1>2, <2>1 DEF NewInv, Go
  <2> QED
    BY <2>2, <2>3, <2>4, <2>5, <2>6, <2>7, <2>8, <2>9, <2>10, <2>11
<1>3. CASE /\ mem.state[a] = "queued" /\ RemoveStage(a)
           /\ Ends(a, With(mem, a, "failed")) /\ Go(a, "refusing")
  <2>1. Thins(mem', mem)
    BY <1>3, WhenOpen, EndsThins DEF Works, Working
  <2>2. /\ run' \in [Analyses -> Places \cup DOMAIN AfterCommit]
        /\ gate' \in [by : Analyses \cup Readers \cup {NoOne, User},
                      step : {"free", "commit", "collect", "undo", "read"}]
        /\ GateInv' /\ StartInv' /\ ReaderInv'
    BY <1>3, CommandBegins DEF Commanding
  <2>3. TypeOK' /\ IsFiniteSet(slots)'
    <3>1. mem' \in Graphs /\ rollback' \subseteq Analyses \X {"artifacts", "query", "data"}
      BY <2>1, WhenOpen DEF Thins
    <3>2. dirs' \in [Analyses -> SUBSET Entries] /\ data' \subseteq Analyses
          /\ proc' \in [Analyses -> {"none", "running", "read", "done", "failed"}]
      BY <1>3 DEF TypeOK, RemoveStage
    <3> QED
      BY <2>2, <3>1, <3>2 DEF TypeOK, Places
  <2>4. ProcInv'
    BY <1>3 DEF ProcInv, Go
  <2>5. RecordInv(mem)'
    <3>1. \A b \in Analyses : mem'.state[b] = "running" /\ ParentOf[b] \in Analyses => mem'.state[ParentOf[b]] = "succeeded"
      BY <2>1 DEF RecordInv, Works, Working, Thins
    <3>2. \A b \in Analyses \ hurt :
            /\ mem'.state[b] = "succeeded" /\ KindOf[b] = "table" => "artifacts" \in dirs'[b]
            /\ mem'.state[b] = "succeeded" /\ KindOf[b] = "preview" => "query" \in dirs'[b]
            /\ b \in mem'.blocks => b \in data'
      BY <1>3, <2>1 DEF RecordInv, RemoveStage, Thins
    <3> QED
      BY <3>1, <3>2 DEF RecordInv
  <2>6. RecordInv(disk)'
    BY <1>3 DEF RecordInv, RemoveStage
  <2>7. RollbackInv'
    BY WhenOpen DEF RollbackInv
  <2>8. StageInv(mem)'
    BY <1>3, <2>1 DEF StageInv, InputsAreThere, ParentIsReadable, Go, RemoveStage, Thins
  <2>9. StageInv(disk)'
    BY <1>3 DEF StageInv, InputsAreThere, ParentIsReadable, Go, RemoveStage
  <2>10. LeftInv'
    BY <1>3, WhenOpen DEF LeftInv, Unclean, Go, RemoveStage
  <2>11. NewInv'
    BY <1>3, <2>1 DEF NewInv, Go, Thins
  <2> QED
    BY <2>2, <2>3, <2>4, <2>5, <2>6, <2>7, <2>8, <2>9, <2>10, <2>11
<1> QED
  BY <1>1, <1>2, <1>3

\* A record is submitted, on a source or on a parent.
LEMMA SubmitStep ==
  ASSUME FilesInv, NEW a \in Analyses, Submit(a)
  PROVE  FilesInv'
<1> USE DEF FilesInv, readerVars, faultVars, fileVars
<1>a. /\ Open /\ run[a] = "new" /\ Go(a, "submitting") /\ Hold(a, "commit")
      /\ UNCHANGED <<disk, fileVars, rollback, proc, readerVars, faultVars>>
  BY DEF Submit
<1>1. /\ mem' \in Graphs /\ mem'.blocks = mem.blocks /\ mem'.state[a] = "queued"
      /\ \A b \in Analyses : b # a => mem'.state[b] = mem.state[b]
      /\ ParentOf[a] # a /\ \A b \in Analyses : ParentOf[b] = a => mem.state[b] # "running"
  <2> DEFINE g == With(mem, a, "queued")
  <2>1. g \in Graphs /\ g.blocks = mem.blocks /\ g.state[a] = "queued" /\ g.linked = mem.linked
        /\ \A b \in Analyses : b # a => g.state[b] = mem.state[b]
    <3>1. "queued" \in States
      BY DEF States
    <3> QED
      BY <1>a, <3>1, WhenOpen, WithState
  <2>2. mem' = [g EXCEPT !.linked = @ \cup {a}]
    BY DEF Submit
  <2>3. \A b \in Analyses : ParentOf[b] = a => mem.state[b] # "running"
    BY <1>a DEF NewInv, RecordInv
  <2> HIDE DEF g
  <2>4. mem' \in Graphs /\ mem'.blocks = g.blocks /\ mem'.state = g.state
    BY <2>1, <2>2 DEF Graphs
  <2> QED
    BY <2>1, <2>3, <2>4, KindsAreKnown
<1>2. /\ run' \in [Analyses -> Places \cup DOMAIN AfterCommit]
      /\ gate' \in [by : Analyses \cup Readers \cup {NoOne, User},
                    step : {"free", "commit", "collect", "undo", "read"}]
      /\ GateInv' /\ StartInv' /\ ReaderInv'
  BY <1>a, CommandBegins DEF Commanding
<1>3. TypeOK' /\ IsFiniteSet(slots)'
  <2>1. mem' \in Graphs /\ rollback' \subseteq Analyses \X {"artifacts", "query", "data"}
    BY <1>a, <1>1, WhenOpen
  <2>2. dirs' \in [Analyses -> SUBSET Entries] /\ data' \subseteq Analyses
        /\ proc' \in [Analyses -> {"none", "running", "read", "done", "failed"}]
    BY <1>a DEF TypeOK
  <2> QED
    BY <1>a, <1>2, <2>1 DEF TypeOK, Places
<1>4. ProcInv'
  BY <1>a DEF ProcInv, Go
<1>5. RecordInv(mem)'
  <2>1. ASSUME NEW b \in Analyses, mem'.state[b] = "running", ParentOf[b] \in Analyses
        PROVE  mem'.state[ParentOf[b]] = "succeeded"
    <3>1. CASE b = a
      BY <1>a, <1>1, <2>1, <3>1
    <3>2. CASE b # a
      <4>1. mem.state[b] = "running"
        BY <1>1, <2>1, <3>2
      <4>2. ParentOf[b] # a /\ mem.state[ParentOf[b]] = "succeeded"
        BY <1>1, <2>1, <4>1 DEF RecordInv
      <4> QED
        BY <1>1, <2>1, <4>2
    <3> QED
      BY <3>1, <3>2
  <2>2. \A b \in Analyses \ hurt :
          /\ mem'.state[b] = "succeeded" /\ KindOf[b] = "table" => "artifacts" \in dirs'[b]
          /\ mem'.state[b] = "succeeded" /\ KindOf[b] = "preview" => "query" \in dirs'[b]
          /\ b \in mem'.blocks => b \in data'
    BY <1>a, <1>1 DEF RecordInv
  <2> QED
    BY <1>a, <2>1, <2>2 DEF RecordInv
<1>6. RecordInv(disk)'
  BY <1>a DEF RecordInv
<1>7. RollbackInv'
  BY <1>a, WhenOpen DEF RollbackInv
<1>8. StageInv(mem)'
  BY <1>a, <1>1 DEF StageInv, InputsAreThere, ParentIsReadable, Go
<1>9. StageInv(disk)'
  BY <1>a DEF StageInv, InputsAreThere, ParentIsReadable, Go
<1>10. LeftInv'
  BY <1>a, WhenOpen DEF LeftInv, Unclean, Go
<1>11. NewInv'
  BY <1>a, <1>1 DEF NewInv, TypeOK, Go
<1> QED
  BY <1>2, <1>3, <1>4, <1>5, <1>6, <1>7, <1>8, <1>9, <1>10, <1>11

-----------------------------------------------------------------------------
(* Publications.                                                           *)

\* What the publication of a result does to the files.
LEMMA PublishIs ==
  ASSUME TypeOK, NEW a \in Analyses, Publish(a)
  PROVE  \E e \in {"artifacts", "query", "data"} :
           /\ rollback' = {<<a, e>>}
           /\ KindOf[a] = CASE e = "artifacts" -> "table" [] e = "query" -> "preview"
                            [] OTHER -> "block"
           /\ e = "data" => a \notin mem.blocks /\ data' = data \cup {a} /\ dirs' = dirs
           /\ e # "data" => data' = data /\ e \in dirs'[a]
           /\ dirs' \in [Analyses -> SUBSET Entries]
           /\ \A b \in Analyses : b # a => dirs'[b] = dirs[b]
           /\ \A d \in Entries : d \in dirs'[a] => d = e \/ d \in dirs[a]
           /\ \A d \in Entries : d \in dirs[a] /\ d # "output" => d \in dirs'[a]
<1>1. CASE PublishArtifacts(a)
  BY <1>1 DEF PublishArtifacts, TypeOK, Entries
<1>2. CASE PublishDataBlock(a)
  BY <1>2 DEF PublishDataBlock, BlockIsValid, TypeOK
<1>3. CASE PublishQueryInput(a)
  BY <1>3 DEF PublishQueryInput, TypeOK, Entries
<1> QED
  BY <1>1, <1>2, <1>3 DEF Publish

\* What a success does to the records: its own, and those that it supersedes.
LEMMA SuccessIs ==
  ASSUME mem \in Graphs, NEW a \in Analyses, Ends(a, Succeeded(a))
  PROVE  \E g \in Graphs :
           /\ g.state[a] = "succeeded"
           /\ \A b \in Analyses : b # a => g.state[b] = mem.state[b]
           /\ g.blocks = mem.blocks \cup (IF KindOf[a] = "block" THEN {a} ELSE {})
           /\ Thins(mem', g)
<1> DEFINE own == With(mem, a, "succeeded")
           blk == IF KindOf[a] = "block" THEN [own EXCEPT !.blocks = @ \cup {a}] ELSE own
           rest == Without(blk, UNION {Tree(b) : b \in Replaces[a]})
<1>1. /\ own \in Graphs /\ own.blocks = mem.blocks /\ own.state[a] = "succeeded"
      /\ \A b \in Analyses : b # a => own.state[b] = mem.state[b]
  <2>1. "succeeded" \in States
    BY DEF States
  <2> QED
    BY <2>1, WithState
<1>2. /\ blk \in Graphs /\ blk.state = own.state
      /\ blk.blocks = mem.blocks \cup (IF KindOf[a] = "block" THEN {a} ELSE {})
  <2> HIDE DEF own
  <2> QED
    BY <1>1 DEF Graphs
<1>3. Succeeded(a) = rest
  BY DEF Succeeded
<1> HIDE DEF own, blk
<1>4. Replaces[a] \in SUBSET Analyses
  BY KindsAreKnown
<1>5. Thins(rest, blk)
  BY <1>2, <1>4, TreesThin
<1>6. rest \in Graphs
  BY <1>5 DEF Thins
<1> HIDE DEF rest
<1>7. Thins(mem', rest) /\ mem' \in Graphs
  BY <1>3, <1>6, RootIsThere, DropEndedThins DEF Ends
<1>8. Thins(mem', blk)
  BY <1>2, <1>5, <1>6, <1>7, ThinsAgain
<1> QED
  BY <1>1, <1>2, <1>8

\* A result is published: the files first, then the records.
LEMMA PublishStep ==
  ASSUME FilesInv, NEW a \in Analyses, Open, run[a] = "executing", mem.state[a] = "running",
         proc' = [proc EXCEPT ![a] = "none"], Go(a, "completing"), Hold(a, "commit"),
         Publish(a), Ends(a, Succeeded(a)), UNCHANGED <<disk, readerVars, faultVars>>
  PROVE  FilesInv'
<1> USE DEF FilesInv, readerVars, faultVars
<1>1. PICK e \in {"artifacts", "query", "data"} :
           /\ rollback' = {<<a, e>>}
           /\ KindOf[a] = CASE e = "artifacts" -> "table" [] e = "query" -> "preview"
                            [] OTHER -> "block"
           /\ e = "data" => a \notin mem.blocks /\ data' = data \cup {a} /\ dirs' = dirs
           /\ e # "data" => data' = data /\ e \in dirs'[a]
           /\ dirs' \in [Analyses -> SUBSET Entries]
           /\ \A b \in Analyses : b # a => dirs'[b] = dirs[b]
           /\ \A d \in Entries : d \in dirs'[a] => d = e \/ d \in dirs[a]
           /\ \A d \in Entries : d \in dirs[a] /\ d # "output" => d \in dirs'[a]
  BY PublishIs
<1>2. PICK g \in Graphs :
           /\ g.state[a] = "succeeded"
           /\ \A b \in Analyses : b # a => g.state[b] = mem.state[b]
           /\ g.blocks = mem.blocks \cup (IF KindOf[a] = "block" THEN {a} ELSE {})
           /\ Thins(mem', g)
  BY WhenOpen, SuccessIs
<1>3. /\ mem' \in Graphs /\ mem'.blocks = g.blocks
      /\ \A b \in Analyses : Works(mem', b) => b # a /\ Works(mem, b)
                                               /\ mem'.state[b] = mem.state[b]
      /\ \A b \in Analyses : b # a /\ mem'.state[b] = "succeeded" => mem.state[b] = "succeeded"
  BY <1>2 DEF Thins, Works, Working
<1>4. \A b \in Analyses : ParentOf[b] = a => mem.state[b] # "running"
  BY DEF RecordInv
<1>5. /\ run' \in [Analyses -> Places \cup DOMAIN AfterCommit]
      /\ gate' \in [by : Analyses \cup Readers \cup {NoOne, User},
                    step : {"free", "commit", "collect", "undo", "read"}]
      /\ GateInv' /\ StartInv' /\ ReaderInv'
  BY CommandBegins DEF Commanding
<1>6. TypeOK' /\ IsFiniteSet(slots)'
  <2>1. rollback' \subseteq Analyses \X {"artifacts", "query", "data"}
    BY <1>1
  <2>2. data' \subseteq Analyses /\ proc' \in [Analyses -> {"none", "running", "read", "done", "failed"}]
    BY <1>1 DEF TypeOK
  <2> QED
    BY <1>1, <1>3, <1>5, <2>1 DEF TypeOK, Places
<1>7. ProcInv'
  BY DEF ProcInv, TypeOK, Go
<1>8. RecordInv(mem)'
  <2>1. ASSUME NEW b \in Analyses, mem'.state[b] = "running", ParentOf[b] \in Analyses
        PROVE  mem'.state[ParentOf[b]] = "succeeded"
    <3>1. mem.state[b] = "running" /\ ParentOf[b] # a
      BY <1>3, <1>4, <2>1 DEF Works, Working
    <3>2. g.state[ParentOf[b]] = "succeeded"
      BY <1>2, <2>1, <3>1 DEF RecordInv
    <3> QED
      BY <1>2, <2>1, <3>2 DEF Thins
  <2>2. ASSUME NEW b \in Analyses \ hurt
        PROVE  /\ mem'.state[b] = "succeeded" /\ KindOf[b] = "table" => "artifacts" \in dirs'[b]
               /\ mem'.state[b] = "succeeded" /\ KindOf[b] = "preview" => "query" \in dirs'[b]
               /\ b \in mem'.blocks => b \in data'
    <3>1. CASE b = a
      BY <1>1, <1>2, <1>3 DEF RecordInv
    <3>2. CASE b # a
      BY <1>1, <1>2, <1>3 DEF RecordInv
    <3> QED
      BY <3>1, <3>2
  <2> QED
    BY <2>1, <2>2 DEF RecordInv
<1>9. RecordInv(disk)'
  BY <1>1 DEF RecordInv
<1>10. RollbackInv'
  <2>1. \A b \in Analyses : mem'.state[b] = "running" => mem.state[b] = "running"
    BY <1>3 DEF Works, Working
  <2> QED
    BY <1>1, <1>4, <2>1, WhenOpen DEF RollbackInv
<1>11. StageInv(mem)'
  <2>1. ASSUME NEW b \in Analyses, mem'.state[b] = "running"
        PROVE  b # a /\ mem.state[b] = "running" /\ run'[b] = run[b] /\ proc'[b] = proc[b]
    BY <1>3, <2>1 DEF Works, Working, Go
  <2>2. \A b \in Analyses : InputsAreThere(b) => InputsAreThere(b)'
    BY <1>1 DEF InputsAreThere, ParentIsReadable, Entries
  <2> QED
    BY <2>1, <2>2 DEF StageInv
<1>12. StageInv(disk)'
  BY <1>1 DEF StageInv, InputsAreThere, ParentIsReadable, TypeOK, Go
<1>13. LeftInv'
  <2>1. ASSUME ~messy, NEW b \in Analyses, NEW d \in dirs'[b]
        PROVE  \/ Owned(disk, b, d)
               \/ <<b, d>> \in rollback'
               \/ d \in {"input", "output"} /\ (run'[b] \in Unclean \/ b \in orphans)
    BY <1>1, <2>1, WhenOpen DEF LeftInv, Unclean, TypeOK, Go
  <2>2. ASSUME ~messy, NEW b \in data'
        PROVE  b \in disk.blocks \/ <<b, "data">> \in rollback'
    <3>1. b \in data \/ <<b, "data">> \in rollback'
      BY <1>1
    <3>2. b \in data => b \in disk.blocks
      BY <2>2, WhenOpen DEF LeftInv
    <3> QED
      BY <3>1, <3>2
  <2> QED
    BY <2>1, <2>2 DEF LeftInv
<1>14. NewInv'
  BY <1>2 DEF NewInv, Go, Thins
<1> QED
  BY <1>5, <1>6, <1>7, <1>8, <1>9, <1>10, <1>11, <1>12, <1>13, <1>14

\* A worker that has written completes its record.
LEMMA CompleteStep ==
  ASSUME FilesInv, NEW a \in Analyses, Complete(a)
  PROVE  FilesInv'
<1> USE DEF FilesInv, Complete, readerVars, faultVars, commandVars, fileVars
<1>1. CASE mem.state[a] # "running"
  BY <1>1, OnlyTheRunner DEF TypeOK
<1>2. CASE /\ mem.state[a] = "running" /\ UNCHANGED <<fileVars, rollback>>
           /\ Go(a, "completing") /\ Hold(a, "commit")
           /\ \E s \in {"failed", "cancelled"} : Ends(a, With(mem, a, s))
  <2>1. Thins(mem', mem)
    BY <1>2, WhenOpen, EndsThins DEF Works, Working
  <2>2. /\ run' \in [Analyses -> Places \cup DOMAIN AfterCommit]
        /\ gate' \in [by : Analyses \cup Readers \cup {NoOne, User},
                      step : {"free", "commit", "collect", "undo", "read"}]
        /\ GateInv' /\ StartInv' /\ ReaderInv'
    BY <1>2, CommandBegins DEF Commanding
  <2>3. TypeOK' /\ IsFiniteSet(slots)'
    <3>1. mem' \in Graphs /\ rollback' \subseteq Analyses \X {"artifacts", "query", "data"}
      BY <1>2, <2>1, WhenOpen DEF Thins
    <3>2. dirs' \in [Analyses -> SUBSET Entries] /\ data' \subseteq Analyses
          /\ proc' \in [Analyses -> {"none", "running", "read", "done", "failed"}]
      BY <1>2 DEF TypeOK
    <3> QED
      BY <1>2, <2>2, <3>1 DEF TypeOK, Places
  <2>4. ProcInv'
    BY <1>2 DEF ProcInv, Go
  <2>5. RecordInv(mem)'
    <3>1. \A b \in Analyses : mem'.state[b] = "running" /\ ParentOf[b] \in Analyses => mem'.state[ParentOf[b]] = "succeeded"
      BY <2>1 DEF RecordInv, Works, Working, Thins
    <3>2. \A b \in Analyses \ hurt :
            /\ mem'.state[b] = "succeeded" /\ KindOf[b] = "table" => "artifacts" \in dirs'[b]
            /\ mem'.state[b] = "succeeded" /\ KindOf[b] = "preview" => "query" \in dirs'[b]
            /\ b \in mem'.blocks => b \in data'
      BY <1>2, <2>1 DEF RecordInv, Thins
    <3> QED
      BY <3>1, <3>2 DEF RecordInv
  <2>6. RecordInv(disk)'
    BY <1>2 DEF RecordInv
  <2>7. RollbackInv'
    BY <1>2, WhenOpen DEF RollbackInv
  <2>8. StageInv(mem)'
    BY <1>2, <2>1 DEF StageInv, InputsAreThere, ParentIsReadable, Go, Thins
  <2>9. StageInv(disk)'
    BY <1>2 DEF StageInv, InputsAreThere, ParentIsReadable, Go
  <2>10. LeftInv'
    BY <1>2, WhenOpen DEF LeftInv, Unclean, Go
  <2>11. NewInv'
    BY <1>2, <2>1 DEF NewInv, Go, Thins
  <2> QED
    BY <2>2, <2>3, <2>4, <2>5, <2>6, <2>7, <2>8, <2>9, <2>10, <2>11
<1>3. CASE /\ mem.state[a] = "running" /\ Go(a, "completing") /\ Hold(a, "commit")
           /\ Publish(a) /\ Ends(a, Succeeded(a))
  BY <1>3, PublishStep
<1> QED
  BY <1>1, <1>2, <1>3 DEF UnwindPublication

-----------------------------------------------------------------------------
(* The gate, a crash and the start.                                        *)

\* Where a command leaves its runner.
LEMMA AfterIs ==
  /\ AfterCommit["submitting"] = "waiting" /\ AfterCommit["launching"] = "executing"
  /\ AfterCommit["refusing"] = "over" /\ AfterCommit["reporting"] = "stopping"
  /\ AfterCommit["completing"] = "cleaning" /\ AfterCommit["recording"] = "cleaning"
  /\ AfterCommit["lastRecording"] = "over"
  /\ AfterUndo["submitting"] = "over" /\ AfterUndo["launching"] = "falling"
  /\ AfterUndo["refusing"] = "falling" /\ AfterUndo["reporting"] = "executing"
  /\ AfterUndo["completing"] = "clearing" /\ AfterUndo["recording"] = "clearing"
  /\ AfterUndo["lastRecording"] = "over"
<1>1. /\ AfterCommit["submitting"] = "waiting" /\ AfterCommit["launching"] = "executing"
      /\ AfterCommit["refusing"] = "over" /\ AfterCommit["reporting"] = "stopping"
      /\ AfterCommit["completing"] = "cleaning" /\ AfterCommit["recording"] = "cleaning"
      /\ AfterCommit["lastRecording"] = "over"
  BY DEF AfterCommit
<1>2. /\ AfterUndo["submitting"] = "over" /\ AfterUndo["launching"] = "falling"
      /\ AfterUndo["refusing"] = "falling" /\ AfterUndo["reporting"] = "executing"
      /\ AfterUndo["completing"] = "clearing" /\ AfterUndo["recording"] = "clearing"
      /\ AfterUndo["lastRecording"] = "over"
  BY DEF AfterUndo
<1> QED
  BY <1>1, <1>2

\* Between the beginning and the end of a command.
LEMMA UnderCommand ==
  ASSUME FilesInv, gate.step \in {"commit", "undo", "collect"}
  PROVE  /\ up = "up" /\ gate.by \in Analyses \cup {User} /\ gate.by # NoOne
         /\ \A r \in Readers : reader[r].at \notin Inside
BY NamesDiffer DEF FilesInv, TypeOK, GateInv, StartInv

\* The gate goes from one step of a command to the next.
LEMMA NextStep ==
  ASSUME FilesInv, NEW step \in {"undo", "collect"}, gate.step = "commit", Hold(gate.by, step),
         UNCHANGED <<run, reader>>, step = "collect" => rollback' = {} /\ mem' = disk'
  PROVE  /\ gate' \in [by : Analyses \cup Readers \cup {NoOne, User},
                       step : {"free", "commit", "collect", "undo", "read"}]
         /\ GateInv'
BY NamesDiffer DEF FilesInv, TypeOK, GateInv, Hold

\* The records are committed.
LEMMA CommitStep ==
  ASSUME FilesInv, Commit
  PROVE  FilesInv'
<1> USE DEF FilesInv, Commit, readerVars, faultVars, fileVars
<1>1. gate' \in [by : Analyses \cup Readers \cup {NoOne, User},
                 step : {"free", "commit", "collect", "undo", "read"}]
      /\ GateInv'
  BY NextStep
<1>2. TypeOK' /\ IsFiniteSet(slots)'
  BY <1>1 DEF TypeOK
<1>3. StartInv' /\ ProcInv' /\ NewInv'
  BY UnderCommand DEF StartInv, ProcInv, NewInv
<1>4. RecordInv(mem)' /\ RecordInv(disk)'
  BY DEF RecordInv, Works
<1>5. RollbackInv'
  BY DEF RollbackInv
<1>6. StageInv(mem)' /\ StageInv(disk)'
  BY DEF StageInv, InputsAreThere, ParentIsReadable
<1>7. LeftInv'
  BY DEF LeftInv, Hold
<1>8. ReaderInv'
  BY UnderCommand DEF ReaderInv, Inside
<1> QED
  BY <1>1, <1>2, <1>3, <1>4, <1>5, <1>6, <1>7, <1>8

\* The commit fails: the former records come back.
LEMMA CommitFailsStep ==
  ASSUME FilesInv, CommitFails
  PROVE  FilesInv'
<1> USE DEF FilesInv, readerVars, faultVars, fileVars, commandVars
<1>a. /\ gate.step = "commit" /\ Hold(gate.by, "undo") /\ faults' = faults + 1
      /\ faults < MaxDisturbances
      /\ UNCHANGED <<commandVars, fileVars, run, proc, readerVars, up, orphans>>
      /\ \/ UNCHANGED <<disk, hurt, messy>>
         \/ disk' = mem /\ hurt' = hurt \cup {p[1] : p \in rollback} /\ messy' = TRUE
  BY DEF CommitFails
<1>1. gate' \in [by : Analyses \cup Readers \cup {NoOne, User},
                 step : {"free", "commit", "collect", "undo", "read"}]
      /\ GateInv'
  BY <1>a, NextStep
<1>b. /\ disk' \in {disk, mem}
      /\ hurt \subseteq hurt' /\ hurt' \subseteq Analyses
      /\ messy' \in BOOLEAN
  <2>1. \A p \in rollback : p[1] \in Analyses
    BY DEF TypeOK
  <2>2. hurt \subseteq hurt' /\ hurt' \subseteq Analyses
    BY <1>a, <2>1 DEF TypeOK
  <2>3. messy' \in BOOLEAN
    BY <1>a DEF TypeOK
  <2> QED
    BY <1>a, <2>2, <2>3
<1>2. TypeOK' /\ IsFiniteSet(slots)'
  <2>1. faults' \in 0 .. MaxDisturbances
    BY <1>a, KindsAreKnown DEF TypeOK
  <2>2. mem' \in Graphs /\ disk' \in Graphs
    BY <1>a, <1>b DEF TypeOK
  <2>3. UNCHANGED <<dirs, data, rollback, run, proc, reader, copies, rooms, slots, lost, up, orphans>>
    BY <1>a
  <2> QED
    BY <1>b, <1>1, <2>1, <2>2, <2>3 DEF TypeOK
<1>3. StartInv' /\ ProcInv' /\ NewInv'
  BY <1>a, <1>b, UnderCommand DEF StartInv, ProcInv, NewInv
<1>4. RecordInv(mem)' /\ RecordInv(disk)'
  BY <1>a, <1>b DEF RecordInv, Works
<1>5. RollbackInv'
  BY <1>a, <1>b DEF RollbackInv, Works
<1>6. StageInv(mem)' /\ StageInv(disk)'
  BY <1>a, <1>b DEF StageInv, InputsAreThere, ParentIsReadable
<1>7. LeftInv'
  BY <1>a DEF LeftInv, Hold
<1>8. ReaderInv'
  BY <1>a, UnderCommand DEF ReaderInv, Inside
<1> QED
  BY <1>1, <1>2, <1>3, <1>4, <1>5, <1>6, <1>7, <1>8

\* The end of a command sends its runner on, and frees the gate.
LEMMA Returns ==
  ASSUME FilesInv, gate.step \in {"undo", "collect"}, NEW after \in {AfterCommit, AfterUndo},
         ReturnTo(after), Free, UNCHANGED readerVars, mem' = disk', rollback' = {}
  PROVE  /\ run' \in [Analyses -> Places \cup DOMAIN AfterCommit]
         /\ proc' \in [Analyses -> {"none", "running", "read", "done", "failed"}]
         /\ \A a \in Analyses : gate.by # a =>
              run'[a] = run[a] /\ proc'[a] = proc[a] /\ run[a] \notin Commanding
         /\ \A a \in Analyses : gate.by = a =>
              /\ run[a] \in Commanding /\ run'[a] = after[run[a]]
              /\ proc'[a] = IF run[a] = "launching" /\ after = AfterCommit THEN "running"
                            ELSE IF run[a] = "reporting" /\ after = AfterUndo THEN "failed"
                            ELSE proc[a]
         /\ \A a \in Analyses : run'[a] \notin Commanding
         /\ GateInv'
         /\ gate' = [by |-> NoOne, step |-> "free"]
<1> USE DEF FilesInv, readerVars
<1>0. \A p \in Commanding : after[p] \in Places \ {"new"} /\ after[p] \notin Commanding
  BY AfterIs DEF Commanding, Places
<1>1. \A a \in Analyses : gate.by = a <=> run[a] \in Commanding
  BY DEF GateInv
<1>2. CASE gate.by \in Analyses
  <2> DEFINE b == gate.by
  <2>1. run' = [run EXCEPT ![b] = after[run[b]]] /\ run[b] \in Commanding
    BY <1>1, <1>2 DEF ReturnTo, Go
  <2>2. proc' = [proc EXCEPT ![b] = IF run[b] = "launching" /\ after = AfterCommit THEN "running"
                            ELSE IF run[b] = "reporting" /\ after = AfterUndo THEN "failed"
                            ELSE proc[b]]
    BY <1>2 DEF ReturnTo, TypeOK
  <2> HIDE DEF b
  <2>3. /\ run' \in [Analyses -> Places \cup DOMAIN AfterCommit]
        /\ proc' \in [Analyses -> {"none", "running", "read", "done", "failed"}]
    BY <1>0, <2>1, <2>2 DEF TypeOK, Places
  <2>4. \A a \in Analyses : b # a => run'[a] = run[a] /\ proc'[a] = proc[a] /\ run[a] \notin Commanding
    BY <1>1, <2>1, <2>2 DEF TypeOK, b
  <2>5. \A a \in Analyses : b = a =>
              /\ run[a] \in Commanding /\ run'[a] = after[run[a]]
              /\ proc'[a] = IF run[a] = "launching" /\ after = AfterCommit THEN "running"
                            ELSE IF run[a] = "reporting" /\ after = AfterUndo THEN "failed"
                            ELSE proc[a]
    BY <2>1, <2>2 DEF TypeOK
  <2>6. \A a \in Analyses : run'[a] \notin Commanding
    BY <1>0, <2>4, <2>5
  <2>7. GateInv'
    BY <2>6, UnderCommand, NamesDiffer DEF GateInv, Free
  <2> QED
    BY <2>3, <2>4, <2>5, <2>6, <2>7 DEF b, Free
<1>3. CASE gate.by \notin Analyses
  <2>1. UNCHANGED <<run, proc>> /\ \A a \in Analyses : run[a] \notin Commanding
    BY <1>1, <1>3 DEF ReturnTo
  <2>2. GateInv'
    BY <2>1, UnderCommand, NamesDiffer DEF GateInv, Free
  <2> QED
    BY <1>3, <2>1, <2>2 DEF TypeOK, Places, Free
<1> QED
  BY <1>2, <1>3

\* What was published for records that were not committed is removed.
LEMMA UndoStep ==
  ASSUME FilesInv, Undo
  PROVE  FilesInv'
<1> USE DEF FilesInv, readerVars, faultVars
<1>a. /\ gate.step = "undo" /\ mem' = disk /\ rollback' = {}
      /\ UNCHANGED <<disk, readerVars, faultVars>>
      /\ dirs' \in [Analyses -> SUBSET Entries] /\ data' \subseteq data
      /\ \A a \in Analyses : \A e : e \in dirs'[a] <=> e \in dirs[a] /\ <<a, e>> \notin rollback
      /\ \A a \in data : a \in data' <=> <<a, "data">> \notin rollback
  BY DEF Undo, TypeOK
<1>b. /\ ReturnTo(AfterUndo) /\ Free
  BY DEF Undo
<1>c. AfterUndo # AfterCommit
  <2>1. AfterUndo["submitting"] = "over" /\ AfterCommit["submitting"] = "waiting"
    BY AfterIs
  <2> QED
    BY <2>1
<1>1. /\ run' \in [Analyses -> Places \cup DOMAIN AfterCommit]
      /\ proc' \in [Analyses -> {"none", "running", "read", "done", "failed"}]
      /\ \A a \in Analyses : gate.by # a =>
           run'[a] = run[a] /\ proc'[a] = proc[a] /\ run[a] \notin Commanding
      /\ \A a \in Analyses : gate.by = a =>
           /\ run[a] \in Commanding /\ run'[a] = AfterUndo[run[a]]
           /\ proc'[a] = IF run[a] = "reporting" THEN "failed" ELSE proc[a]
      /\ \A a \in Analyses : run'[a] \notin Commanding
      /\ GateInv' /\ gate' = [by |-> NoOne, step |-> "free"]
  BY <1>a, <1>b, <1>c, Returns
<1>2. TypeOK' /\ IsFiniteSet(slots)'
  <2>1. gate' \in [by : Analyses \cup Readers \cup {NoOne, User},
                   step : {"free", "commit", "collect", "undo", "read"}]
    BY <1>1
  <2>2. data' \subseteq Analyses /\ rollback' \subseteq Analyses \X {"artifacts", "query", "data"}
        /\ mem' \in Graphs
    BY <1>a DEF TypeOK
  <2> QED
    BY <1>a, <1>1, <2>1, <2>2 DEF TypeOK, Places
<1>3. StartInv'
  BY <1>a, UnderCommand DEF StartInv
<1>4. ASSUME NEW a \in Analyses, gate.by = a
      PROVE  /\ \/ run'[a] \in {"over", "falling"}
                \/ run[a] = "reporting" /\ run'[a] = "executing"
                \/ run[a] \in {"completing", "recording"} /\ run'[a] = "clearing"
             /\ proc'[a] \notin {"running", "read"}
  <2>1. proc[a] \in {"running", "read"} => run[a] = "reporting"
    BY <1>1, <1>4 DEF ProcInv, Commanding
  <2>2. proc'[a] \notin {"running", "read"}
    BY <1>1, <1>4, <2>1
  <2>3. run[a] \in Commanding /\ run'[a] = AfterUndo[run[a]]
    BY <1>1, <1>4
  <2> QED
    BY <2>2, <2>3, AfterIs DEF Commanding
<1>5. ProcInv'
  BY <1>a, <1>1, <1>4 DEF ProcInv
<1>6. NewInv'
  BY <1>a, <1>1, <1>4 DEF NewInv
<1>7. RecordInv(disk)'
  <2>1. \A b \in Analyses : disk'.state[b] = "running" /\ ParentOf[b] \in Analyses => disk'.state[ParentOf[b]] = "succeeded"
    BY <1>a DEF RecordInv
  <2>2. ASSUME NEW b \in Analyses \ hurt
        PROVE  /\ disk.state[b] = "succeeded" /\ KindOf[b] = "table" => "artifacts" \in dirs'[b]
               /\ disk.state[b] = "succeeded" /\ KindOf[b] = "preview" => "query" \in dirs'[b]
               /\ b \in disk.blocks => b \in data'
    <3>1. disk.state[b] = "succeeded" => <<b, "artifacts">> \notin rollback /\ <<b, "query">> \notin rollback
      BY DEF RollbackInv
    <3>2. b \in disk.blocks => <<b, "data">> \notin rollback
      BY DEF RollbackInv
    <3> QED
      BY <1>a, <3>1, <3>2 DEF RecordInv
  <2> QED
    BY <1>a, <2>1, <2>2 DEF RecordInv
<1>8. RecordInv(mem)'
  BY <1>a, <1>7 DEF RecordInv, Works
<1>9. RollbackInv'
  BY <1>a DEF RollbackInv
<1>10. StageInv(disk)'
  <2> SUFFICES ASSUME NEW a \in Analyses,
                      run'[a] \in {"executing", "reporting"} /\ proc'[a] = "running",
                      disk.state[a] = "running"
               PROVE  InputsAreThere(a)'
    BY <1>a, <1>1 DEF StageInv, Commanding
  <2>1. gate.by # a
    BY <1>4
  <2>2. InputsAreThere(a)
    BY <1>1, <2>1 DEF StageInv
  <2>3. <<a, "input">> \notin rollback
    BY DEF TypeOK
  <2>4. <<ParentOf[a], "artifacts">> \notin rollback
    BY DEF RollbackInv, Works, Working
  <2> QED
    BY <1>a, <2>2, <2>3, <2>4 DEF InputsAreThere, ParentIsReadable
<1>11. StageInv(mem)'
  BY <1>a, <1>10 DEF StageInv, InputsAreThere, ParentIsReadable
<1>12. LeftInv'
  <2> SUFFICES ASSUME ~messy, up = "up"
               PROVE  /\ \A a \in Analyses : \A e \in dirs'[a] :
                           \/ Owned(disk, a, e)
                           \/ e \in {"input", "output"} /\ (run'[a] \in Unclean \/ a \in orphans)
                      /\ data' \subseteq disk.blocks
    BY <1>a DEF LeftInv, Owned, Works
  <2>1. \A a \in Analyses : run[a] \in Unclean => run'[a] \in Unclean
    BY <1>1, AfterIs DEF Unclean, Commanding
  <2> QED
    BY <1>a, <2>1 DEF LeftInv
<1>13. ReaderInv'
  BY <1>a, UnderCommand DEF ReaderInv, Inside
<1> QED
  BY <1>1, <1>2, <1>3, <1>5, <1>6, <1>7, <1>8, <1>9, <1>10, <1>11, <1>12, <1>13

\* What a collection keeps.
LEMMA CollectedIs ==
  ASSUME TypeOK, NEW g, dirs' = Collected(g)
  PROVE  /\ dirs' \in [Analyses -> SUBSET Entries]
         /\ \A a \in Analyses : \A e : e \in dirs'[a] <=> e \in dirs[a] /\ Owned(g, a, e)
BY DEF TypeOK, Collected

\* Records find their files after a collection that keeps what they own.
LEMMA KeepsResults ==
  ASSUME TypeOK, RecordInv(disk), dirs' = Collected(disk'), data' = data \cap disk'.blocks, hurt' = hurt,
         \A a \in Analyses : /\ disk'.state[a] = "succeeded" => disk.state[a] = "succeeded"
                             /\ a \in disk'.blocks => a \in disk.blocks
                             /\ disk'.state[a] = "running" /\ ParentOf[a] \in Analyses
                                  => disk'.state[ParentOf[a]] = "succeeded"
  PROVE  RecordInv(disk)'
<1>1. \A a \in Analyses : \A e : e \in dirs'[a] <=> e \in dirs[a] /\ Owned(disk', a, e)
  BY CollectedIs
<1> QED
  BY <1>1 DEF RecordInv, Owned

\* What no record owns is collected.
LEMMA CollectStep ==
  ASSUME FilesInv, Collect
  PROVE  FilesInv'
<1> USE DEF FilesInv, readerVars, faultVars, commandVars, fileVars
<1>a. /\ gate.step = "collect" /\ rollback = {} /\ mem = disk
      /\ UNCHANGED <<commandVars, disk, readerVars, up, hurt, orphans>>
      /\ ReturnTo(AfterCommit) /\ Free
      /\ \/ dirs' = Collected(disk) /\ data' = data \cap disk.blocks
            /\ UNCHANGED <<faults, messy>>
         \/ faults < MaxDisturbances /\ faults' = faults + 1 /\ messy' = TRUE /\ UNCHANGED fileVars
  BY DEF Collect, GateInv
<1>c. AfterUndo # AfterCommit
  <2>1. AfterUndo["submitting"] = "over" /\ AfterCommit["submitting"] = "waiting"
    BY AfterIs
  <2> QED
    BY <2>1
<1>1. /\ run' \in [Analyses -> Places \cup DOMAIN AfterCommit]
      /\ proc' \in [Analyses -> {"none", "running", "read", "done", "failed"}]
      /\ \A a \in Analyses : gate.by # a =>
           run'[a] = run[a] /\ proc'[a] = proc[a] /\ run[a] \notin Commanding
      /\ \A a \in Analyses : gate.by = a =>
           /\ run[a] \in Commanding /\ run'[a] = AfterCommit[run[a]]
           /\ proc'[a] = IF run[a] = "launching" THEN "running" ELSE proc[a]
      /\ \A a \in Analyses : run'[a] \notin Commanding
      /\ GateInv' /\ gate' = [by |-> NoOne, step |-> "free"]
  BY <1>a, <1>c, Returns
<1>2. /\ dirs' \in [Analyses -> SUBSET Entries] /\ data' \subseteq data
      /\ \/ /\ \A a \in Analyses : \A e : e \in dirs'[a] <=> e \in dirs[a] /\ Owned(disk, a, e)
            /\ data' = data \cap disk.blocks
         \/ dirs' = dirs /\ data' = data /\ messy'
  BY <1>a, CollectedIs DEF TypeOK
<1>3. TypeOK' /\ IsFiniteSet(slots)'
  <2>1. gate' \in [by : Analyses \cup Readers \cup {NoOne, User},
                   step : {"free", "commit", "collect", "undo", "read"}]
    BY <1>1
  <2>2. data' \subseteq Analyses /\ faults' \in 0 .. MaxDisturbances
    BY <1>a, <1>2, KindsAreKnown DEF TypeOK
  <2>3. messy' \in BOOLEAN
    BY <1>a DEF TypeOK
  <2>4. UNCHANGED <<mem, disk, rollback, reader, copies, rooms, slots, lost, up, hurt, orphans>>
    BY <1>a
  <2> QED
    BY <1>1, <1>2, <2>1, <2>2, <2>3, <2>4 DEF TypeOK, Places
<1>4. StartInv'
  BY <1>a, UnderCommand DEF StartInv
<1>5. ASSUME NEW a \in Analyses, gate.by = a
      PROVE  /\ run'[a] \in {"over", "waiting", "executing", "stopping", "cleaning"}
             /\ proc'[a] \in {"running", "read"} => run'[a] \in {"executing", "stopping"}
             /\ run'[a] = "executing" => run[a] = "launching"
  <2>1. proc[a] \in {"running", "read"} => run[a] = "reporting"
    BY <1>1, <1>5 DEF ProcInv, Commanding
  <2> QED
    BY <1>1, <1>5, <2>1, AfterIs DEF Commanding
<1>6. ProcInv'
  BY <1>a, <1>1, <1>5 DEF ProcInv
<1>7. NewInv'
  BY <1>a, <1>1, <1>5 DEF NewInv
<1>8. RecordInv(disk)'
  BY <1>a, <1>2 DEF RecordInv, Owned, Works
<1>9. RecordInv(mem)'
  BY <1>a, <1>8 DEF RecordInv, Works
<1>10. RollbackInv'
  BY <1>a DEF RollbackInv
<1>11. StageInv(disk)'
  <2> SUFFICES ASSUME NEW a \in Analyses,
                      run'[a] = "executing" /\ proc'[a] = "running",
                      disk.state[a] = "running"
               PROVE  InputsAreThere(a)'
    BY <1>a, <1>1 DEF StageInv, Commanding
  <2>1. InputsAreThere(a)
    BY <1>1, <1>5 DEF StageInv
  <2>2. Owned(disk, a, "input")
    BY DEF Owned, Works, Working
  <2>3. ParentOf[a] \in Analyses => Owned(disk, ParentOf[a], "artifacts")
    BY DEF Owned, RecordInv, Works, Working
  <2> QED
    BY <1>2, <2>1, <2>2, <2>3 DEF InputsAreThere, ParentIsReadable
<1>12. StageInv(mem)'
  BY <1>a, <1>11 DEF StageInv, InputsAreThere, ParentIsReadable
<1>13. LeftInv'
  BY <1>a, <1>2 DEF LeftInv, Owned, Works
<1>14. ReaderInv'
  BY <1>a, UnderCommand DEF ReaderInv, Inside
<1> QED
  BY <1>1, <1>3, <1>4, <1>6, <1>7, <1>8, <1>9, <1>10, <1>11, <1>12, <1>13, <1>14

\* A crash leaves the files, the workers that live on, and nothing in memory.
LEMMA CrashStep ==
  ASSUME FilesInv, Crash
  PROVE  FilesInv'
<1> USE DEF FilesInv, fileVars
<1>a. /\ faults < MaxDisturbances /\ faults' = faults + 1 /\ up' = "down"
      /\ mem' = disk /\ rollback' = {} /\ gate' = [by |-> NoOne, step |-> "free"]
      /\ run' = [a \in Analyses |-> IF run[a] = "new" THEN "new" ELSE "over"]
      /\ reader' = [r \in Readers |-> IF reader[r].at = "idle" THEN reader[r]
                                      ELSE [at |-> "done", of |-> NoAnalysis]]
      /\ rooms' = {} /\ slots' = {} /\ lost' = {}
      /\ UNCHANGED <<disk, fileVars, copies, hurt, messy>>
  BY DEF Crash, Free
<1>b. PICK alive \in SUBSET {a \in Analyses : proc[a] \in {"running", "read"}} :
         /\ orphans' = orphans \cup alive
         /\ proc' = [a \in Analyses |-> IF a \in alive THEN proc[a] ELSE "none"]
  BY DEF Crash
<1>1. TypeOK' /\ IsFiniteSet(slots)'
  <2>1. IsFiniteSet(slots') /\ Cardinality(slots') <= Slots
    BY <1>a, FS_EmptySet, KindsAreKnown
  <2>2. reader' \in [Readers -> [at : {"idle", "slot", "room", "copy", "leaving", "copied", "done"},
                                 of : Analyses \cup {NoAnalysis}]]
    BY <1>a DEF TypeOK
  <2>3. run' \in [Analyses -> Places \cup DOMAIN AfterCommit]
    BY <1>a DEF Places
  <2>4. proc' \in [Analyses -> {"none", "running", "read", "done", "failed"}]
        /\ orphans' \subseteq Analyses
    BY <1>b DEF TypeOK
  <2>5. faults' \in 0 .. MaxDisturbances
    BY <1>a, KindsAreKnown DEF TypeOK
  <2>6. gate' \in [by : Analyses \cup Readers \cup {NoOne, User},
                   step : {"free", "commit", "collect", "undo", "read"}]
    BY <1>a
  <2> QED
    BY <1>a, <2>1, <2>2, <2>3, <2>4, <2>5, <2>6 DEF TypeOK, Places
<1>2. GateInv'
  BY <1>a, NamesDiffer DEF GateInv, Commanding, Inside
<1>3. StartInv'
  BY <1>a DEF StartInv
<1>4. ProcInv'
  BY <1>a, <1>b DEF ProcInv
<1>5. NewInv'
  BY <1>a DEF NewInv
<1>6. RecordInv(disk)' /\ RecordInv(mem)'
  BY <1>a DEF RecordInv, Works
<1>7. RollbackInv' /\ LeftInv'
  BY <1>a DEF RollbackInv, LeftInv
<1>8. StageInv(mem)' /\ StageInv(disk)'
  BY <1>a DEF StageInv
<1>9. ReaderInv'
  BY <1>a DEF ReaderInv, Inside
<1> QED
  BY <1>1, <1>2, <1>3, <1>4, <1>5, <1>6, <1>7, <1>8, <1>9

\* The start reconciles the files with the committed records.
LEMMA ReconcileStep ==
  ASSUME FilesInv, Reconcile
  PROVE  FilesInv'
<1> USE DEF FilesInv, readerVars, commandVars, fileVars
<1>a. /\ up = "down" /\ up' = "starting" /\ mem = disk /\ rollback = {} /\ gate.step = "free"
      /\ dirs' = Collected(disk) /\ data' = data \cap disk.blocks
      /\ UNCHANGED <<commandVars, disk, gate, run, proc, readerVars, faults, hurt, messy, orphans>>
      /\ \A a \in Analyses : run[a] \in {"new", "over"}
      /\ \A r \in Readers : reader[r].at \in {"idle", "done"}
  BY DEF Reconcile, StartInv, GateInv
<1>1. TypeOK' /\ IsFiniteSet(slots)'
  <2>1. dirs' \in [Analyses -> SUBSET Entries] /\ data' \subseteq Analyses
    BY <1>a, CollectedIs DEF TypeOK
  <2> QED
    BY <1>a, <2>1 DEF TypeOK
<1>2. GateInv' /\ StartInv' /\ ProcInv' /\ NewInv'
  BY <1>a DEF GateInv, StartInv, ProcInv, NewInv
<1>3. RecordInv(disk)'
  <2>1. \A a \in Analyses : disk'.state[a] = "running" /\ ParentOf[a] \in Analyses
                              => disk'.state[ParentOf[a]] = "succeeded"
    BY <1>a DEF RecordInv
  <2> QED
    BY <1>a, <2>1, KeepsResults
<1>4. RecordInv(mem)'
  BY <1>a, <1>3 DEF RecordInv, Works
<1>5. RollbackInv' /\ LeftInv'
  BY <1>a DEF RollbackInv, LeftInv
<1>6. StageInv(mem)' /\ StageInv(disk)'
  BY <1>a DEF StageInv
<1>7. ReaderInv'
  BY <1>a DEF ReaderInv, Inside
<1> QED
  BY <1>1, <1>2, <1>3, <1>4, <1>5, <1>6, <1>7

\* The start ends what worked.
LEMMA InterruptedThins ==
  ASSUME disk \in Graphs, Interrupt
  PROVE  Thins(disk', disk) /\ \A a \in Analyses : ~Works(disk', a)
<1> DEFINE state == [a \in Analyses |-> IF disk.state[a] \in Working THEN "failed" ELSE disk.state[a]]
           failed == [disk EXCEPT !.state = state]
           detached == {a \in Analyses : Root(a) = a /\ a \notin disk.linked}
<1>1. disk' = Without(failed, UNION {Tree(a) : a \in detached})
  BY DEF Interrupt
<1>2. state \in [Analyses -> States]
  BY GraphParts DEF States
<1>3. \A a \in Analyses : state[a] = IF disk.state[a] \in Working THEN "failed" ELSE disk.state[a]
  OBVIOUS
<1> HIDE DEF state
<1>4. failed \in Graphs /\ failed.state = state /\ failed.blocks = disk.blocks
  BY <1>2 DEF Graphs
<1>5. \A a \in Analyses : ~Works(failed, a)
  BY <1>3, <1>4 DEF Works, Working
<1> HIDE DEF failed
<1>6. Thins(failed, disk)
  BY <1>3, <1>4, <1>5, GraphParts DEF Thins, Working, States
<1>7. Thins(disk', failed)
  BY <1>1, <1>4, TreesThin
<1>8. disk' \in Graphs
  BY <1>7 DEF Thins
<1>9. Thins(disk', disk)
  BY <1>4, <1>6, <1>7, <1>8, ThinsAgain
<1> QED
  BY <1>5, <1>7, <1>9 DEF Thins, Works, Working

\* The start ends every record that worked.
LEMMA InterruptStep ==
  ASSUME FilesInv, Interrupt
  PROVE  FilesInv'
<1> USE DEF FilesInv
<1>a. /\ up = "starting" /\ up' = "up" /\ mem' = disk' /\ dirs' = Collected(disk') /\ copies' = {}
      /\ UNCHANGED <<rollback, data, gate, run, proc, reader, rooms, slots, lost, faults,
                     hurt, messy, orphans>>
      /\ rollback = {} /\ gate.step = "free" /\ data \subseteq disk.blocks
      /\ rooms = {} /\ slots = {} /\ lost = {}
      /\ \A a \in Analyses : run[a] \in {"new", "over"}
      /\ \A r \in Readers : reader[r].at \in {"idle", "done"}
  BY DEF Interrupt, StartInv, GateInv
<1>b. Thins(disk', disk) /\ \A a \in Analyses : ~Works(disk', a)
  BY InterruptedThins DEF TypeOK
<1>c. /\ disk' \in Graphs /\ disk'.blocks = disk.blocks /\ data' = data \cap disk'.blocks
      /\ \A a \in Analyses : disk'.state[a] = "succeeded" => disk.state[a] = "succeeded"
      /\ \A a \in Analyses : disk.state[a] = "none" => disk'.state[a] = "none"
  BY <1>a, <1>b DEF Thins
<1>1. TypeOK' /\ IsFiniteSet(slots)'
  <2>1. dirs' \in [Analyses -> SUBSET Entries]
    BY <1>a, CollectedIs DEF TypeOK
  <2> QED
    BY <1>a, <1>c, <2>1 DEF TypeOK
<1>2. GateInv' /\ StartInv' /\ ProcInv' /\ NewInv'
  BY <1>a, <1>c DEF GateInv, StartInv, ProcInv, NewInv, Commanding, Inside
<1>3. RecordInv(disk)'
  <2>1. \A a \in Analyses : disk'.state[a] # "running"
    BY <1>b DEF Works, Working
  <2> QED
    BY <1>a, <1>c, <2>1, KeepsResults
<1>4. RecordInv(mem)'
  BY <1>a, <1>3 DEF RecordInv, Works
<1>5. RollbackInv'
  BY <1>a DEF RollbackInv
<1>6. StageInv(mem)' /\ StageInv(disk)'
  BY <1>a DEF StageInv
<1>7. LeftInv'
  <2>1. \A a \in Analyses : \A e \in dirs'[a] : Owned(disk', a, e)
    BY <1>a, CollectedIs
  <2> QED
    BY <1>a, <1>c, <2>1 DEF LeftInv, Owned, Works
<1>8. ReaderInv'
  BY <1>a DEF ReaderInv, Inside
<1> QED
  BY <1>1, <1>2, <1>3, <1>4, <1>5, <1>6, <1>7, <1>8

\* At first there are neither records nor files.
LEMMA InitFilesInv ==
  ASSUME Init
  PROVE  FilesInv
<1> USE DEF Init
<1>1. mem \in Graphs
  BY DEF Graphs, States
<1>2. TypeOK /\ IsFiniteSet(slots)
  <2>1. IsFiniteSet(slots) /\ Cardinality(slots) <= Slots
    BY FS_EmptySet, KindsAreKnown
  <2>2. reader \in [Readers -> [at : {"idle", "slot", "room", "copy", "leaving", "copied", "done"},
                                of : Analyses \cup {NoAnalysis}]]
    OBVIOUS
  <2>3. messy \in BOOLEAN
    OBVIOUS
  <2>4. /\ dirs \in [Analyses -> SUBSET Entries] /\ rollback \subseteq Analyses \X {"artifacts", "query", "data"}
        /\ run \in [Analyses -> Places \cup DOMAIN AfterCommit]
        /\ proc \in [Analyses -> {"none", "running", "read", "done", "failed"}]
    BY DEF Places
  <2>5. /\ gate \in [by : Analyses \cup Readers \cup {NoOne, User},
                     step : {"free", "commit", "collect", "undo", "read"}]
        /\ faults \in 0 .. MaxDisturbances
    BY KindsAreKnown
  <2> QED
    BY <1>1, <2>1, <2>2, <2>3, <2>4, <2>5 DEF TypeOK, Places
<1>3. GateInv /\ StartInv /\ ProcInv /\ NewInv
  BY NamesDiffer DEF GateInv, StartInv, ProcInv, NewInv, Commanding, Inside
<1>4. RecordInv(mem) /\ RecordInv(disk)
  BY DEF RecordInv, Works, Working
<1>5. RollbackInv /\ StageInv(mem) /\ StageInv(disk) /\ LeftInv /\ ReaderInv
  BY DEF RollbackInv, StageInv, LeftInv, ReaderInv, Inside
<1> QED
  BY <1>2, <1>3, <1>4, <1>5 DEF FilesInv

-----------------------------------------------------------------------------
(* The theorems.                                                           *)

\* Every step keeps the invariant.
LEMMA NextFilesInv ==
  ASSUME FilesInv, [Next]_vars
  PROVE  FilesInv'
<1>1. ASSUME NEW a \in Analyses, Runs(a)
      PROVE  FilesInv'
  BY <1>1, SubmitStep, CancelStep, AdmitStep, ReadsStep, WritesStep, WorkerFailsStep, CompleteStep,
     BadProgressStep, StoppedStep, ConfirmStep, RecordFailureStep, CleanStep DEF Runs
<1>2. ASSUME NEW r \in Readers, Answers(r)
      PROVE  FilesInv'
  BY <1>2, EnterStep, TakeSlotStep, ReserveStep, CopyStep, LeaveStep, CleanUpStep,
     CancelReaderStep DEF Answers
<1>3. CASE UNCHANGED vars
  <2> USE <1>3 DEF FilesInv, vars, readerVars, faultVars, commandVars, fileVars
  <2>1. TypeOK' /\ IsFiniteSet(slots)' /\ GateInv' /\ StartInv' /\ ReaderInv'
    BY DEF TypeOK, GateInv, StartInv, ReaderInv
  <2>2. gate.step = "collect" => gate'.step = "collect"
    OBVIOUS
  <2>3. UNCHANGED <<commandVars, disk, fileVars, run, proc, up, hurt, messy, orphans>>
    OBVIOUS
  <2> QED
    BY <2>1, <2>2, <2>3, FilesStay
<1> QED
  BY <1>1, <1>2, <1>3, CommitStep, CommitFailsStep, UndoStep, CollectStep, ClearStep, CrashStep,
     ReconcileStep, InterruptStep DEF Next

\* The invariant of the records, the files and their readers.
THEOREM FilesInvariance == Spec => []FilesInv
<1>1. Init => FilesInv
  BY InitFilesInv
<1>2. FilesInv /\ [Next]_vars => FilesInv'
  BY NextFilesInv
<1> QED
  BY <1>1, <1>2, PTL DEF Spec

\* The inputs of a worker that has still to read are there, whatever is collected,
\* undone, detached or superseded meanwhile.
THEOREM InputsAlwaysLast == Spec => []InputsLast
<1>1. FilesInv => InputsLast
  BY DEF FilesInv, StageInv, InputsLast
<1> QED
  BY <1>1, FilesInvariance, PTL

\* A reader copies a file that is there, unless its record was hurt by a fault.
THEOREM ResultsAreAlwaysThere == Spec => []ResultsAreThere
<1>1. ASSUME FilesInv
      PROVE  ResultsAreThere
  <2>1. ASSUME NEW r \in Readers, reader[r].at = "copy", reader[r].of \notin hurt
        PROVE  SourceOf(r) \in dirs[reader[r].of]
    <3>1. /\ reader[r].of \in Analyses \ hurt /\ disk.state[reader[r].of] = "succeeded"
          /\ KindOf[reader[r].of] \in {"table", "preview"}
      BY <1>1, <2>1, KindsAreKnown DEF FilesInv, ReaderInv, Inside
    <3> QED
      BY <1>1, <3>1 DEF FilesInv, RecordInv, SourceOf, Query
  <2> QED
    BY <1>1, <2>1 DEF FilesInv, RecordInv, ResultsAreThere
<1> QED
  BY <1>1, FilesInvariance, PTL

\* With the gate free no file is left that no record owns, and a reader that has been
\* answered holds neither a slot nor room nor a copy.
THEOREM NothingIsEverLeft == Spec => []NothingIsLeft
<1>1. ASSUME FilesInv
      PROVE  NothingIsLeft
  <2>1. ASSUME Open, ~messy
        PROVE  /\ \A a \in Analyses : \A e \in dirs[a] :
                    \/ Owned(disk, a, e)
                    \/ e \in {"input", "output"} /\ (run[a] # "over" \/ a \in orphans)
               /\ data \subseteq disk.blocks
    BY <1>1, <2>1 DEF FilesInv, LeftInv, Open, GateInv, Unclean
  <2>2. ASSUME up = "up", NEW r \in Readers \ lost, reader[r].at \in {"idle", "done"}
        PROVE  r \notin copies \cup rooms \cup slots
    BY <1>1, <2>2 DEF FilesInv, ReaderInv
  <2> QED
    BY <2>1, <2>2 DEF NothingIsLeft
<1> QED
  BY <1>1, FilesInvariance, PTL

=============================================================================
