----------------------- MODULE AnalysisExecutionProofs -----------------------
(***************************************************************************)
(* What AnalysisExecution guarantees for every set of Analyses, capacity,  *)
(* disturbance and bound: its records and queues are well typed, no worker *)
(* process outlives its Workspace, no cancelled record has a process, the  *)
(* records live by AnalysisLifecycle, a deferred close is awaited, and     *)
(* every process is wanted; and, where no client closes the Workspace, no  *)
(* work is lost and an orderly shutdown leaves none.                       *)
(***************************************************************************)
EXTENDS AnalysisExecution, TLAPS

----------------------------------------------------------------------------
\* Mutations of the map of records

Maps == [Analyses -> Record]

\* What a mutation does to records other than the one it is about: it leaves
\* them, removes them, ends one that is queued, or ends a running group.
Spares(R, R2) ==
  \A a \in Analyses :
    \/ R2[a].state = R[a].state
    \/ R2[a].state = "removed" /\ R[a].state # "absent"
    \/ R2[a].state \in Terminal /\ R[a].state = "queued"
    \/ R2[a].state \in Terminal /\ R[a].state = "running" /\ Kind[a] = "group"

\* Mutations that spare the others can be applied one after the other.
LEMMA SparesTransitive ==
  ASSUME NEW R \in Maps, NEW R1 \in Maps, NEW R2 \in Maps,
         Spares(R, R1), Spares(R1, R2)
  PROVE  Spares(R, R2)
BY DEF Spares, Terminal

\* The states a record is put into are states of a record.
LEMMA RecordOps ==
  ASSUME NEW r \in Record
  PROVE  /\ Failed(r) \in Record /\ Failed(r).state = "failed"
         /\ Requested(r) \in Record /\ Requested(r).state = r.state
         /\ CancelledNow(r) \in Record /\ CancelledNow(r).state = "cancelled"
         /\ Erased(r) \in Record /\ Erased(r).state = "removed"
BY DEF Failed, Requested, CancelledNow, Erased, Record, Working, Terminal, Gone

\* Erasing records that exist spares the others.
LEMMA EraseSpares ==
  ASSUME NEW R \in Maps, NEW S, \A a \in S \intersect Analyses : R[a].state # "absent"
  PROVE  Put(R, S, Erased) \in Maps /\ Spares(R, Put(R, S, Erased))
<1>1. \A a \in Analyses : R[a] \in Record
  BY DEF Maps
<1>2. \A a \in Analyses : Erased(R[a]) \in Record /\ Erased(R[a]).state = "removed"
  BY <1>1, RecordOps
<1>3. Put(R, S, Erased) \in Maps
  BY <1>1, <1>2 DEF Maps, Put
<1>4. Spares(R, Put(R, S, Erased))
  BY <1>2 DEF Spares, Put
<1> QED BY <1>3, <1>4

\* The removal of a tree spares the records of running processes.
LEMMA RemoveTreeSpares ==
  ASSUME NEW R \in Maps, NEW a
  PROVE  RemoveTree(R, a) \in Maps /\ Spares(R, RemoveTree(R, a))
<1>1. \A b \in Tree(R, a) \intersect Analyses : R[b].state # "absent"
  BY DEF Tree, Gone
<1> QED BY <1>1, EraseSpares DEF RemoveTree

\* Superseding what an Analysis replaces spares them too.
LEMMA SupersedeSpares ==
  ASSUME NEW R \in Maps, NEW a \in Analyses
  PROVE  Supersede(R, a) \in Maps /\ Spares(R, Supersede(R, a))
<1> DEFINE S == UNION {Tree(R, b) : b \in Supersedes[a]}
<1>1. \A b \in S \intersect Analyses : R[b].state # "absent"
  BY DEF Tree, Gone
<1>2. Put(R, S, Erased) \in Maps /\ Spares(R, Put(R, S, Erased))
  <2> HIDE DEF S
  <2> QED BY <1>1, EraseSpares
<1> QED BY <1>2 DEF Supersede

\* And so does dropping detached trees that have ended.
LEMMA DropDetachedSpares ==
  ASSUME NEW R \in Maps, NEW a
  PROVE  DropDetached(R, a) \in Maps /\ Spares(R, DropDetached(R, a))
<1>1. R \in Maps /\ Spares(R, R)
  BY DEF Spares
<1>2. RemoveTree(R, RootOf(a)) \in Maps /\ Spares(R, RemoveTree(R, RootOf(a)))
  BY RemoveTreeSpares
<1> QED BY <1>1, <1>2 DEF DropDetached

\* The end of a group spares all other records, and the group was running.
LEMMA EndGroupSpares ==
  ASSUME NEW R \in Maps, NEW g \in Analyses, GroupEnds(R, g)
  PROVE  EndGroup(R, g) \in Maps /\ Spares(R, EndGroup(R, g))
<1>1. Kind[g] = "group" /\ R[g].state = "running"
  BY DEF GroupEnds
<1>2. R[g] \in Record
  BY DEF Maps
<1> DEFINE Done == [R EXCEPT ![g].state = "succeeded"]
<1>3. Done \in Maps
  BY <1>2 DEF Maps, Record, Working, Terminal, Gone
<1>4. Spares(R, Done)
  BY <1>1, <1>2 DEF Spares, Maps, Record, Terminal
<1>5. Supersede(Done, g) \in Maps /\ Spares(R, Supersede(Done, g))
  <2>1. Supersede(Done, g) \in Maps /\ Spares(Done, Supersede(Done, g))
    BY <1>3, SupersedeSpares
  <2> QED BY <1>3, <1>4, <2>1, SparesTransitive
<1>6. \A r \in Record : r.state \in Terminal =>
        [R EXCEPT ![g] = r] \in Maps /\ Spares(R, [R EXCEPT ![g] = r])
  BY <1>1 DEF Maps, Spares
<1>7. /\ Failed(R[g]) \in Record /\ Failed(R[g]).state \in Terminal
      /\ CancelledNow(R[g]) \in Record /\ CancelledNow(R[g]).state \in Terminal
  BY <1>2, RecordOps DEF Terminal
<1>8. /\ [R EXCEPT ![g] = CancelledNow(R[g])] \in Maps
      /\ Spares(R, [R EXCEPT ![g] = CancelledNow(R[g])])
      /\ [R EXCEPT ![g] = Failed(R[g])] \in Maps
      /\ Spares(R, [R EXCEPT ![g] = Failed(R[g])])
  BY <1>6, <1>7
<1> QED BY <1>5, <1>8 DEF EndGroup

\* A group that ends with its last source has no process to spare.
LEMMA FinalizeGroupSpares ==
  ASSUME NEW R \in Maps, NEW a \in Analyses
  PROVE  FinalizeGroup(R, a) \in Maps /\ Spares(R, FinalizeGroup(R, a))
<1>1. CASE GroupEnds(R, Parent[a])
  <2>1. Parent[a] \in Analyses
    BY <1>1, ParentOK DEF GroupEnds
  <2> QED BY <1>1, <2>1, EndGroupSpares DEF FinalizeGroup
<1>2. CASE ~GroupEnds(R, Parent[a])
  BY <1>2 DEF FinalizeGroup, Spares
<1> QED BY <1>1, <1>2

\* What follows the end of a record, composed.
LEMMA SettleSpares ==
  ASSUME NEW R \in Maps, NEW a \in Analyses
  PROVE  Settle(R, a) \in Maps /\ Spares(R, Settle(R, a))
<1> DEFINE F == FinalizeGroup(R, a)
<1>1. F \in Maps /\ Spares(R, F)
  BY FinalizeGroupSpares
<1>2. DropDetached(F, a) \in Maps /\ Spares(F, DropDetached(F, a))
  <2> HIDE DEF F
  <2> QED BY <1>1, DropDetachedSpares
<1> HIDE DEF F
<1>3. DropDetached(F, a) \in Maps /\ Spares(R, DropDetached(F, a))
  BY <1>1, <1>2, SparesTransitive
<1> QED BY <1>3 DEF Settle, F

\* What the runner of a commits for it: a's record changes, the others are
\* spared.
SparesOthers(a, R, R2) ==
  \A b \in Analyses \ {a} :
    \/ R2[b].state = R[b].state
    \/ R2[b].state = "removed" /\ R[b].state # "absent"
    \/ R2[b].state \in Terminal /\ R[b].state = "queued"
    \/ R2[b].state \in Terminal /\ R[b].state = "running" /\ Kind[b] = "group"

\* After a record has ended and what follows is done, the others are spared
\* and the record has ended that way or is removed.
LEMMA SettledRecord ==
  ASSUME NEW R \in Maps, NEW a \in Analyses, NEW r \in Record, r.state \in Terminal
  PROVE  LET R2 == Settle([R EXCEPT ![a] = r], a)
         IN  /\ R2 \in Maps
             /\ SparesOthers(a, R, R2)
             /\ R2[a].state \in {r.state, "removed"}
<1> DEFINE R1 == [R EXCEPT ![a] = r]
<1>1. R1 \in Maps /\ R1[a] = r /\ \A b \in Analyses \ {a} : R1[b] = R[b]
  BY DEF Maps
<1>2. Settle(R1, a) \in Maps /\ Spares(R1, Settle(R1, a))
  BY <1>1, SettleSpares
<1> HIDE DEF R1
<1>3. SparesOthers(a, R, Settle(R1, a))
  BY <1>1, <1>2 DEF Spares, SparesOthers
<1>4. Settle(R1, a)[a].state \in {r.state, "removed"}
  BY <1>1, <1>2 DEF Spares, Terminal
<1> QED BY <1>2, <1>3, <1>4 DEF R1

\* Cancelling a tree spares everything that is not queued.
LEMMA CancelSpares ==
  ASSUME NEW a \in Analyses, rec \in Maps
  PROVE  CancelledRec(a) \in Maps /\ Spares(rec, CancelledRec(a))
<1> DEFINE R == [b \in Analyses |->
                   IF b \notin CancelMembers(a) THEN rec[b]
                   ELSE IF rec[b].state = "queued" THEN CancelledNow(rec[b])
                   ELSE Requested(rec[b])]
           ended == {g \in Analyses : /\ GroupEnds(R, g)
                                      /\ \E b \in CancelMembers(a) : Parent[b] = g}
           g0 == CHOOSE g \in ended : TRUE
<1>1. \A b \in Analyses : rec[b] \in Record
  BY DEF Maps
<1>2. R \in Maps /\ Spares(rec, R)
  <2>1. \A b \in Analyses : R[b] \in Record /\ R[b].state \in {rec[b].state, "cancelled"}
                            /\ (R[b].state # rec[b].state => rec[b].state = "queued")
    BY <1>1, RecordOps
  <2> QED BY <2>1 DEF Maps, Spares, Terminal
<1>3. CASE ended = {}
  BY <1>2, <1>3 DEF CancelledRec
<1>4. CASE ended # {}
  <2>1. g0 \in Analyses /\ GroupEnds(R, g0)
    <3> HIDE DEF R
    <3> QED BY <1>4
  <2>2. EndGroup(R, g0) \in Maps /\ Spares(R, EndGroup(R, g0))
    <3> HIDE DEF R, g0
    <3> QED BY <1>2, <2>1, EndGroupSpares
  <2>3. EndGroup(R, g0) \in Maps /\ Spares(rec, EndGroup(R, g0))
    <3> HIDE DEF R, g0
    <3> QED BY <1>2, <2>2, SparesTransitive
  <2> QED BY <1>4, <2>3 DEF CancelledRec
<1> QED BY <1>3, <1>4

\* Clearing the Tab cancels what is queued and removes what has no runner.
LEMMA ClearSpares ==
  ASSUME rec \in Maps, ClearTab
  PROVE  rec' \in Maps /\ Spares(rec, rec')
<1>1. \A r \in Record : r.live => Detached(r) \in Record
                          /\ Detached(r).state = IF r.state = "queued" THEN "cancelled"
                                                 ELSE r.state
  BY DEF Detached, Record, Working, Terminal, Gone
<1>2. \A r \in Record : r.live => r.state # "absent"
  BY DEF Record, Gone
<1>3. \A r \in Record : Erased(r) \in Record /\ Erased(r).state = "removed"
  BY RecordOps
<1>4. \A a \in Analyses : rec[a] \in Record
  BY DEF Maps
<1>5. rec' \in Maps
  BY <1>1, <1>3, <1>4 DEF ClearTab, Maps
<1>6. Spares(rec, rec')
  BY <1>1, <1>2, <1>3, <1>4 DEF ClearTab, Spares, Terminal
<1> QED BY <1>5, <1>6

\* What completion commits for a's record.
LEMMA CompletedRecordsOK ==
  ASSUME rec \in Maps, NEW a \in Analyses, rec[a].state = "running",
         NEW R2 \in CompletedRecords(a)
  PROVE  R2 \in Maps /\ SparesOthers(a, rec, R2) /\ R2[a].state # "absent"
<1> DEFINE settle(R) ==
      DropDetached(IF Kind[a] = "source" THEN FinalizeGroup(R, a) ELSE R, a)
<1>1. \A R \in Maps : settle(R) \in Maps /\ Spares(R, settle(R))
  <2> SUFFICES ASSUME NEW R \in Maps
               PROVE  settle(R) \in Maps /\ Spares(R, settle(R))
    OBVIOUS
  <2> DEFINE F == IF Kind[a] = "source" THEN FinalizeGroup(R, a) ELSE R
  <2>1. F \in Maps /\ Spares(R, F)
    BY FinalizeGroupSpares DEF Spares
  <2> HIDE DEF F
  <2>2. DropDetached(F, a) \in Maps /\ Spares(F, DropDetached(F, a))
    BY <2>1, DropDetachedSpares
  <2>3. DropDetached(F, a) \in Maps /\ Spares(R, DropDetached(F, a))
    BY <2>1, <2>2, SparesTransitive
  <2> QED BY <2>3 DEF F
<1>2. rec[a] \in Record
  BY DEF Maps
<1> DEFINE C == [rec EXCEPT ![a] = CancelledNow(@)]
           F == [rec EXCEPT ![a] = Failed(@)]
           D == [rec EXCEPT ![a].state = "succeeded"]
<1>3. C \in Maps /\ F \in Maps /\ D \in Maps
  BY <1>2, RecordOps DEF Maps, Record, Working, Terminal, Gone
<1>4. /\ \A b \in Analyses \ {a} : C[b] = rec[b] /\ F[b] = rec[b] /\ D[b] = rec[b]
      /\ C[a].state # "absent" /\ F[a].state # "absent" /\ D[a].state # "absent"
  BY <1>2, RecordOps DEF Maps, Record
<1>5. Succeeded(a) \in Maps /\ Spares(D, Succeeded(a))
  <2> HIDE DEF D
  <2>1. Supersede(D, a) \in Maps /\ Spares(D, Supersede(D, a))
    BY <1>3, SupersedeSpares
  <2> QED BY <2>1 DEF Succeeded, D
<1>6. \E R \in {C, F, Succeeded(a)} : R2 = settle(R)
  <2> HIDE DEF settle
  <2>1. R2 \in {settle(C), settle(F), settle(Succeeded(a))}
    BY DEF CompletedRecords, settle
  <2> QED BY <2>1
<1> HIDE DEF C, F, D, settle
<1>7. PICK R \in {C, F, Succeeded(a)} : R2 = settle(R)
  BY <1>6
<1>8. R \in Maps /\ SparesOthers(a, rec, R) /\ R[a].state # "absent"
  BY <1>3, <1>4, <1>5, <1>7 DEF Spares, SparesOthers, Terminal
<1>9. R2 \in Maps /\ Spares(R, R2)
  BY <1>1, <1>7, <1>8
<1> QED BY <1>8, <1>9 DEF Spares, SparesOthers, Terminal

----------------------------------------------------------------------------
\* The inductive invariant

\* A mutation of the records that runs while the gate is free: it creates
\* nothing, and disturbs no runner that launches or monitors a process.
Undisturbing ==
  /\ rec' \in Maps
  /\ \A a \in Analyses :
       /\ rec'[a].state = "absent" <=> rec[a].state = "absent"
       /\ pc[a] \in {"launch", "monitor"} =>
            rec'[a].state \in {rec[a].state, "failed", "removed"}

\* A mutation that spares all records is of this kind, because a runner that
\* launches or monitors has started its record and is not a group's.
LEMMA SparingIsUndisturbing ==
  ASSUME IInv, rec' \in Maps, Spares(rec, rec')
  PROVE  Undisturbing
BY DEF IInv, RecordsAgree, RunnersAgree, GroupsAreRoots, Spares, Terminal, Undisturbing

\* A mutation that spares all but one record disturbs no runner, if that one is
\* failed or removed when its process is being started or watched.
LEMMA SparingOthersIsUndisturbing ==
  ASSUME IInv, NEW a \in Analyses, rec' \in Maps, SparesOthers(a, rec, rec'),
         rec[a].state # "absent", rec'[a].state # "absent",
         pc[a] \in {"launch", "monitor"} => rec'[a].state \in {"failed", "removed"}
  PROVE  Undisturbing
BY DEF IInv, RecordsAgree, RunnersAgree, GroupsAreRoots, SparesOthers, Terminal, Undisturbing

\* Such a mutation preserves the invariant, also when it ends a runner's work.
LEMMA UndisturbingPreserves ==
  ASSUME IInv, GateFree, Undisturbing,
         pc' \in [Analyses -> {"none", "start", "commit", "launch", "monitor", "complete",
                               "confirm", "fail", "fallback", "release"}],
         \A a \in Analyses : \/ pc'[a] = pc[a]
                             \/ /\ pc[a] \in {"start", "complete", "confirm", "fail", "fallback"}
                                /\ pc'[a] = "release",
         unscheduled' \subseteq unscheduled, undo' \in SUBSET Analyses,
         signals' \in SUBSET Analyses,
         interrupts' \subseteq interrupts, selected' \subseteq selected,
         faults' \in 0..MaxFaults,
         UNCHANGED <<schedVars, procVars, callbacks, gate, ws, phase, restarts>>
  PROVE  IInv'
<1> USE DEF IInv, schedVars, procVars
<1>1. TypeOK'
  BY DEF TypeOK, Undisturbing, Maps
<1>2. RunnersAgree'
  BY NoAnalysisOK DEF RunnersAgree, GateFree
<1>3. WorkspaceHolds'
  BY DEF WorkspaceHolds, MayLive
<1>4. RecordsAgree'
  BY NoAnalysisOK DEF RecordsAgree, RunnersAgree, GateFree, Undisturbing
<1>5. GroupsAreRoots'
  BY ParentOK, RootsOK, KindOK DEF GroupsAreRoots, Undisturbing
<1>6. ScheduledOnce' /\ StoppedIsQuiet'
  BY DEF ScheduledOnce, StoppedIsQuiet, Undisturbing
<1> QED BY <1>1, <1>2, <1>3, <1>4, <1>5, <1>6

\* Putting another record in a's place.
LEMMA Replaced ==
  ASSUME rec \in Maps, NEW a \in Analyses, NEW r \in Record
  PROVE  [rec EXCEPT ![a] = r] \in Maps
BY DEF Maps

\* The commits of a runner whose process is gone, or was never started.
LEMMA RunnerCommitsPreserve ==
  ASSUME IInv, NEW a \in Analyses,
         AdmitFails(a) \/ Complete(a) \/ Confirm(a) \/ FailExecution(a)
  PROVE  IInv'
<1>1. GateFree /\ rec \in Maps /\ rec[a] \in Record
  BY DEF AdmitFails, Complete, Confirm, FailExecution, Internal, IInv, TypeOK, Maps
<1>2. Failed(rec[a]) \in Record /\ Failed(rec[a]).state = "failed"
      /\ CancelledNow(rec[a]) \in Record /\ CancelledNow(rec[a]).state = "cancelled"
  BY <1>1, RecordOps
<1>3. \A r \in {Failed(rec[a]), CancelledNow(rec[a])} :
        LET R2 == Settle([rec EXCEPT ![a] = r], a)
        IN  R2 \in Maps /\ SparesOthers(a, rec, R2) /\ R2[a].state # "absent"
  BY <1>1, <1>2, SettledRecord DEF Terminal
<1>4. \/ UNCHANGED rec
      \/ rec' \in Maps /\ SparesOthers(a, rec, rec') /\ rec'[a].state # "absent"
         /\ rec[a].state # "absent"
  <2>1. CASE AdmitFails(a)
    BY <2>1, <1>3 DEF AdmitFails
  <2>2. CASE Complete(a) /\ rec[a].state = "running"
    BY <2>2, <1>1, CompletedRecordsOK DEF Complete
  <2>3. CASE Complete(a) /\ rec[a].state # "running"
    BY <2>3 DEF Complete
  <2>4. CASE Confirm(a)
    BY <2>4, <1>3 DEF Confirm
  <2>5. CASE FailExecution(a)
    BY <2>5, <1>3 DEF FailExecution, Working
  <2> QED BY <2>1, <2>2, <2>3, <2>4, <2>5
<1>5. pc[a] \in {"start", "complete", "confirm", "fail", "fallback"}
  BY DEF AdmitFails, Complete, Confirm, FailExecution
<1>6. Undisturbing
  <2>1. CASE UNCHANGED rec
    BY <2>1, <1>1 DEF Undisturbing
  <2>2. CASE ~UNCHANGED rec
    BY <2>2, <1>4, <1>5, SparingOthersIsUndisturbing
  <2> QED BY <2>1, <2>2
<1>7. /\ Go(a, "release")
      /\ UNCHANGED <<unscheduled, undo, schedVars, procVars, signals, callbacks,
                     gate, ws, shutVars, faults, restarts>>
  BY DEF AdmitFails, Complete, Confirm, FailExecution
<1> QED
  BY <1>1, <1>5, <1>6, <1>7, UndisturbingPreserves DEF Go, shutVars, IInv, TypeOK


\* Cancelling, clearing, and taking back what the scheduler refused.
LEMMA ClientCommitsPreserve ==
  ASSUME IInv, NEW a \in Analyses,
         EnqueueRefused(a) \/ UndoGroup(a) \/ Cancel(a) \/ ClearTab
  PROVE  IInv'
<1>1. rec \in Maps /\ Spares(rec, rec)
  BY DEF IInv, TypeOK, Maps, Spares
<1>2. CancelledRec(a) \in Maps /\ Spares(rec, CancelledRec(a))
  BY <1>1, CancelSpares
<1>3. rec' \in Maps /\ Spares(rec, rec')
  <2>1. CASE EnqueueRefused(a)
    BY <2>1, <1>1, RemoveTreeSpares DEF EnqueueRefused
  <2>2. CASE UndoGroup(a)
    BY <2>2, <1>1, <1>2 DEF UndoGroup, CancelCommits
  <2>3. CASE Cancel(a)
    BY <2>3, <1>2 DEF Cancel, CancelCommits
  <2>4. CASE ClearTab
    BY <2>4, <1>1, ClearSpares
  <2> QED BY <2>1, <2>2, <2>3, <2>4
<1>4. Undisturbing
  BY <1>3, SparingIsUndisturbing
<1>5. /\ GateFree
      /\ unscheduled' \subseteq unscheduled
      /\ UNCHANGED <<schedVars, pc, procVars, callbacks, gate, ws, shutVars, faults,
                     restarts>>
  BY DEF EnqueueRefused, UndoGroup, Cancel, ClearTab, Internal, External
<1>6. undo' \in SUBSET Analyses /\ signals' \in SUBSET Analyses
  <2>1. CASE EnqueueRefused(a)
    <3>1. Kind[a] = "source" => Parent[a] \in Analyses
      BY ParentOK, RootsOK, KindOK
    <3> QED BY <2>1, <3>1 DEF EnqueueRefused, IInv, TypeOK
  <2>2. CASE UndoGroup(a)
    BY <2>2 DEF UndoGroup, CancelCommits, CancelMembers, Tree, IInv, TypeOK
  <2>3. CASE Cancel(a)
    BY <2>3 DEF Cancel, CancelCommits, CancelMembers, Tree, IInv, TypeOK
  <2>4. CASE ClearTab
    BY <2>4 DEF ClearTab, IInv, TypeOK
  <2> QED BY <2>1, <2>2, <2>3, <2>4
<1> QED
  BY <1>4, <1>5, <1>6, UndisturbingPreserves DEF shutVars, IInv, TypeOK

\* What shutdown commits, once for every queued item and every runner.
LEMMA InterruptionsPreserve ==
  ASSUME IInv, NEW a \in Analyses, InterruptQueued(a) \/ InterruptSelected(a)
  PROVE  IInv'
<1>1. rec \in Maps /\ rec[a] \in Record
  BY DEF IInv, TypeOK, Maps
<1>2. \A r \in {Failed(rec[a]), CancelledNow(rec[a])} :
        LET R2 == Settle([rec EXCEPT ![a] = r], a)
        IN  R2 \in Maps /\ SparesOthers(a, rec, R2) /\ R2[a].state \notin {"absent", "queued"}
  <2>1. \A r \in {Failed(rec[a]), CancelledNow(rec[a])} :
          r \in Record /\ r.state \in {"failed", "cancelled"}
    BY <1>1, RecordOps
  <2> QED BY <1>1, <2>1, SettledRecord DEF Terminal
<1>3. \/ UNCHANGED rec
      \/ /\ rec' \in Maps /\ SparesOthers(a, rec, rec')
         /\ rec[a].state \in Working /\ rec'[a].state # "absent"
         /\ InterruptQueued(a) => rec[a].state = "queued"
  BY <1>2 DEF InterruptQueued, InterruptSelected, Interrupt, Working
<1>4. pc[a] \in {"launch", "monitor"} /\ InterruptSelected(a) => FALSE
  BY DEF InterruptSelected, IInv, StoppedIsQuiet, RunnersAgree
<1>5. pc[a] \in {"launch", "monitor"} => rec[a].state # "queued"
  BY DEF IInv, RecordsAgree
<1>6. Undisturbing
  <2>1. CASE UNCHANGED rec
    BY <2>1, <1>1 DEF Undisturbing
  <2>2. CASE ~UNCHANGED rec
    BY <2>2, <1>3, <1>4, <1>5, SparingOthersIsUndisturbing DEF Working
  <2> QED BY <2>1, <2>2
<1>7. /\ GateFree
      /\ interrupts' \subseteq interrupts /\ selected' \subseteq selected
      /\ faults' \in 0..MaxFaults
      /\ UNCHANGED <<unscheduled, undo, schedVars, pc, procVars, signals, callbacks,
                     gate, ws, phase, restarts>>
  BY BoundsOK DEF InterruptQueued, InterruptSelected, Interrupt, IInv, TypeOK
<1> QED
  BY <1>6, <1>7, UndisturbingPreserves DEF IInv, TypeOK

\* An invalid progress report fails the record under its runner.
LEMMA BadProgressPreserves ==
  ASSUME IInv, NEW a \in Analyses, BadProgress(a)
  PROVE  IInv'
<1>1. rec \in Maps /\ rec[a] \in Record
  BY DEF IInv, TypeOK, Maps
<1>2. Failed(rec[a]) \in Record /\ Failed(rec[a]).state = "failed"
  BY <1>1, RecordOps
<1>3. rec' \in Maps /\ SparesOthers(a, rec, rec') /\ rec'[a].state = "failed"
  BY <1>1, <1>2 DEF BadProgress, Maps, SparesOthers
<1>4. Undisturbing
  BY <1>3, SparingOthersIsUndisturbing DEF BadProgress
<1> QED
  BY <1>4, UndisturbingPreserves DEF BadProgress, Internal, shutVars, IInv, TypeOK

\* A submission creates records that nobody works for yet.
LEMMA SubmitPreserves ==
  ASSUME IInv, NEW r \in Analyses, Submit(r)
  PROVE  IInv'
<1> USE DEF IInv
<1> DEFINE new == {a \in Members(r) : a = r \/ Kind[a] = "source"} \union {r}
<1>1. GateFree /\ ws = "open" /\ phase = "serving" /\ rec[r].state = "absent"
  BY DEF Submit, External
<1>2. \A a \in Analyses : a \in Members(r) /\ Kind[a] = "source" /\ a # r =>
        Parent[a] = r
  BY DEF Members
<1>3. \A a \in new : a \in Analyses /\ rec[a].state = "absent"
  BY <1>1, <1>2 DEF Members, GroupsAreRoots
<1>4. /\ rec' \in Maps
      /\ \A a \in Analyses : IF a \in new THEN rec'[a].state \in Working
                                          ELSE rec'[a] = rec[a]
  BY DEF Submit, TypeOK, Maps, Record, Working, Gone
<1>5. \A a \in unscheduled' \ unscheduled : a \in new /\ Kind[a] # "group"
  BY RootsOK, NoAnalysisOK DEF Submit, Members
<1>6. TypeOK'
  BY <1>3, <1>4, <1>5 DEF Submit, TypeOK, Maps, schedVars, procVars, shutVars
<1>7. RunnersAgree' /\ WorkspaceHolds' /\ StoppedIsQuiet'
  BY DEF Submit, RunnersAgree, WorkspaceHolds, MayLive, StoppedIsQuiet, schedVars,
         procVars, shutVars
<1>8. RecordsAgree'
  <2>1. \A a \in new : pc[a] \notin {"commit", "launch", "monitor"}
    BY <1>3 DEF RecordsAgree
  <2>2. UNCHANGED pc
    BY DEF Submit
  <2> QED BY <1>4, <2>1, <2>2 DEF RecordsAgree
<1>9. GroupsAreRoots'
  <2> SUFFICES ASSUME NEW a \in Analyses
               PROVE  /\ Kind[a] = "group" => a \notin (unscheduled \union pending \union active)'
                      /\ Kind[a] = "source" /\ rec'[Parent[a]].state = "absent"
                           => rec'[a].state = "absent"
    BY DEF GroupsAreRoots
  <2>1. Kind[a] = "group" => a \notin (unscheduled \union pending \union active)'
    BY <1>5 DEF GroupsAreRoots, Submit, schedVars
  <2>2. ASSUME Kind[a] = "source", rec'[Parent[a]].state = "absent"
        PROVE  rec'[a].state = "absent"
    <3>1. Parent[a] \in Analyses
      BY <2>2, ParentOK, RootsOK
    <3>2. Parent[a] \notin new /\ rec[Parent[a]].state = "absent"
      BY <1>4, <2>2, <3>1 DEF Working
    <3>3. rec[a].state = "absent"
      BY <2>2, <3>2 DEF GroupsAreRoots
    <3>4. a \notin new
      <4>1. a # r
        BY <2>2 DEF Submit, MaySubmit
      <4>2. a \notin Members(r)
        BY <3>2, <4>1 DEF Members
      <4> QED BY <4>1, <4>2
    <3> QED BY <1>4, <3>3, <3>4
  <2> QED BY <2>1, <2>2
<1>10. ScheduledOnce'
  <2>1. \A a \in new : a \notin unscheduled \union pending \union active
    BY <1>3 DEF ScheduledOnce
  <2>2. UNCHANGED <<pending, active>>
    BY DEF Submit, schedVars
  <2> QED BY <1>3, <1>4, <1>5, <2>1, <2>2 DEF ScheduledOnce, Working
<1> QED BY <1>6, <1>7, <1>8, <1>9, <1>10

\* Admission publishes the record as running before the launch.
LEMMA AdmitCommitsPreserves ==
  ASSUME IInv, NEW a \in Analyses, AdmitCommits(a)
  PROVE  IInv'
<1> USE DEF IInv, AdmitCommits, Go
<1>1. /\ rec' \in Maps
      /\ rec'[a].state = "running"
      /\ \A b \in Analyses \ {a} : rec'[b] = rec[b]
  BY DEF TypeOK, Maps, Record, Working, Gone
<1>2. rec[a].state = "queued"
  BY DEF RecordsAgree
<1>3. TypeOK'
  BY <1>1 DEF TypeOK, Maps, schedVars, procVars, shutVars
<1>4. RunnersAgree' /\ WorkspaceHolds' /\ StoppedIsQuiet'
  BY NoAnalysisOK DEF TypeOK, RunnersAgree, WorkspaceHolds, MayLive, StoppedIsQuiet,
         schedVars, procVars, shutVars
<1>5. RecordsAgree'
  BY <1>1 DEF TypeOK, RecordsAgree
<1>6. GroupsAreRoots' /\ ScheduledOnce'
  BY <1>1, <1>2, ParentOK, RootsOK DEF GroupsAreRoots, ScheduledOnce, schedVars
<1> QED BY <1>3, <1>4, <1>5, <1>6

\* Deletion removes every record; its work was signalled when it began.
LEMMA DeleteEndPreserves ==
  ASSUME IInv, DeleteEnd
  PROVE  IInv'
<1> USE DEF IInv, DeleteEnd
<1>1. rec' \in Maps /\ Spares(rec, rec')
  <2>1. \A a \in {a \in Analyses : rec[a].state \notin Gone} : rec[a].state # "absent"
    BY DEF Gone
  <2> QED BY <2>1, EraseSpares DEF TypeOK, Maps
<1>2. Undisturbing
  BY <1>1, SparingIsUndisturbing
<1>3. TypeOK'
  BY <1>2 DEF TypeOK, Undisturbing, Maps, schedVars, procVars, shutVars
<1>4. \A a \in Analyses : pc[a] # "commit"
  BY AnalysesOK DEF RunnersAgree
<1>5. RunnersAgree' /\ WorkspaceHolds' /\ StoppedIsQuiet'
  BY <1>4 DEF RunnersAgree, WorkspaceHolds, MayLive, StoppedIsQuiet, schedVars,
         procVars, shutVars
<1>6. RecordsAgree'
  BY <1>2, <1>4 DEF RecordsAgree, Undisturbing
<1>7. GroupsAreRoots' /\ ScheduledOnce'
  BY <1>2, ParentOK, RootsOK DEF GroupsAreRoots, ScheduledOnce, Undisturbing, schedVars
<1> QED BY <1>3, <1>5, <1>6, <1>7

\* The restart fails what was interrupted, when there is no runner.
LEMMA RestartPreserves ==
  ASSUME IInv, Restart
  PROVE  IInv'
<1> USE DEF IInv, Restart
<1>1. rec \in Maps
  BY DEF TypeOK, Maps
<1> DEFINE R == Put(rec, {a \in Analyses : rec[a].state \in Working}, Failed)
<1>2. R \in Maps /\ \A a \in Analyses : R[a].state = "absent" <=> rec[a].state = "absent"
  <2>1. \A a \in Analyses : Failed(rec[a]) \in Record /\ Failed(rec[a]).state = "failed"
    BY <1>1, RecordOps DEF Maps
  <2> QED BY <1>1, <2>1 DEF Put, Maps, Working
<1>3. /\ Interrupted \in Maps
      /\ \A a \in Analyses : Interrupted[a].state = "absent" <=> rec[a].state = "absent"
  <2> DEFINE S == {a \in Analyses : R[a].state \notin Gone /\ ~R[RootOf(a)].live}
  <2>1. \A a \in S \intersect Analyses : R[a].state # "absent"
    BY DEF Gone
  <2>2. Put(R, S, Erased) \in Maps /\ Spares(R, Put(R, S, Erased))
    <3> HIDE DEF R, S
    <3> QED BY <1>2, <2>1, EraseSpares
  <2>3. Interrupted = Put(R, S, Erased)
    BY DEF Interrupted
  <2> HIDE DEF R, S
  <2> QED BY <1>2, <2>2, <2>3 DEF Spares, Terminal
<1>4. rec' \in Maps /\ \A a \in Analyses : rec'[a].state = "absent" <=> rec[a].state = "absent"
  BY <1>1, <1>3
<1>5. active = {} /\ \A a \in Analyses : pc[a] = "none"
  BY DEF StoppedIsQuiet, RunnersAgree, TypeOK
<1>6. TypeOK'
  <2>1. rec' \in [Analyses -> Record]
    BY <1>4 DEF Maps
  <2>2. faults' \in 0..MaxFaults /\ restarts' \in 0..MaxRestarts
    BY BoundsOK DEF TypeOK, MayStop
  <2>3. /\ phase' = "serving"
        /\ UNCHANGED <<unscheduled, undo, schedVars, pc, procVars, signals,
                       callbacks, gate, ws, interrupts, selected>>
    OBVIOUS
  <2> HIDE DEF Restart
  <2> QED BY <2>1, <2>2, <2>3 DEF TypeOK, schedVars, procVars
<1>7. RunnersAgree' /\ WorkspaceHolds' /\ RecordsAgree' /\ StoppedIsQuiet'
  BY <1>5 DEF RunnersAgree, WorkspaceHolds, MayLive, RecordsAgree, StoppedIsQuiet,
         schedVars, procVars
<1>8. GroupsAreRoots' /\ ScheduledOnce'
  <2>1. UNCHANGED <<unscheduled, pending, active>>
    BY DEF schedVars
  <2> HIDE DEF Restart
  <2> QED BY <1>4, <2>1, ParentOK, RootsOK DEF GroupsAreRoots, ScheduledOnce
<1> QED BY <1>6, <1>7, <1>8

\* The steps below leave the records alone; each conjunct that they can
\* disturb follows from the definitions.

\* Signalling entries starts nothing, and leaves nothing alive or startable.
LEMMA CancelEntriesStops ==
  ASSUME IInv, NEW S, CancelEntries(S)
  PROVE  /\ entry' \in [Analyses -> {"none", "reserved", "flagged"}]
         /\ proc' \in [Analyses -> {"none", "alive"} \union Outcomes]
         /\ \A a \in Analyses :
              /\ entry'[a] = "none" <=> entry[a] = "none"
              /\ entry'[a] = "reserved" => entry[a] = "reserved" /\ a \notin S
              /\ proc'[a] = "alive" => proc[a] = "alive" /\ a \notin S
<1>1. /\ entry \in [Analyses -> {"none", "reserved", "flagged"}]
      /\ proc \in [Analyses -> {"none", "alive"} \union Outcomes]
      /\ \A a \in Analyses : proc[a] = "alive" => entry[a] # "none"
  BY DEF IInv, TypeOK, RunnersAgree
<1>2. entry' \in [Analyses -> {"none", "reserved", "flagged"}]
  BY <1>1 DEF CancelEntries
<1>3. proc' \in [Analyses -> {"none", "alive"} \union Outcomes]
  BY <1>1 DEF CancelEntries, Outcomes
<1>4. \A a \in Analyses :
         /\ entry'[a] = IF a \in S /\ entry[a] # "none" THEN "flagged" ELSE entry[a]
         /\ proc'[a] = IF a \in S /\ proc[a] = "alive" /\ entry[a] # "none"
                         THEN "dead" ELSE proc[a]
  BY DEF CancelEntries
<1> QED BY <1>1, <1>2, <1>3, <1>4

\* From the request to the queue, to a runner, to its end.
LEMMA SchedulingPreserves ==
  ASSUME IInv, NEW a \in Analyses,
         \/ Enqueue(a) \/ Dispatch(a) \/ NotAdmitted(a) \/ AdmitSkips(a)
         \/ Raises(a) \/ Release(a) \/ DeliverCancel(a) \/ FinalizeClose(a)
  PROVE  IInv'
<1> USE DEF IInv, TypeOK, RunnersAgree, MayLive, WorkspaceHolds, RecordsAgree,
      GroupsAreRoots, ScheduledOnce, StoppedIsQuiet, recVars, schedVars, procVars,
      shutVars
<1>1. CASE Enqueue(a)
  BY <1>1 DEF Enqueue
<1>2. CASE Dispatch(a)
  BY <1>2 DEF Dispatch, Go, SchedulerAccepts
<1>3. CASE NotAdmitted(a)
  BY <1>3 DEF NotAdmitted, Go
<1>4. CASE AdmitSkips(a)
  BY <1>4 DEF AdmitSkips, Go
<1>5. CASE Raises(a)
  BY <1>5, BoundsOK DEF Raises, Go
<1>6. CASE Release(a)
  BY <1>6 DEF Release, Go
<1>7. CASE DeliverCancel(a)
  <2>1. CASE a \in pending
    BY <1>7, <2>1 DEF DeliverCancel
  <2>2. CASE a \notin pending
    BY <1>7, <2>2, CancelEntriesStops DEF DeliverCancel
  <2> QED BY <2>1, <2>2
<1>8. CASE FinalizeClose(a)
  BY <1>8 DEF FinalizeClose, HasWork
<1> QED BY <1>1, <1>2, <1>3, <1>4, <1>5, <1>6, <1>7, <1>8

\* Reserving, launching and losing a process.
LEMMA ExecutionPreserves ==
  ASSUME IInv, NEW a \in Analyses,
         \/ AdmitReserves(a) \/ AdmitRollsBack(a)
         \/ LaunchSuppressed(a) \/ LaunchFails(a) \/ Launch(a)
         \/ Receive(a) \/ ProgressRaises(a)
         \/ \E outcome \in Outcomes : WorkerEnds(a, outcome)
  PROVE  IInv'
<1> USE DEF IInv, TypeOK, RunnersAgree, MayLive, WorkspaceHolds, RecordsAgree,
      GroupsAreRoots, ScheduledOnce, StoppedIsQuiet, recVars, schedVars, procVars,
      shutVars
<1> USE DEF Outcomes
<1>1. CASE AdmitReserves(a)
  BY <1>1, NoAnalysisOK, AnalysesOK DEF AdmitReserves, Go, Internal, GateFree
<1>2. CASE AdmitRollsBack(a)
  BY <1>2, NoAnalysisOK, BoundsOK DEF AdmitRollsBack, Go
<1>3. CASE LaunchSuppressed(a)
  BY <1>3 DEF LaunchSuppressed, Go
<1>4. CASE LaunchFails(a)
  BY <1>4 DEF LaunchFails, Go
<1>5. CASE Launch(a)
  BY <1>5 DEF Launch, Go
<1>6. CASE Receive(a)
  BY <1>6 DEF Receive, Go
<1>7. CASE ProgressRaises(a)
  BY <1>7 DEF ProgressRaises, Go
<1>8. CASE \E outcome \in Outcomes : WorkerEnds(a, outcome)
  BY <1>8 DEF WorkerEnds
<1> QED BY <1>8, <1>1, <1>2, <1>3, <1>4, <1>5, <1>6, <1>7

\* The Workspace closes, opens, or is about to be deleted.
LEMMA WorkspaceStepsPreserve ==
  ASSUME IInv, RequestClose \/ Reopen \/ DeleteBegin \/ DeleteFails
  PROVE  IInv'
<1> USE DEF IInv, TypeOK, RunnersAgree, MayLive, WorkspaceHolds, RecordsAgree,
      GroupsAreRoots, ScheduledOnce, StoppedIsQuiet, recVars, schedVars, procVars,
      shutVars
<1>1. CASE RequestClose
  BY <1>1 DEF RequestClose, HasWork
<1>2. CASE Reopen
  BY <1>2 DEF Reopen
<1>3. CASE DeleteBegin
  BY <1>3, CancelEntriesStops, NoAnalysisOK, AnalysesOK DEF DeleteBegin, GateFree
<1>4. CASE DeleteFails
  BY <1>4, NoAnalysisOK, AnalysesOK, BoundsOK DEF DeleteFails
<1> QED BY <1>1, <1>2, <1>3, <1>4

\* Shutdown and crash.
LEMMA ShutdownStepsPreserve ==
  ASSUME IInv,
         \/ StopAccepting \/ StopDispatch \/ ReadActive \/ CloseExecutor
         \/ WaitIdle \/ Down \/ Crash
  PROVE  IInv'
<1> USE DEF IInv, TypeOK, RunnersAgree, MayLive, WorkspaceHolds, RecordsAgree,
      GroupsAreRoots, ScheduledOnce, StoppedIsQuiet, recVars, schedVars, procVars,
      shutVars
<1>1. CASE StopAccepting
  BY <1>1 DEF StopAccepting
<1>2. CASE StopDispatch
  BY <1>2 DEF StopDispatch
<1>3. CASE ReadActive
  BY <1>3 DEF ReadActive
<1>4. CASE CloseExecutor
  BY <1>4, CancelEntriesStops DEF CloseExecutor
<1>5. CASE WaitIdle
  BY <1>5 DEF WaitIdle
<1>6. CASE Down
  BY <1>6, NoAnalysisOK DEF Down, Vanish
<1>7. CASE Crash
  BY <1>7, NoAnalysisOK DEF Crash, Vanish
<1> QED BY <1>1, <1>2, <1>3, <1>4, <1>5, <1>6, <1>7

\* The invariant holds at first.
LEMMA InitEstablishes == Init => IInv
BY BoundsOK
   DEF Init, IInv, TypeOK, Record, Working, Terminal, Gone, RunnersAgree, MayLive,
       WorkspaceHolds, RecordsAgree, GroupsAreRoots, ScheduledOnce, StoppedIsQuiet

\* Every step keeps it.
LEMMA NextPreserves == IInv /\ [Next]_vars => IInv'
<1> SUFFICES ASSUME IInv, [Next]_vars
             PROVE  IInv'
  OBVIOUS
<1>1. CASE Submission
  BY <1>1, SubmitPreserves, SchedulingPreserves, ClientCommitsPreserve DEF Submission
<1>2. CASE Cancellation
  BY <1>2, SchedulingPreserves, ClientCommitsPreserve DEF Cancellation
<1>3. CASE ClearTab
  <2>1. PICK a \in Analyses : TRUE
    BY <1>3 DEF ClearTab
  <2> QED BY <1>3, <2>1, ClientCommitsPreserve
<1>4. CASE Runner
  <2> SUFFICES ASSUME NEW a \in Analyses,
                      \/ Dispatch(a) \/ Admission(a) \/ Execution(a) \/ Conclusion(a)
                      \/ \E outcome \in Outcomes : WorkerEnds(a, outcome)
               PROVE  IInv'
    BY <1>4 DEF Runner
  <2>1. CASE Admission(a)
    BY <2>1, SchedulingPreserves, ExecutionPreserves, RunnerCommitsPreserve,
       AdmitCommitsPreserves DEF Admission
  <2>2. CASE Execution(a)
    BY <2>2, ExecutionPreserves, BadProgressPreserves DEF Execution
  <2>3. CASE Conclusion(a)
    BY <2>3, RunnerCommitsPreserve, SchedulingPreserves DEF Conclusion
  <2> QED BY <2>1, <2>2, <2>3, SchedulingPreserves, ExecutionPreserves
<1>5. CASE WorkspaceLifecycle
  BY <1>5, SchedulingPreserves, WorkspaceStepsPreserve, DeleteEndPreserves
     DEF WorkspaceLifecycle
<1>6. CASE Shutdown
  BY <1>6, ShutdownStepsPreserve, InterruptionsPreserve, RestartPreserves DEF Shutdown
<1>7. CASE UNCHANGED vars
  BY <1>7 DEF vars, recVars, schedVars, procVars, shutVars, IInv, TypeOK, RunnersAgree,
     MayLive, WorkspaceHolds, RecordsAgree, GroupsAreRoots, ScheduledOnce, StoppedIsQuiet
<1> QED BY <1>1, <1>2, <1>3, <1>4, <1>5, <1>6, <1>7 DEF Next

----------------------------------------------------------------------------
\* Theorems

\* The parts agree in every reachable state.
THEOREM Invariance == Spec => []IInv
BY InitEstablishes, NextPreserves, PTL DEF Spec

\* Every variable keeps its type, and every record its shape: a record that is
\* not there is in no Tab.
THEOREM TypeCorrect == Spec => []TypeOK
BY Invariance, PTL DEF IInv

\* No worker process outlives its Workspace, whatever closes, deletes or
\* shuts down around it.
THEOREM WorkspaceSafety == Spec => []NoProcessWithoutWorkspace
<1>1. IInv => NoProcessWithoutWorkspace
  BY DEF IInv, WorkspaceHolds, MayLive, NoProcessWithoutWorkspace
<1> QED BY <1>1, Invariance, PTL

\* Nothing is published as cancelled while its process runs.
THEOREM CancellationSafety == Spec => []CancelledHasNoProcess
<1>1. IInv => CancelledHasNoProcess
  BY DEF IInv, RunnersAgree, RecordsAgree, CancelledHasNoProcess
<1> QED BY <1>1, Invariance, PTL

----------------------------------------------------------------------------
\* The forest of analyses

\* A source is submitted under a group.
LEMMA SourcesHaveGroups ==
  ASSUME NEW s \in Analyses, Kind[s] = "source"
  PROVE  Parent[s] \in Analyses /\ Kind[Parent[s]] = "group" /\ Parent[s] # s
BY ParentOK, RootsOK, SourcesOK

\* What is above an analysis: its parent, and what is above its parent.
LEMMA LineageClimbs ==
  ASSUME NEW a \in Analyses, Parent[a] \in Analyses
  PROVE  Parent[a] \in Lineage[a] /\ Lineage[Parent[a]] \subseteq Lineage[a]
<1> DEFINE p == Parent[a]
           Above(x) == {b \in Analyses :
              \A S \in SUBSET Analyses : Parent[x] \in S /\ ClosedUpwards(S) => b \in S}
<1>1. \A x \in Analyses : Lineage[x] = IF Parent[x] = NoAnalysis THEN {} ELSE Above(x)
  BY DEF Lineage
<1>2. p # NoAnalysis
  BY NoAnalysisOK
<1>3. p \in Above(a)
  OBVIOUS
<1>4. ASSUME NEW b \in Lineage[p]
      PROVE  b \in Above(a)
  <2>1. Parent[p] # NoAnalysis /\ b \in Above(p)
    BY <1>1
  <2> SUFFICES ASSUME NEW S \in SUBSET Analyses, p \in S, ClosedUpwards(S)
               PROVE  b \in S
    BY <2>1
  <2>2. Parent[p] \in S
    BY <2>1 DEF ClosedUpwards
  <2> QED BY <2>1, <2>2
<1> QED BY <1>1, <1>2, <1>3, <1>4

\* A tree holds the children of its members.
LEMMA TreesAreClosed ==
  ASSUME NEW R, NEW b, NEW a \in Analyses, Parent[a] \in Tree(R, b), R[a].state \notin Gone
  PROVE  a \in Tree(R, b)
<1>1. Parent[a] \in Analyses /\ (Parent[a] = b \/ b \in Lineage[Parent[a]])
  BY DEF Tree
<1> QED BY <1>1, LineageClimbs DEF Tree

----------------------------------------------------------------------------
\* How a mutation moves the records

\* One record, by one commit.
Moves(r, r2) ==
  \/ r2.state = r.state /\ r2.creq = r.creq
  \/ r.state = "running" /\ r2.state = "running" /\ r2.creq
  \/ r.state \in Working /\ r2.state = "cancelled" /\ r2.creq
  \/ r.state \in Working /\ r2.state = "failed" /\ r2.creq = r.creq
  \/ r.state = "running" /\ r2.state = "succeeded" /\ r2.creq = r.creq
  \/ r.state \notin Gone /\ r2.state = "removed"

\* A commit takes no record from under its runner, unless a success
\* supersedes it; a group has no runner.
RunsOn(a, r, r2) ==
  /\ r.state = "running" /\ Kind[a] # "group" =>
       r2.state = "running" \/ (r2.state = "removed" /\ a \in SupersededMembers)
  /\ r.state = "removed" => r2.state = "removed"

LeavesRunning(R, R2) == \A a \in Analyses : RunsOn(a, R[a], R2[a])

\* What the records of a group and of its sources say of each other.
GroupsHold(R) ==
  \A a \in Analyses :
    /\ Kind[a] = "group" => R[a].state # "queued"
    /\ Kind[a] = "source" /\ R[a].state \notin Gone =>
         /\ R[Parent[a]].state \in Terminal => R[a].state \in Terminal
         /\ R[Parent[a]].state = "succeeded" => R[a].state = "succeeded"
    /\ Kind[a] = "source" /\ R[a].state = "queued" =>
         R[a].live /\ R[Parent[a]].live /\ R[Parent[a]].state = "running"

\* A mutation that follows the life cycle.
Evolves(R, R2) ==
  /\ R2 \in Maps
  /\ GroupsHold(R2)
  /\ \A a \in Analyses : Moves(R[a], R2[a])

\* A mutation that removes records, the sources of a group with it.
Removes(R, R2) ==
  /\ R2 \in Maps
  /\ \A a \in Analyses : \/ R2[a] = R[a]
                         \/ R[a].state \notin Gone /\ R2[a].state = "removed"
  /\ \A a \in Analyses : Kind[a] = "source" /\ R2[a].state \notin Gone =>
                           R2[Parent[a]] = R[Parent[a]]

\* To remove records is to let the map evolve.
LEMMA RemovalEvolves ==
  ASSUME NEW R \in Maps, NEW R2, GroupsHold(R), Removes(R, R2)
  PROVE  Evolves(R, R2)
<1>1. \A a \in Analyses : Moves(R[a], R2[a])
  BY DEF Removes, Moves
<1>2. GroupsHold(R2)
  <2> SUFFICES ASSUME NEW a \in Analyses
               PROVE  /\ Kind[a] = "group" => R2[a].state # "queued"
                      /\ Kind[a] = "source" /\ R2[a].state \notin Gone =>
                           R2[a] = R[a] /\ R2[Parent[a]] = R[Parent[a]]
    BY DEF GroupsHold, Gone
  <2> QED BY DEF GroupsHold, Removes, Gone
<1> QED BY <1>1, <1>2 DEF Evolves, Removes

\* Removing after moving is moving.
LEMMA EvolvesThenRemoves ==
  ASSUME NEW R \in Maps, NEW R1, NEW R2, Evolves(R, R1), Removes(R1, R2)
  PROVE  Evolves(R, R2)
<1>1. Evolves(R1, R2)
  BY RemovalEvolves DEF Evolves
<1>2. ASSUME NEW a \in Analyses PROVE Moves(R[a], R2[a])
  BY DEF Evolves, Removes, Moves, Gone, Working
<1> QED BY <1>1, <1>2 DEF Evolves

\* Operators that leave the running records alone compose.
LEMMA LeavesRunningTransitive ==
  ASSUME NEW R, NEW R1, NEW R2, LeavesRunning(R, R1), LeavesRunning(R1, R2)
  PROVE  LeavesRunning(R, R2)
BY DEF LeavesRunning, RunsOn

\* Erasing a set of records that is closed under their sources.
LEMMA ErasingRemoves ==
  ASSUME NEW R \in Maps, NEW S,
         \A a \in S \intersect Analyses : R[a].state \notin Gone,
         \A a \in Analyses : Parent[a] \in S /\ R[a].state \notin Gone => a \in S
  PROVE  Removes(R, Put(R, S, Erased))
<1>1. \A a \in Analyses : R[a] \in Record
  BY DEF Maps
<1>2. \A a \in Analyses : Erased(R[a]) \in Record /\ Erased(R[a]).state = "removed"
  BY <1>1, RecordOps
<1>3. Put(R, S, Erased) \in Maps
  BY <1>1, <1>2 DEF Maps, Put
<1>4. \A a \in Analyses : Put(R, S, Erased)[a] = IF a \in S THEN Erased(R[a]) ELSE R[a]
  BY DEF Put
<1>5. ASSUME NEW a \in Analyses, Kind[a] = "source", Put(R, S, Erased)[a].state \notin Gone
      PROVE  Put(R, S, Erased)[Parent[a]] = R[Parent[a]]
  <2>1. a \notin S /\ R[a].state \notin Gone
    BY <1>2, <1>4, <1>5 DEF Gone
  <2>2. Parent[a] \notin S /\ Parent[a] \in Analyses
    BY <1>5, <2>1, SourcesHaveGroups
  <2> QED BY <1>4, <2>2
<1> QED BY <1>2, <1>3, <1>4, <1>5 DEF Removes

\* RemoveTree does nothing but remove.
LEMMA RemoveTreeRemoves ==
  ASSUME NEW R \in Maps, NEW a
  PROVE  Removes(R, RemoveTree(R, a))
<1>1. \A b \in Tree(R, a) : R[b].state \notin Gone
  BY DEF Tree
<1>2. \A b \in Analyses : Parent[b] \in Tree(R, a) /\ R[b].state \notin Gone => b \in Tree(R, a)
  BY TreesAreClosed
<1> QED BY <1>1, <1>2, ErasingRemoves DEF RemoveTree

\* DropDetached removes, and none that runs.
LEMMA DropDetachedRemoves ==
  ASSUME NEW R \in Maps, NEW a
  PROVE  Removes(R, DropDetached(R, a)) /\ LeavesRunning(R, DropDetached(R, a))
<1> DEFINE r == RootOf(a)
<1>1. CASE ~R[r].live /\ \A b \in Tree(R, r) : R[b].state \in Terminal
  <2>1. DropDetached(R, a) = RemoveTree(R, r)
    BY <1>1 DEF DropDetached
  <2>2. Removes(R, RemoveTree(R, r))
    BY RemoveTreeRemoves
  <2>3. \A b \in Analyses : RemoveTree(R, r)[b] = IF b \in Tree(R, r) THEN Erased(R[b]) ELSE R[b]
    BY DEF RemoveTree, Put
  <2>4. LeavesRunning(R, RemoveTree(R, r))
    BY <1>1, <2>3 DEF LeavesRunning, RunsOn, Terminal, Tree, Gone
  <2> QED BY <2>1, <2>2, <2>4
<1>2. CASE ~(~R[r].live /\ \A b \in Tree(R, r) : R[b].state \in Terminal)
  <2>1. DropDetached(R, a) = R
    BY <1>2 DEF DropDetached
  <2> QED BY <2>1 DEF Removes, LeavesRunning, RunsOn
<1> QED BY <1>1, <1>2

\* Supersede removes, and none that runs.
LEMMA SupersedeRemoves ==
  ASSUME NEW R \in Maps, NEW a \in Analyses
  PROVE  Removes(R, Supersede(R, a)) /\ LeavesRunning(R, Supersede(R, a))
<1> DEFINE S == UNION {Tree(R, b) : b \in Supersedes[a]}
<1>1. \A x \in S : R[x].state \notin Gone
  BY DEF Tree
<1>2. ASSUME NEW x \in Analyses, Parent[x] \in S, R[x].state \notin Gone
      PROVE  x \in S
  <2>1. PICK b \in Supersedes[a] : Parent[x] \in Tree(R, b)
    BY <1>2
  <2> QED BY <1>2, <2>1, TreesAreClosed
<1>3. \A x \in S : x \in SupersededMembers
  BY SupersedesOK DEF Tree, SupersededMembers
<1>4. Supersede(R, a) = Put(R, S, Erased)
  BY DEF Supersede
<1> HIDE DEF S
<1>5. Removes(R, Put(R, S, Erased))
  BY <1>1, <1>2, ErasingRemoves
<1>6. \A x \in Analyses : Put(R, S, Erased)[x] = IF x \in S THEN Erased(R[x]) ELSE R[x]
  BY DEF Put
<1>7. \A x \in Analyses : Erased(R[x]).state = "removed"
  BY RecordOps DEF Maps
<1>8. LeavesRunning(R, Put(R, S, Erased))
  BY <1>3, <1>6, <1>7 DEF LeavesRunning, RunsOn
<1> QED BY <1>4, <1>5, <1>8

\* A record that is executed by itself is started, or ends.
LEMMA OneRecordHolds ==
  ASSUME NEW R \in Maps, GroupsHold(R), NEW a \in Analyses, Kind[a] # "group",
         R[a].state \in Working, NEW r \in Record, r.state \in Terminal \union {"running"}
  PROVE  [R EXCEPT ![a] = r] \in Maps /\ GroupsHold([R EXCEPT ![a] = r])
<1> DEFINE R2 == [R EXCEPT ![a] = r]
<1>1. R2 \in Maps /\ R2[a] = r /\ \A b \in Analyses \ {a} : R2[b] = R[b]
  BY DEF Maps
<1> HIDE DEF R2
<1>2. ASSUME NEW b \in Analyses
      PROVE  /\ Kind[b] = "group" => R2[b].state # "queued"
             /\ Kind[b] = "source" /\ R2[b].state \notin Gone =>
                  /\ R2[Parent[b]].state \in Terminal => R2[b].state \in Terminal
                  /\ R2[Parent[b]].state = "succeeded" => R2[b].state = "succeeded"
             /\ Kind[b] = "source" /\ R2[b].state = "queued" =>
                  R2[b].live /\ R2[Parent[b]].live /\ R2[Parent[b]].state = "running"
  <2>1. CASE b = a
    <3>1. Kind[a] = "source" => Parent[a] \in Analyses \ {a}
      BY SourcesHaveGroups
    <3>2. Kind[a] = "source" => R[Parent[a]].state \notin Terminal
      BY DEF GroupsHold, Working, Terminal, Gone
    <3> QED BY <1>1, <2>1, <3>1, <3>2 DEF Terminal
  <2>2. CASE b # a
    <3>1. Kind[b] = "source" => Parent[b] \in Analyses \ {a}
      BY SourcesHaveGroups
    <3> QED BY <1>1, <2>2, <3>1 DEF GroupsHold
  <2> QED BY <2>1, <2>2
<1> QED BY <1>1, <1>2 DEF GroupsHold, R2

\* One record under way that ends lets the map evolve.
LEMMA OneRecordEvolves ==
  ASSUME NEW R \in Maps, GroupsHold(R), NEW a \in Analyses, Kind[a] # "group",
         R[a].state \in Working, NEW r \in Record, Moves(R[a], r), r.state \in Terminal
  PROVE  Evolves(R, [R EXCEPT ![a] = r])
<1>1. [R EXCEPT ![a] = r] \in Maps /\ GroupsHold([R EXCEPT ![a] = r])
  BY OneRecordHolds
<1>2. \A b \in Analyses : Moves(R[b], [R EXCEPT ![a] = r][b])
  BY DEF Maps, Moves
<1> QED BY <1>1, <1>2 DEF Evolves

\* A group ends with all of its sources, and succeeds only if they did.
LEMMA GroupRecordEvolves ==
  ASSUME NEW R \in Maps, GroupsHold(R), NEW g \in Analyses, GroupEnds(R, g),
         NEW r \in Record, Moves(R[g], r), r.state \in Terminal,
         r.state = "succeeded" => GroupSucceeds(R, g)
  PROVE  /\ Evolves(R, [R EXCEPT ![g] = r])
         /\ LeavesRunning(R, [R EXCEPT ![g] = r])
<1> DEFINE R2 == [R EXCEPT ![g] = r]
<1>1. R2 \in Maps /\ R2[g] = r /\ \A b \in Analyses \ {g} : R2[b] = R[b]
  BY DEF Maps
<1>2. Kind[g] = "group" /\ R[g].state = "running"
  BY DEF GroupEnds
<1>3. (\A b \in Analyses : Moves(R[b], R2[b])) /\ LeavesRunning(R, R2)
  BY <1>1, <1>2 DEF Moves, LeavesRunning, RunsOn
<1>4. ASSUME NEW s \in Analyses, Kind[s] = "source", Parent[s] = g, R[s].state \notin Gone
      PROVE  R[s].state \in Terminal /\ (GroupSucceeds(R, g) => R[s].state = "succeeded")
  <2>1. s \in ChildrenOf(R, g)
    BY <1>4 DEF ChildrenOf
  <2> QED BY <2>1 DEF GroupEnds, GroupSucceeds, SomeChild, Terminal
<1> HIDE DEF R2
<1>5. ASSUME NEW b \in Analyses
      PROVE  /\ Kind[b] = "group" => R2[b].state # "queued"
             /\ Kind[b] = "source" /\ R2[b].state \notin Gone =>
                  /\ R2[Parent[b]].state \in Terminal => R2[b].state \in Terminal
                  /\ R2[Parent[b]].state = "succeeded" => R2[b].state = "succeeded"
             /\ Kind[b] = "source" /\ R2[b].state = "queued" =>
                  R2[b].live /\ R2[Parent[b]].live /\ R2[Parent[b]].state = "running"
  <2>1. CASE b = g
    BY <1>1, <1>2, <2>1 DEF Terminal
  <2>2. CASE b # g /\ Parent[b] = g
    BY <1>1, <1>2, <1>4, <2>2 DEF Terminal, Gone, GroupsHold
  <2>3. CASE b # g /\ Parent[b] # g
    <3>1. Kind[b] = "source" => Parent[b] \in Analyses \ {g}
      BY <2>3, SourcesHaveGroups
    <3> QED BY <1>1, <2>3, <3>1 DEF GroupsHold
  <2> QED BY <2>1, <2>2, <2>3
<1> QED BY <1>1, <1>3, <1>5 DEF Evolves, GroupsHold, R2

\* What the end of a group leaves alone, or removes.
Aside(g, R, R2) ==
  \A b \in Analyses \ {g} :
    R2[b] = R[b] \/ (R[b].state \notin Gone /\ R2[b].state = "removed")

\* A group that ends with its sources lets the map evolve, and ends as cancelled
\* when that was requested.
LEMMA EndGroupEvolves ==
  ASSUME NEW R \in Maps, GroupsHold(R), NEW g \in Analyses, GroupEnds(R, g)
  PROVE  /\ Evolves(R, EndGroup(R, g))
         /\ LeavesRunning(R, EndGroup(R, g))
         /\ Aside(g, R, EndGroup(R, g))
         /\ R[g].creq => EndGroup(R, g)[g] = CancelledNow(R[g])
<1>1. Kind[g] = "group" /\ R[g].state = "running" /\ R[g] \in Record
  BY DEF GroupEnds, Maps
<1>2. CASE GroupSucceeds(R, g)
  <2> DEFINE r == [R[g] EXCEPT !.state = "succeeded"]
             D == [R EXCEPT ![g] = r]
  <2>1. r \in Record /\ r.state = "succeeded" /\ r.creq = R[g].creq
    BY <1>1 DEF Record, Working, Terminal, Gone
  <2>2. Moves(R[g], r) /\ r.state \in Terminal
    BY <1>1, <2>1 DEF Moves, Terminal
  <2>3. Evolves(R, D) /\ LeavesRunning(R, D)
    <3> HIDE DEF r
    <3> QED BY <1>2, <2>1, <2>2, GroupRecordEvolves
  <2>4. \A b \in Analyses \ {g} : D[b] = R[b]
    BY DEF Maps
  <2>5. EndGroup(R, g) = Supersede(D, g)
    BY <1>1, <1>2 DEF EndGroup
  <2> HIDE DEF D
  <2>6. Removes(D, Supersede(D, g)) /\ LeavesRunning(D, Supersede(D, g))
    BY <2>3, SupersedeRemoves DEF Evolves
  <2>7. Evolves(R, Supersede(D, g)) /\ LeavesRunning(R, Supersede(D, g))
    BY <2>3, <2>6, EvolvesThenRemoves, LeavesRunningTransitive
  <2>8. Aside(g, R, Supersede(D, g))
    BY <2>4, <2>6 DEF Aside, Removes
  <2> QED BY <1>2, <2>5, <2>7, <2>8 DEF GroupSucceeds
<1>3. CASE ~GroupSucceeds(R, g)
  <2>1. PICK r \in {CancelledNow(R[g]), Failed(R[g])} :
          EndGroup(R, g) = [R EXCEPT ![g] = r] /\ (R[g].creq => r = CancelledNow(R[g]))
    BY <1>3 DEF EndGroup
  <2>2. r \in Record /\ r.state \in {"cancelled", "failed"} /\ Moves(R[g], r)
    <3>1. CancelledNow(R[g]).creq /\ Failed(R[g]).creq = R[g].creq
      BY <1>1 DEF CancelledNow, Failed, Record
    <3> QED BY <1>1, <3>1, RecordOps DEF Moves, Working
  <2>3. Evolves(R, [R EXCEPT ![g] = r]) /\ LeavesRunning(R, [R EXCEPT ![g] = r])
    BY <2>2, GroupRecordEvolves DEF Terminal
  <2>4. Aside(g, R, [R EXCEPT ![g] = r]) /\ [R EXCEPT ![g] = r][g] = r
    BY DEF Aside, Maps
  <2> QED BY <2>1, <2>3, <2>4
<1> QED BY <1>2, <1>3

\* Two mutations that move different records are one.
LEMMA EvolvesElsewhere ==
  ASSUME NEW R \in Maps, NEW R1, NEW R2, Evolves(R, R1), Evolves(R1, R2),
         \A b \in Analyses : \/ R1[b] = R[b]
                             \/ R2[b] = R1[b]
                             \/ R1[b].state \notin Gone /\ R2[b].state = "removed"
  PROVE  Evolves(R, R2)
<1>1. ASSUME NEW b \in Analyses PROVE Moves(R[b], R2[b])
  <2>1. CASE R1[b] = R[b] \/ R2[b] = R1[b]
    BY <2>1 DEF Evolves
  <2>2. CASE R1[b].state \notin Gone /\ R2[b].state = "removed"
    <3>1. Moves(R[b], R1[b])
      BY DEF Evolves
    <3> QED BY <2>2, <3>1 DEF Moves, Gone, Working
  <2> QED BY <2>1, <2>2
<1> QED BY <1>1 DEF Evolves

\* FinalizeGroup does so when the group is due, and nothing otherwise.
LEMMA FinalizeGroupEvolves ==
  ASSUME NEW R \in Maps, GroupsHold(R), NEW a \in Analyses
  PROVE  /\ Evolves(R, FinalizeGroup(R, a))
         /\ LeavesRunning(R, FinalizeGroup(R, a))
         /\ Aside(Parent[a], R, FinalizeGroup(R, a))
         /\ ~GroupEnds(R, Parent[a]) => FinalizeGroup(R, a) = R
<1>1. CASE GroupEnds(R, Parent[a])
  <2>1. Parent[a] \in Analyses
    BY <1>1, ParentOK DEF GroupEnds
  <2> QED BY <1>1, <2>1, EndGroupEvolves DEF FinalizeGroup
<1>2. CASE ~GroupEnds(R, Parent[a])
  BY <1>2 DEF FinalizeGroup, Evolves, LeavesRunning, RunsOn, Moves, Aside
<1> QED BY <1>1, <1>2

\* What follows the end of a's record: its group, and its detached tree.
LEMMA SettlingEvolves ==
  ASSUME NEW R \in Maps, NEW R1, Evolves(R, R1), NEW a \in Analyses, Kind[a] # "group",
         \A b \in Analyses \ {a} : R1[b] = R[b] \/ R1[b].state = "removed",
         NEW F \in {R1, FinalizeGroup(R1, a)}
  PROVE  /\ Evolves(R, DropDetached(F, a))
         /\ LeavesRunning(R1, DropDetached(F, a))
<1>1. R1 \in Maps /\ GroupsHold(R1)
  BY DEF Evolves
<1>2. Evolves(R, F) /\ LeavesRunning(R1, F)
  <2>1. CASE F = R1
    BY <2>1 DEF LeavesRunning, RunsOn
  <2>2. CASE F = FinalizeGroup(R1, a) /\ GroupEnds(R1, Parent[a])
    <3> DEFINE g == Parent[a]
    <3>1. g \in Analyses \ {a} /\ R1[g].state = "running"
      BY <2>2, ParentOK DEF GroupEnds
    <3>2. R1[g] = R[g]
      BY <3>1
    <3>3. Evolves(R1, F) /\ LeavesRunning(R1, F) /\ Aside(g, R1, F)
      BY <1>1, <2>2, FinalizeGroupEvolves
    <3> QED BY <3>2, <3>3, EvolvesElsewhere DEF Aside
  <2>3. CASE F = FinalizeGroup(R1, a) /\ ~GroupEnds(R1, Parent[a])
    BY <2>3 DEF FinalizeGroup, LeavesRunning, RunsOn
  <2> QED BY <2>1, <2>2, <2>3
<1>3. Removes(F, DropDetached(F, a)) /\ LeavesRunning(F, DropDetached(F, a))
  BY <1>2, DropDetachedRemoves DEF Evolves
<1> QED BY <1>2, <1>3, EvolvesThenRemoves, LeavesRunningTransitive

\* A commit that ends a's record spares the runners of all the others.
EndsOnly(a, R, R2) ==
  /\ Evolves(R, R2)
  /\ R2[a].state \notin Working
  /\ \A b \in Analyses \ {a} : RunsOn(b, R[b], R2[b])

\* A record that fails or is cancelled, with all that follows, lets the map evolve
\* and lets the other records run on.
LEMMA SettledEvolves ==
  ASSUME NEW R \in Maps, GroupsHold(R), NEW a \in Analyses, Kind[a] # "group",
         R[a].state \in Working, NEW r \in {Failed(R[a]), CancelledNow(R[a])}
  PROVE  EndsOnly(a, R, Settle([R EXCEPT ![a] = r], a))
<1> DEFINE R1 == [R EXCEPT ![a] = r]
<1>1. R[a] \in Record
  BY DEF Maps
<1>2. r \in Record /\ r.state \in Terminal /\ Moves(R[a], r)
  <2>1. CancelledNow(R[a]).creq /\ Failed(R[a]).creq = R[a].creq
    BY <1>1 DEF CancelledNow, Failed, Record
  <2> QED BY <1>1, <2>1, RecordOps DEF Moves, Terminal
<1>3. Evolves(R, R1) /\ \A b \in Analyses \ {a} : R1[b] = R[b]
  BY <1>2, OneRecordEvolves DEF Maps
<1>4. Settle(R1, a)[a].state \notin Working
  BY <1>2, SettledRecord DEF Terminal, Working
<1> HIDE DEF R1
<1>5. Evolves(R, Settle(R1, a)) /\ LeavesRunning(R1, Settle(R1, a))
  BY <1>3, SettlingEvolves DEF Settle
<1> QED BY <1>3, <1>4, <1>5 DEF EndsOnly, LeavesRunning, R1

\* And so is a completion, whatever it supersedes.
LEMMA CompletedEvolves ==
  ASSUME IInv, GroupsHold(rec), NEW a \in Analyses, Kind[a] # "group",
         rec[a].state = "running", NEW R2 \in CompletedRecords(a)
  PROVE  EndsOnly(a, rec, R2)
<1> DEFINE settle(R) ==
      DropDetached(IF Kind[a] = "source" THEN FinalizeGroup(R, a) ELSE R, a)
           put(r) == [rec EXCEPT ![a] = r]
           done == [rec[a] EXCEPT !.state = "succeeded"]
<1>1. rec \in Maps /\ rec[a] \in Record
  BY DEF IInv, TypeOK, Maps
<1>2. \A r \in {Failed(rec[a]), CancelledNow(rec[a]), done} :
        r \in Record /\ r.state \in Terminal /\ Moves(rec[a], r)
  <2>1. CancelledNow(rec[a]).creq /\ Failed(rec[a]).creq = rec[a].creq
    BY <1>1 DEF CancelledNow, Failed, Record
  <2>2. done \in Record /\ done.state = "succeeded" /\ done.creq = rec[a].creq
    BY <1>1 DEF Record, Working, Terminal, Gone
  <2> HIDE DEF done
  <2> QED BY <1>1, <2>1, <2>2, RecordOps DEF Moves, Terminal, Working
<1>3. \A r \in {Failed(rec[a]), CancelledNow(rec[a]), done} :
        /\ Evolves(rec, put(r))
        /\ put(r)[a] = r
        /\ \A b \in Analyses \ {a} : put(r)[b] = rec[b]
  <2> HIDE DEF done
  <2> QED BY <1>1, <1>2, OneRecordEvolves DEF Maps, Working
<1> HIDE DEF put
<1> DEFINE Base == {put(Failed(rec[a])), put(CancelledNow(rec[a])), Supersede(put(done), a)}
<1>4. \A R1 \in Base : /\ Evolves(rec, R1)
                       /\ R1[a].state \notin Working
                       /\ \A b \in Analyses \ {a} : /\ R1[b] = rec[b] \/ R1[b].state = "removed"
                                                    /\ RunsOn(b, rec[b], R1[b])
  <2>1. \A r \in {Failed(rec[a]), CancelledNow(rec[a]), done} :
          /\ Evolves(rec, put(r))
          /\ put(r)[a].state \notin Working
          /\ \A b \in Analyses \ {a} : put(r)[b] = rec[b] /\ RunsOn(b, rec[b], put(r)[b])
    <3> HIDE DEF done
    <3> QED BY <1>2, <1>3 DEF RunsOn, Terminal, Working
  <2> DEFINE D == put(done)
  <2>2. /\ Evolves(rec, D)
        /\ D[a].state \notin Working
        /\ \A b \in Analyses \ {a} : D[b] = rec[b] /\ RunsOn(b, rec[b], D[b])
    BY <2>1
  <2> HIDE DEF D
  <2>3. Removes(D, Supersede(D, a)) /\ LeavesRunning(D, Supersede(D, a))
    BY <2>2, SupersedeRemoves DEF Evolves
  <2>4. Evolves(rec, Supersede(D, a))
    BY <1>1, <2>2, <2>3, EvolvesThenRemoves
  <2>5. /\ Supersede(D, a)[a].state \notin Working
        /\ \A b \in Analyses \ {a} :
             /\ Supersede(D, a)[b] = rec[b] \/ Supersede(D, a)[b].state = "removed"
             /\ RunsOn(b, rec[b], Supersede(D, a)[b])
    BY <2>2, <2>3 DEF Removes, LeavesRunning, Working
  <2> QED BY <2>1, <2>4, <2>5 DEF D
<1>5. PICK R1 \in Base : R2 = settle(R1)
  <2>1. /\ put(Failed(rec[a])) = [rec EXCEPT ![a] = Failed(@)]
        /\ put(CancelledNow(rec[a])) = [rec EXCEPT ![a] = CancelledNow(@)]
        /\ put(done) = [rec EXCEPT ![a].state = "succeeded"]
    BY DEF put
  <2> HIDE DEF settle
  <2>2. R2 \in {settle(put(Failed(rec[a]))), settle(put(CancelledNow(rec[a]))),
                settle(Supersede(put(done), a))}
    BY <2>1 DEF CompletedRecords, Succeeded, settle
  <2> QED BY <2>2
<1> HIDE DEF Base
<1> DEFINE F == IF Kind[a] = "source" THEN FinalizeGroup(R1, a) ELSE R1
<1>6. F \in {R1, FinalizeGroup(R1, a)} /\ R2 = DropDetached(F, a)
  BY <1>5
<1> HIDE DEF F, settle
<1>7. Evolves(rec, R2) /\ LeavesRunning(R1, R2)
  BY <1>1, <1>4, <1>6, SettlingEvolves
<1>8. R2[a].state \notin Working
  <2>1. Spares(R1, F) /\ F \in Maps
    BY <1>4, <1>6, FinalizeGroupSpares DEF Spares, Evolves
  <2>2. Spares(F, R2)
    BY <1>6, <2>1, DropDetachedSpares
  <2> QED BY <1>4, <2>1, <2>2 DEF Spares, Terminal, Working
<1>9. ASSUME NEW b \in Analyses \ {a} PROVE RunsOn(b, rec[b], R2[b])
  BY <1>4, <1>7 DEF LeavesRunning, RunsOn
<1> QED BY <1>7, <1>8, <1>9 DEF EndsOnly

\* What a cancellation commits: it ends what is queued, requests the end of
\* what runs, and ends the group whose last child it ended.
LEMMA CancelEvolves ==
  ASSUME NEW a \in Analyses, rec \in Maps, GroupsHold(rec)
  PROVE  /\ Evolves(rec, CancelledRec(a))
         /\ LeavesRunning(rec, CancelledRec(a))
         /\ \A b \in CancelMembers(a) :
              /\ CancelledRec(a)[b].state # "queued"
              /\ CancelledRec(a)[b].state = "running" => CancelledRec(a)[b].creq
<1> DEFINE R == [b \in Analyses |->
                   IF b \notin CancelMembers(a) THEN rec[b]
                   ELSE IF rec[b].state = "queued" THEN CancelledNow(rec[b])
                   ELSE Requested(rec[b])]
           ended == {g \in Analyses : /\ GroupEnds(R, g)
                                      /\ \E b \in CancelMembers(a) : Parent[b] = g}
           g0 == CHOOSE g \in ended : TRUE
<1>1. \A b \in Analyses : rec[b] \in Record
  BY DEF Maps
<1>2. \A b \in CancelMembers(a) : b \in Analyses /\ rec[b].state \in Working
  BY DEF CancelMembers, Tree, Working
<1>3. \A r \in Record : /\ CancelledNow(r) \in Record /\ CancelledNow(r).state = "cancelled"
                        /\ CancelledNow(r).creq
                        /\ Requested(r) \in Record /\ Requested(r).state = r.state
                        /\ Requested(r).creq /\ Requested(r).live = r.live
                        /\ CancelledNow(Requested(r)) = CancelledNow(r)
  BY RecordOps DEF CancelledNow, Requested, Record
<1>4. R \in Maps /\ \A b \in Analyses :
        \/ R[b] = rec[b] /\ b \notin CancelMembers(a)
        \/ rec[b].state = "queued" /\ R[b] = CancelledNow(rec[b])
        \/ rec[b].state = "running" /\ R[b] = Requested(rec[b])
  BY <1>1, <1>2, <1>3 DEF Maps, Working
<1> HIDE DEF R
<1>5. \A b \in Analyses : Moves(rec[b], R[b])
  BY <1>1, <1>3, <1>4 DEF Moves, Working
<1>6. GroupsHold(R)
  <2> SUFFICES ASSUME NEW b \in Analyses
               PROVE  /\ Kind[b] = "group" => R[b].state # "queued"
                      /\ Kind[b] = "source" /\ R[b].state \notin Gone =>
                           /\ R[Parent[b]].state \in Terminal => R[b].state \in Terminal
                           /\ R[Parent[b]].state = "succeeded" => R[b].state = "succeeded"
                      /\ Kind[b] = "source" /\ R[b].state = "queued" =>
                           R[b].live /\ R[Parent[b]].live /\ R[Parent[b]].state = "running"
    BY DEF GroupsHold
  <2>1. R[b].state \in {rec[b].state, "cancelled"} /\ (R[b].state # rec[b].state => rec[b].state = "queued")
    BY <1>1, <1>3, <1>4
  <2>2. Kind[b] = "source" =>
          LET g == Parent[b] IN R[g].state = rec[g].state /\ R[g].live = rec[g].live
    <3> SUFFICES ASSUME Kind[b] = "source"
                 PROVE  R[Parent[b]].state = rec[Parent[b]].state /\ R[Parent[b]].live = rec[Parent[b]].live
      OBVIOUS
    <3>1. Parent[b] \in Analyses /\ rec[Parent[b]].state # "queued"
      BY SourcesHaveGroups DEF GroupsHold
    <3> QED BY <1>1, <1>3, <1>4, <3>1
  <2>3. R[b].state = "queued" => R[b] = rec[b]
    BY <1>1, <1>3, <1>4
  <2> QED BY <2>1, <2>2, <2>3 DEF GroupsHold, Terminal, Gone
<1>7. Evolves(rec, R) /\ LeavesRunning(rec, R)
  BY <1>1, <1>3, <1>4, <1>5, <1>6 DEF Evolves, LeavesRunning, RunsOn
<1>8. \A b \in CancelMembers(a) : R[b].state # "queued" /\ (R[b].state = "running" => R[b].creq)
  BY <1>1, <1>2, <1>3, <1>4
<1>9. CASE ended = {}
  BY <1>7, <1>8, <1>9 DEF CancelledRec, R
<1>10. CASE ended # {}
  <2>1. g0 \in Analyses /\ GroupEnds(R, g0)
    BY <1>10
  <2> DEFINE E == EndGroup(R, g0)
  <2>2. E = CancelledRec(a)
    BY <1>10 DEF CancelledRec, R
  <2> HIDE DEF ended, g0, E
  <2>3. Evolves(R, E) /\ LeavesRunning(R, E) /\ Aside(g0, R, E)
        /\ (R[g0].creq => E[g0] = CancelledNow(R[g0]))
    BY <1>4, <1>6, <2>1, EndGroupEvolves DEF E
  <2>4. Moves(rec[g0], E[g0])
    <3>1. R[g0].state = "running" /\ rec[g0] \in Record
      BY <1>1, <2>1 DEF GroupEnds
    <3>2. CASE R[g0] = rec[g0]
      BY <2>1, <2>3, <3>2 DEF Evolves
    <3>3. CASE rec[g0].state = "running" /\ R[g0] = Requested(rec[g0])
      BY <1>3, <2>3, <3>1, <3>3 DEF Moves, Working
    <3> QED BY <1>1, <1>3, <1>4, <2>1, <3>1, <3>2, <3>3
  <2>5. ASSUME NEW b \in Analyses \ {g0} PROVE Moves(rec[b], E[b])
    <3>1. Moves(rec[b], R[b])
      BY <1>5
    <3>2. E[b] = R[b] \/ (R[b].state \notin Gone /\ E[b].state = "removed")
      BY <2>3 DEF Aside
    <3> QED BY <3>1, <3>2 DEF Moves, Gone, Working
  <2>6. Evolves(rec, E)
    BY <2>3, <2>4, <2>5 DEF Evolves
  <2>7. LeavesRunning(rec, E)
    BY <1>7, <2>3, LeavesRunningTransitive
  <2>8. ASSUME NEW b \in CancelMembers(a)
        PROVE  E[b].state # "queued" /\ (E[b].state = "running" => E[b].creq)
    <3>1. R[b].state # "queued" /\ (R[b].state = "running" => R[b].creq) /\ b \in Analyses
      BY <1>2, <1>8
    <3>2. Moves(R[b], E[b])
      BY <2>3, <3>1 DEF Evolves
    <3> QED BY <3>1, <3>2 DEF Moves, Working
  <2> QED BY <2>2, <2>6, <2>7, <2>8
<1> QED BY <1>9, <1>10

\* What the clearing of the Tab commits: whoever runs on is signalled.
LEMMA ClearEvolves ==
  ASSUME rec \in Maps, GroupsHold(rec), ClearTab
  PROVE  /\ Evolves(rec, rec')
         /\ \A a \in signals' \ signals :
              rec'[a].state \notin {"absent", "queued"} /\ (rec'[a].state = "running" => rec'[a].creq)
         /\ \A a \in Analyses :
              \/ RunsOn(a, rec[a], rec'[a])
              \/ rec[a].state = "running" /\ a \in signals'
<1>1. \A a \in Analyses : rec[a] \in Record
  BY DEF Maps
<1>2. rec' \in Maps
  BY ClearSpares
<1>3. \A r \in Record : r.live =>
        /\ Detached(r).creq = (r.creq \/ r.state \in Working)
        /\ Detached(r).state = IF r.state = "queued" THEN "cancelled" ELSE r.state
  BY DEF Detached, Record
<1>4. \A r \in Record : /\ Erased(r).state = "removed"
                        /\ r.live => r.state \notin Gone
  BY RecordOps DEF Record
<1>5. \A a \in Analyses : \/ ~rec[a].live /\ rec'[a] = rec[a]
                          \/ rec[a].live /\ rec'[a] \in {Detached(rec[a]), Erased(rec[a])}
  BY DEF ClearTab
<1>6. ASSUME NEW a \in Analyses
      PROVE  \/ rec'[a] = rec[a] /\ ~rec[a].live
             \/ rec[a].live /\ rec[a].state \notin Gone /\ rec'[a].state = "removed"
             \/ rec[a].state = "queued" /\ rec'[a].state = "cancelled" /\ rec'[a].creq
             \/ rec[a].state = "running" /\ rec'[a].state = "running" /\ rec'[a].creq
             \/ rec[a].state \in Terminal /\ rec'[a].state = rec[a].state /\ rec'[a].creq = rec[a].creq
  <2>1. CASE ~rec[a].live
    BY <1>5, <2>1
  <2>2. CASE rec[a].live /\ rec'[a] = Erased(rec[a])
    BY <1>1, <1>4, <2>2
  <2>3. CASE rec[a].live /\ rec'[a] = Detached(rec[a])
    <3>1. rec[a].creq \in BOOLEAN /\ rec[a].state \in Working \union Terminal
      BY <1>1, <1>4, <2>3 DEF Record
    <3> QED BY <1>1, <1>3, <2>3, <3>1 DEF Working, Terminal
  <2> QED BY <1>5, <2>1, <2>2, <2>3
<1>7. \A a \in Analyses : Moves(rec[a], rec'[a])
  BY <1>6 DEF Moves, Working
<1>8. GroupsHold(rec')
  <2> SUFFICES ASSUME NEW b \in Analyses
               PROVE  /\ Kind[b] = "group" => rec'[b].state # "queued"
                      /\ Kind[b] = "source" /\ rec'[b].state \notin Gone =>
                           /\ rec'[Parent[b]].state \in Terminal => rec'[b].state \in Terminal
                           /\ rec'[Parent[b]].state = "succeeded" => rec'[b].state = "succeeded"
                      /\ Kind[b] = "source" => rec'[b].state # "queued"
    BY DEF GroupsHold
  <2>1. Kind[b] = "group" => rec'[b].state # "queued"
    BY <1>6 DEF GroupsHold
  <2>2. Kind[b] = "source" => rec'[b].state # "queued"
    BY <1>6 DEF GroupsHold, Terminal
  <2>3. ASSUME Kind[b] = "source", rec'[b].state \notin Gone, rec'[Parent[b]].state \in Terminal
        PROVE  rec'[b].state = rec[b].state /\ rec[Parent[b]].state = rec'[Parent[b]].state
               /\ rec[b].state \in Terminal
    <3>1. Parent[b] \in Analyses /\ rec[Parent[b]].state # "queued"
      BY <2>3, SourcesHaveGroups DEF GroupsHold
    <3>2. rec[Parent[b]].state = rec'[Parent[b]].state
      BY <1>6, <2>3, <3>1 DEF Terminal
    <3>3. rec[b].state \notin Gone
      BY <1>6, <2>3 DEF Gone, Terminal
    <3>4. rec[b].state \in Terminal
      BY <2>3, <3>2, <3>3 DEF GroupsHold
    <3> QED BY <1>6, <2>3, <3>2, <3>4 DEF Gone, Terminal
  <2>4. rec'[Parent[b]].state = "succeeded" => rec'[Parent[b]].state \in Terminal
    BY DEF Terminal
  <2>5. Kind[b] = "source" /\ rec[b].state \notin Gone /\ rec[Parent[b]].state = "succeeded"
          => rec[b].state = "succeeded"
    BY DEF GroupsHold
  <2> QED BY <2>1, <2>2, <2>3, <2>4, <2>5 DEF Terminal, Gone
<1>9. signals' = signals \union {a \in Analyses : rec[a].live /\ rec[a].state \in Working}
  BY DEF ClearTab
<1>10. \A a \in signals' \ signals :
         rec'[a].state \notin {"absent", "queued"} /\ (rec'[a].state = "running" => rec'[a].creq)
  BY <1>6, <1>9 DEF Terminal, Working
<1>11. ASSUME NEW a \in Analyses
       PROVE  \/ RunsOn(a, rec[a], rec'[a])
              \/ rec[a].state = "running" /\ a \in signals'
  BY <1>6, <1>9 DEF RunsOn, Terminal, Working, Gone
<1> QED BY <1>2, <1>7, <1>8, <1>10, <1>11 DEF Evolves

\* The restart ends everything that was under way.
LEMMA InterruptedEvolves ==
  ASSUME rec \in Maps, GroupsHold(rec)
  PROVE  Evolves(rec, Interrupted) /\ \A a \in Analyses : Interrupted[a].state \notin Working
<1> DEFINE W == {a \in Analyses : rec[a].state \in Working}
           R == Put(rec, W, Failed)
           S == {a \in Analyses : R[a].state \notin Gone /\ ~R[RootOf(a)].live}
<1>1. \A a \in Analyses : rec[a] \in Record
  BY DEF Maps
<1>2. \A r \in Record : Failed(r) \in Record /\ Failed(r).state = "failed" /\ Failed(r).creq = r.creq
  BY RecordOps DEF Failed, Record
<1>3. \A r \in Record : Erased(r) \in Record /\ Erased(r).state = "removed"
  BY RecordOps
<1>4. \A a \in Analyses : R[a] = IF rec[a].state \in Working THEN Failed(rec[a]) ELSE rec[a]
  BY DEF Put
<1>5. R \in Maps
  BY <1>1, <1>2 DEF Put, Maps
<1> HIDE DEF R
<1>6. \A a \in Analyses : Interrupted[a] = IF a \in S THEN Erased(R[a]) ELSE R[a]
  BY DEF Interrupted, Put, R
<1>7. Interrupted \in Maps
  <2>1. Interrupted = [a \in Analyses |-> IF a \in S THEN Erased(R[a]) ELSE R[a]]
    BY DEF Interrupted, Put, R
  <2> QED BY <1>3, <1>5, <2>1 DEF Maps
<1>8. \A a \in Analyses : R[a] \in Record
  BY <1>5 DEF Maps
<1>9. ASSUME NEW a \in Analyses
      PROVE  /\ Moves(rec[a], Interrupted[a])
             /\ Interrupted[a].state \in
                  {IF rec[a].state \in Working THEN "failed" ELSE rec[a].state, "removed"}
  <2>1. CASE rec[a].state \in Working
    BY <1>1, <1>2, <1>3, <1>4, <1>6, <1>8, <2>1 DEF Moves, Working, Gone
  <2>2. CASE rec[a].state \notin Working
    BY <1>1, <1>2, <1>3, <1>4, <1>6, <1>8, <2>2 DEF Moves
  <2> QED BY <2>1, <2>2
<1>10. \A a \in Analyses : Interrupted[a].state \notin Working
  BY <1>9 DEF Working
<1> HIDE DEF S
<1>11. GroupsHold(Interrupted)
  <2> SUFFICES ASSUME NEW b \in Analyses, Kind[b] = "source", Interrupted[b].state \notin Gone
               PROVE  /\ Interrupted[Parent[b]].state \in Terminal => Interrupted[b].state \in Terminal
                      /\ Interrupted[Parent[b]].state = "succeeded" => Interrupted[b].state = "succeeded"
    BY <1>10 DEF GroupsHold, Working
  <2>1. Interrupted[b].state \in Terminal
    <3>1. Interrupted[b] \in Record
      BY <1>7 DEF Maps
    <3> QED BY <1>10, <3>1 DEF Record
  <2>2. ASSUME Interrupted[Parent[b]].state = "succeeded"
        PROVE  Interrupted[b].state = "succeeded"
    <3>1. Parent[b] \in Analyses
      BY SourcesHaveGroups
    <3>2. rec[Parent[b]].state = "succeeded"
      BY <1>9, <2>2, <3>1
    <3>3. rec[b].state \notin Gone
      BY <1>9 DEF Gone, Working
    <3>4. rec[b].state = "succeeded"
      BY <3>2, <3>3 DEF GroupsHold
    <3> QED BY <1>9, <3>4 DEF Gone, Working
  <2> QED BY <2>1, <2>2
<1> QED BY <1>7, <1>9, <1>10, <1>11 DEF Evolves

----------------------------------------------------------------------------
\* The records implement their life cycle

\* Shutdown interrupts no group by itself.
GroupsAreSpared == \A a \in Analyses : Kind[a] = "group" => a \notin interrupts \union selected

RecordsHold == GroupsHold(rec) /\ GroupsAreSpared

\* A group has no runner and is never scheduled.
LEMMA RunnersAreNoGroups ==
  ASSUME IInv, NEW a \in Analyses, Kind[a] = "group"
  PROVE  pc[a] = "none" /\ a \notin unscheduled \union pending \union active
BY DEF IInv, RunnersAgree, GroupsAreRoots

\* The commits of a runner.
LEMMA RunnerCommitsEvolve ==
  ASSUME IInv, GroupsHold(rec), NEW a \in Analyses,
         AdmitFails(a) \/ Complete(a) \/ Confirm(a) \/ FailExecution(a)
  PROVE  \/ EndsOnly(a, rec, rec')
         \/ /\ UNCHANGED rec
            /\ \/ Complete(a) /\ rec[a].state # "running"
               \/ Confirm(a) /\ ~(rec[a].state = "running" /\ rec[a].creq)
               \/ FailExecution(a) /\ rec[a].state \notin Working
<1>1. rec \in Maps /\ Kind[a] # "group"
  <2>1. pc[a] # "none"
    BY DEF AdmitFails, Complete, Confirm, FailExecution
  <2> QED BY <2>1, RunnersAreNoGroups DEF IInv, TypeOK, Maps
<1>2. rec[a].state \in Working =>
        /\ EndsOnly(a, rec, Settle([rec EXCEPT ![a] = Failed(rec[a])], a))
        /\ EndsOnly(a, rec, Settle([rec EXCEPT ![a] = CancelledNow(rec[a])], a))
  BY <1>1, SettledEvolves
<1>3. CASE AdmitFails(a)
  BY <1>2, <1>3 DEF AdmitFails, Working
<1>4. CASE Complete(a)
  BY <1>1, <1>4, CompletedEvolves DEF Complete
<1>5. CASE Confirm(a)
  BY <1>2, <1>5 DEF Confirm, Working
<1>6. CASE FailExecution(a)
  BY <1>2, <1>6 DEF FailExecution
<1> QED BY <1>3, <1>4, <1>5, <1>6

\* The shutdown ends one record at a time, or its commit has failed, or there was
\* nothing to end.
LEMMA InterruptionsEvolve ==
  ASSUME IInv, RecordsHold, NEW a \in Analyses, InterruptQueued(a) \/ InterruptSelected(a)
  PROVE  \/ EndsOnly(a, rec, rec')
         \/ /\ UNCHANGED rec
            /\ \/ faults' = faults + 1
               \/ ~Internal
               \/ InterruptQueued(a) /\ rec[a].state # "queued"
               \/ InterruptSelected(a) /\ rec[a].state \notin Working
<1>1. rec \in Maps /\ Kind[a] # "group"
  BY DEF InterruptQueued, InterruptSelected, RecordsHold, GroupsAreSpared, IInv, TypeOK, Maps
<1>2. rec[a].state \in Working =>
        /\ EndsOnly(a, rec, Settle([rec EXCEPT ![a] = Failed(rec[a])], a))
        /\ EndsOnly(a, rec, Settle([rec EXCEPT ![a] = CancelledNow(rec[a])], a))
  BY <1>1, SettledEvolves DEF RecordsHold
<1>3. CASE InterruptQueued(a)
  BY <1>2, <1>3 DEF InterruptQueued, Interrupt, Working
<1>4. CASE InterruptSelected(a)
  BY <1>2, <1>4 DEF InterruptSelected, Interrupt, Working
<1> QED BY <1>3, <1>4

\* The other commits that end, request or remove.
LEMMA OtherCommitsEvolve ==
  ASSUME IInv, GroupsHold(rec),
         \/ \E a \in Analyses : EnqueueRefused(a) \/ UndoGroup(a) \/ Cancel(a) \/ BadProgress(a)
         \/ ClearTab \/ DeleteEnd \/ Restart
  PROVE  Evolves(rec, rec')
<1>1. rec \in Maps /\ Evolves(rec, rec)
  BY DEF IInv, TypeOK, Maps, Evolves, Moves
<1>2. CASE \E a \in Analyses : EnqueueRefused(a)
  BY <1>1, <1>2, RemoveTreeRemoves, RemovalEvolves DEF EnqueueRefused
<1>3. CASE \E a \in Analyses : UndoGroup(a) \/ Cancel(a)
  BY <1>1, <1>3, CancelEvolves DEF UndoGroup, Cancel, CancelCommits
<1>4. CASE ClearTab
  BY <1>1, <1>4, ClearEvolves
<1>5. ASSUME NEW a \in Analyses, BadProgress(a)
      PROVE  Evolves(rec, rec')
  <2>1. Kind[a] # "group" /\ rec[a] \in Record /\ rec[a].state = "running"
    BY <1>1, <1>5, RunnersAreNoGroups DEF BadProgress, Maps
  <2>2. Failed(rec[a]) \in Record /\ Failed(rec[a]).state = "failed"
        /\ Failed(rec[a]).creq = rec[a].creq
    BY <2>1, RecordOps DEF Failed, Record
  <2>3. Moves(rec[a], Failed(rec[a]))
    BY <2>1, <2>2 DEF Moves, Working
  <2>4. Evolves(rec, [rec EXCEPT ![a] = Failed(rec[a])])
    BY <1>1, <2>1, <2>2, <2>3, OneRecordEvolves DEF Working, Terminal
  <2> QED BY <1>5, <2>4 DEF BadProgress
<1>6. CASE DeleteEnd
  <2> DEFINE S == {b \in Analyses : rec[b].state \notin Gone}
  <2>1. Removes(rec, Put(rec, S, Erased))
    <3>1. \A b \in S \intersect Analyses : rec[b].state \notin Gone
      OBVIOUS
    <3>2. \A b \in Analyses : rec[b].state \notin Gone => b \in S
      OBVIOUS
    <3> HIDE DEF S
    <3> QED BY <1>1, <3>1, <3>2, ErasingRemoves
  <2> QED BY <1>1, <1>6, <2>1, RemovalEvolves DEF DeleteEnd
<1>7. CASE Restart
  BY <1>1, <1>7, InterruptedEvolves DEF Restart
<1> QED BY <1>2, <1>3, <1>4, <1>5, <1>6, <1>7

\* A record is started by the commit of its admission.
LEMMA StartEvolves ==
  ASSUME IInv, GroupsHold(rec), NEW a \in Analyses, AdmitCommits(a)
  PROVE  /\ GroupsHold(rec')
         /\ rec[a].state = "queued" /\ rec'[a].state = "running" /\ rec'[a].creq = rec[a].creq
         /\ \A b \in Analyses \ {a} : rec'[b] = rec[b]
<1>1. rec \in Maps /\ Kind[a] # "group" /\ rec[a].state = "queued" /\ rec[a] \in Record
  BY RunnersAreNoGroups DEF AdmitCommits, IInv, TypeOK, RecordsAgree, Maps
<1> DEFINE r == [rec[a] EXCEPT !.state = "running"]
<1>2. r \in Record /\ r.state = "running" /\ r.creq = rec[a].creq
  BY <1>1 DEF Record, Working, Terminal, Gone
<1>3. rec' = [rec EXCEPT ![a] = r]
  BY DEF AdmitCommits
<1> HIDE DEF r
<1>4. GroupsHold([rec EXCEPT ![a] = r])
  BY <1>1, <1>2, OneRecordHolds DEF Working
<1>5. [rec EXCEPT ![a] = r][a] = r /\ \A b \in Analyses \ {a} : [rec EXCEPT ![a] = r][b] = rec[b]
  BY <1>1 DEF Maps
<1> QED BY <1>1, <1>2, <1>3, <1>4, <1>5

\* A submission creates a record, and with a group its sources.
LEMMA SubmitCreates ==
  ASSUME IInv, GroupsHold(rec), NEW r \in Analyses, Submit(r)
  PROVE  /\ GroupsHold(rec')
         /\ \A a \in Analyses :
              \/ rec'[a] = rec[a] /\ a \notin unscheduled' \ unscheduled
              \/ /\ rec[a].state = "absent"
                 /\ rec'[a].state = IF Kind[a] = "group" THEN "running" ELSE "queued"
                 /\ ~rec'[a].creq
                 /\ Kind[a] # "group" => a \in unscheduled'
<1> DEFINE new == {a \in Analyses : a = r \/ (a \in Members(r) /\ Kind[a] = "source")}
<1>1. rec[r].state = "absent" /\ rec \in Maps /\ Kind[r] # "source"
  BY DEF Submit, MaySubmit, IInv, TypeOK, Maps
<1>2. \A a \in new \ {r} : Kind[a] = "source" /\ Parent[a] = r /\ Kind[r] = "group"
  BY DEF Members
<1>3. \A a \in new : rec[a].state = "absent"
  BY <1>1, <1>2 DEF IInv, GroupsAreRoots
<1>4. \A a \in Analyses :
        IF a \in new
          THEN /\ rec'[a].state = IF Kind[a] = "group" THEN "running" ELSE "queued"
               /\ ~rec'[a].creq /\ rec'[a].live
          ELSE rec'[a] = rec[a]
  BY <1>1, <1>2 DEF Submit
<1>5. unscheduled' \ unscheduled \subseteq new /\ \A a \in new : Kind[a] # "group" => a \in unscheduled'
  BY DEF Submit, Members
<1> HIDE DEF new
<1>6. GroupsHold(rec')
  <2> SUFFICES ASSUME NEW b \in Analyses
               PROVE  /\ Kind[b] = "group" => rec'[b].state # "queued"
                      /\ Kind[b] = "source" /\ rec'[b].state \notin Gone =>
                           /\ rec'[Parent[b]].state \in Terminal => rec'[b].state \in Terminal
                           /\ rec'[Parent[b]].state = "succeeded" => rec'[b].state = "succeeded"
                      /\ Kind[b] = "source" /\ rec'[b].state = "queued" =>
                           rec'[b].live /\ rec'[Parent[b]].live /\ rec'[Parent[b]].state = "running"
    BY DEF GroupsHold
  <2>1. CASE b \in new /\ Kind[b] = "source"
    <3>1. Parent[b] = r /\ Kind[r] = "group" /\ r \in new
      BY <1>1, <1>2, <2>1 DEF new
    <3> QED BY <1>4, <2>1, <3>1 DEF Terminal
  <2>2. CASE b \in new /\ Kind[b] # "source"
    BY <1>4, <2>2
  <2>3. CASE b \notin new /\ Kind[b] = "source"
    <3>1. Parent[b] \in Analyses
      BY <2>3, SourcesHaveGroups
    <3>2. CASE Parent[b] \in new
      <4>1. rec[b].state = "absent"
        BY <1>3, <2>3, <3>2 DEF IInv, GroupsAreRoots
      <4> QED BY <1>4, <2>3, <4>1 DEF Gone
    <3>3. CASE Parent[b] \notin new
      BY <1>4, <2>3, <3>1, <3>3 DEF GroupsHold
    <3> QED BY <3>2, <3>3
  <2>4. CASE b \notin new /\ Kind[b] # "source"
    BY <1>4, <2>4 DEF GroupsHold
  <2> QED BY <2>1, <2>2, <2>3, <2>4
<1> QED BY <1>3, <1>4, <1>5, <1>6

\* Every step leaves the records alone, or follows the life cycle, creates or
\* starts.
LEMMA StepsEvolve ==
  ASSUME IInv, RecordsHold, [Next]_vars
  PROVE  \/ UNCHANGED rec
         \/ Evolves(rec, rec')
         \/ \E a \in Analyses : Submit(a) \/ AdmitCommits(a)
<1>1. CASE Submission
  BY <1>1, OtherCommitsEvolve DEF Submission, Enqueue, RecordsHold
<1>2. CASE Cancellation
  BY <1>2, OtherCommitsEvolve DEF Cancellation, DeliverCancel, recVars, RecordsHold
<1>3. CASE ClearTab
  BY <1>3, OtherCommitsEvolve DEF RecordsHold
<1>4. CASE Runner
  <2> SUFFICES ASSUME NEW a \in Analyses,
                      \/ Dispatch(a) \/ Admission(a) \/ Execution(a) \/ Conclusion(a)
                      \/ \E outcome \in Outcomes : WorkerEnds(a, outcome)
               PROVE  UNCHANGED rec \/ Evolves(rec, rec') \/ AdmitCommits(a)
    BY <1>4 DEF Runner
  <2>1. CASE Admission(a)
    BY <2>1, RunnerCommitsEvolve
       DEF Admission, NotAdmitted, AdmitSkips, AdmitReserves, AdmitRollsBack, recVars,
           RecordsHold, EndsOnly
  <2>2. CASE Execution(a)
    BY <2>2, OtherCommitsEvolve
       DEF Execution, LaunchSuppressed, LaunchFails, Launch, Receive, ProgressRaises,
           recVars, RecordsHold
  <2>3. CASE Conclusion(a)
    BY <2>3, RunnerCommitsEvolve DEF Conclusion, Raises, Release, recVars, RecordsHold, EndsOnly
  <2> QED BY <2>1, <2>2, <2>3 DEF Dispatch, WorkerEnds, recVars
<1>5. CASE WorkspaceLifecycle
  BY <1>5, OtherCommitsEvolve
     DEF WorkspaceLifecycle, FinalizeClose, RequestClose, Reopen, DeleteBegin,
         DeleteFails, recVars, RecordsHold
<1>6. CASE Shutdown
  <2>1. CASE Restart
    BY <2>1, OtherCommitsEvolve DEF RecordsHold
  <2>2. CASE \E a \in Analyses : InterruptQueued(a) \/ InterruptSelected(a)
    BY <2>2, InterruptionsEvolve DEF EndsOnly
  <2> QED BY <1>6, <2>1, <2>2 DEF Shutdown, StopAccepting, StopDispatch, ReadActive,
             CloseExecutor, WaitIdle, Down, Crash, Vanish, recVars
<1> QED BY <1>1, <1>2, <1>3, <1>4, <1>5, <1>6 DEF Next, vars, recVars

\* One record, by one step of the system.
Lives(a, r, r2) ==
  \/ Moves(r, r2)
  \/ r.state = "queued" /\ r2.state = "running" /\ r2.creq = r.creq
  \/ /\ r.state = "absent"
     /\ r2.state = IF Kind[a] = "group" THEN "running" ELSE "queued"
     /\ ~r2.creq

\* Every step lets every record live by its life cycle.
LEMMA RecordsLive ==
  ASSUME IInv, RecordsHold, [Next]_vars
  PROVE  GroupsHold(rec') /\ \A a \in Analyses : Lives(a, rec[a], rec'[a])
<1>1. CASE UNCHANGED rec
  BY <1>1 DEF RecordsHold, Lives, Moves
<1>2. CASE Evolves(rec, rec')
  BY <1>2 DEF Evolves, Lives
<1>3. CASE \E a \in Analyses : Submit(a)
  BY <1>3, SubmitCreates DEF RecordsHold, Lives, Moves
<1>4. CASE \E a \in Analyses : AdmitCommits(a)
  BY <1>4, StartEvolves DEF RecordsHold, Lives, Moves
<1> QED BY <1>1, <1>2, <1>3, <1>4, StepsEvolve

\* The shutdown neither interrupts nor selects a group.
LEMMA SparedPreserved ==
  ASSUME IInv, GroupsAreSpared, [Next]_vars
  PROVE  GroupsAreSpared'
<1>1. interrupts' \subseteq interrupts \union pending
  BY ZenonT(60) DEF Next, Submission, Cancellation, Runner, Admission, Execution, Conclusion,
         WorkspaceLifecycle, Shutdown, Submit, Enqueue, EnqueueRefused, UndoGroup, Cancel,
         DeliverCancel, ClearTab, Dispatch, NotAdmitted, AdmitSkips, AdmitFails,
         AdmitReserves, AdmitCommits, AdmitRollsBack, LaunchSuppressed, LaunchFails,
         Launch, WorkerEnds, Receive, BadProgress, ProgressRaises, Complete, Confirm,
         FailExecution, Raises, Release, FinalizeClose, RequestClose, Reopen,
         DeleteBegin, DeleteEnd, DeleteFails, StopAccepting, StopDispatch, ReadActive,
         CloseExecutor, InterruptQueued, InterruptSelected, WaitIdle, Down, Crash, Vanish,
         Restart, vars, shutVars
<1>2. selected' \subseteq selected \union active
  BY ZenonT(60) DEF Next, Submission, Cancellation, Runner, Admission, Execution, Conclusion,
         WorkspaceLifecycle, Shutdown, Submit, Enqueue, EnqueueRefused, UndoGroup, Cancel,
         DeliverCancel, ClearTab, Dispatch, NotAdmitted, AdmitSkips, AdmitFails,
         AdmitReserves, AdmitCommits, AdmitRollsBack, LaunchSuppressed, LaunchFails,
         Launch, WorkerEnds, Receive, BadProgress, ProgressRaises, Complete, Confirm,
         FailExecution, Raises, Release, FinalizeClose, RequestClose, Reopen,
         DeleteBegin, DeleteEnd, DeleteFails, StopAccepting, StopDispatch, ReadActive,
         CloseExecutor, InterruptQueued, InterruptSelected, WaitIdle, Down, Crash, Vanish,
         Restart, vars, shutVars
<1> QED BY <1>1, <1>2 DEF GroupsAreSpared, IInv, GroupsAreRoots

\* Every step of the system is a step of the life cycle, or none.
LEMMA StepsImplementLifecycle ==
  ASSUME GroupsHold(rec'), \A a \in Analyses : Lives(a, rec[a], rec'[a])
  PROVE  Lifecycle!Next
<1>1. Lifecycle!GroupsAgree([a \in Analyses |-> rec[a].state])'
  BY DEF GroupsHold, Lifecycle!GroupsAgree, Lifecycle!Sources, Lifecycle!Terminal,
         Lifecycle!Gone, Terminal, Gone
<1>2. ASSUME NEW a \in Analyses
      PROVE  \/ Lifecycle!Created(a) \/ Lifecycle!Started(a) \/ Lifecycle!Requested(a)
             \/ Lifecycle!Cancelled(a) \/ Lifecycle!Failed(a) \/ Lifecycle!Succeeded(a)
             \/ Lifecycle!Removed(a) \/ Lifecycle!Unmoved(a)
  <2>1. Lives(a, rec[a], rec'[a])
    OBVIOUS
  <2> QED
    BY <2>1
       DEF Lives, Moves, Lifecycle!Created, Lifecycle!Started, Lifecycle!Requested,
           Lifecycle!Cancelled, Lifecycle!Failed, Lifecycle!Succeeded, Lifecycle!Removed,
           Lifecycle!Unmoved, Lifecycle!Active, Lifecycle!Gone, Working, Gone
<1> QED BY <1>1, <1>2 DEF Lifecycle!Next

\* What the records say of groups and sources holds in every reachable state.
THEOREM RecordsInvariance == Spec => [](IInv /\ RecordsHold)
<1> DEFINE Hold == IInv /\ RecordsHold
<1>1. Init => Hold
  BY InitEstablishes DEF Init, RecordsHold, GroupsHold, GroupsAreSpared, Terminal, Gone
<1>2. Hold /\ [Next]_vars => Hold'
  BY NextPreserves, RecordsLive, SparedPreserved DEF RecordsHold
<1> HIDE DEF Hold
<1>3. Spec => []Hold
  BY <1>1, <1>2, PTL DEF Spec
<1> QED BY <1>3 DEF Hold

\* The records live by AnalysisLifecycle, whatever queues, processes, gates and
\* shutdowns move them: no terminal record changes but to be removed, nothing
\* is revived, and a group is published as ended only with all its sources.
THEOREM Refinement == Spec => ImplementsLifecycle
<1>1. Init => Lifecycle!Init
  BY DEF Init, Lifecycle!Init
<1>2. IInv /\ RecordsHold /\ [Next]_vars => [Lifecycle!Next]_Lifecycle!lifecycleVars
  BY RecordsLive, StepsImplementLifecycle
<1>3. Spec => Lifecycle!Spec
  BY <1>1, <1>2, RecordsInvariance, PTL DEF Spec, Lifecycle!Spec
<1> QED BY <1>3 DEF ImplementsLifecycle

----------------------------------------------------------------------------
\* A deferred close is never forgotten

\* While the backend is down no Workspace is open.
DownIsClosed == phase = "down" => ws \in {"closed", "deleted"}

AwaitedInv == ClosingIsAwaited /\ DownIsClosed

\* Every step keeps somebody who looks again at a Workspace that waits to close.
LEMMA AwaitedPreserved ==
  ASSUME IInv, AwaitedInv, [Next]_vars
  PROVE  AwaitedInv'
<1> USE DEF AwaitedInv, ClosingIsAwaited, DownIsClosed, SchedulerAccepts, HasWork
<1>1. faults \in Nat /\ ws \in {"open", "closing", "closed", "deleted"}
  BY BoundsOK DEF IInv, TypeOK
<1>2. CASE Submission
  BY <1>2 DEF Submission, Submit, Enqueue, EnqueueRefused, UndoGroup, schedVars, shutVars
<1>3. CASE Cancellation
  BY <1>3 DEF Cancellation, Cancel, DeliverCancel, schedVars, shutVars
<1>4. CASE ClearTab
  BY <1>4 DEF ClearTab, schedVars, shutVars
<1>5. CASE Runner
  <2> SUFFICES ASSUME NEW a \in Analyses,
                      \/ Dispatch(a) \/ Admission(a) \/ Execution(a) \/ Conclusion(a)
                      \/ \E outcome \in Outcomes : WorkerEnds(a, outcome)
               PROVE  AwaitedInv'
    BY <1>5 DEF Runner
  <2>1. CASE Dispatch(a) \/ \E outcome \in Outcomes : WorkerEnds(a, outcome)
    BY <2>1 DEF Dispatch, WorkerEnds, schedVars, shutVars
  <2>2. CASE Admission(a)
    BY <1>1, <2>2 DEF Admission, NotAdmitted, AdmitSkips, AdmitFails, AdmitReserves, AdmitCommits,
           AdmitRollsBack, RunnersAgree, IInv, schedVars, shutVars
  <2>3. CASE Execution(a)
    BY <2>3 DEF Execution, LaunchSuppressed, LaunchFails, Launch, Receive, BadProgress,
           ProgressRaises, schedVars, shutVars
  <2>4. CASE Complete(a) \/ Confirm(a) \/ FailExecution(a) \/ Release(a)
    BY <2>4 DEF Complete, Confirm, FailExecution, Release, schedVars, shutVars
  <2>5. CASE Raises(a)
    <3>1. UNCHANGED <<pending, active, callbacks, gate, ws, phase>> /\ faults' \in {faults, faults + 1}
      BY <2>5 DEF Raises, schedVars, shutVars
    <3> QED BY <1>1, <3>1
  <2> QED BY <2>1, <2>2, <2>3, <2>4, <2>5 DEF Conclusion
<1>6. CASE WorkspaceLifecycle
  BY <1>1, <1>6, AnalysesOK DEF WorkspaceLifecycle, FinalizeClose, RequestClose, Reopen, DeleteBegin,
         DeleteEnd, DeleteFails, GateFree, schedVars, shutVars
<1>7. CASE Shutdown
  BY <1>1, <1>7 DEF Shutdown, StopAccepting, StopDispatch, ReadActive, CloseExecutor,
         InterruptQueued, InterruptSelected, Interrupt, WaitIdle, Down, Crash, Vanish, Restart,
         schedVars, shutVars
<1>8. CASE UNCHANGED vars
  BY <1>8 DEF vars, schedVars, shutVars
<1> QED BY <1>2, <1>3, <1>4, <1>5, <1>6, <1>7, <1>8 DEF Next

\* A Workspace that waits to close will be looked at again: while it waits, and
\* the scheduler works and nothing has failed, an item, a runner or a callback
\* is there whose end looks.
THEOREM ClosingAwaited == Spec => []ClosingIsAwaited
<1>1. Init => AwaitedInv
  BY DEF Init, AwaitedInv, ClosingIsAwaited, DownIsClosed
<1>2. IInv /\ AwaitedInv /\ [Next]_vars => AwaitedInv'
  BY AwaitedPreserved
<1>3. AwaitedInv => ClosingIsAwaited
  BY DEF AwaitedInv
<1> QED BY <1>1, <1>2, <1>3, Invariance, PTL DEF Spec

----------------------------------------------------------------------------
\* No process runs that nobody wants

\* A process that is alive, or whose launch nothing holds back any more.
Launchable(a) == (pc[a] = "launch" /\ entry[a] = "reserved") \/ proc[a] = "alive"

Wanted(a) ==
  \/ rec[a].state = "running"
  \/ a \in signals
  \/ phase \in {"stopping", "draining"}
  \/ rec[a].state = "removed" /\ a \in SupersededMembers

\* Once the executor is closed it has terminated what was there, and nothing
\* is reserved any more.
ExecutorStaysClosed ==
  phase \in {"closed", "interrupting", "down"} =>
    \A a \in Analyses : proc[a] # "alive" /\ entry[a] # "reserved"

WantedInv == (\A a \in Analyses : Launchable(a) => Wanted(a)) /\ ExecutorStaysClosed

\* A commit that starts nothing and takes no record from under its runner
\* without a signal.
LEMMA WantedKept ==
  ASSUME IInv, WantedInv, phase' = phase, signals \subseteq signals',
         \A a \in Analyses :
           /\ entry'[a] = "reserved" => entry[a] = "reserved" \/ ~(phase \in {"closed", "interrupting", "down"})
           /\ proc'[a] = "alive" => Launchable(a)
           /\ Launchable(a)' => Launchable(a) /\ (RunsOn(a, rec[a], rec'[a]) \/ a \in signals')
  PROVE  WantedInv'
<1>1. ASSUME NEW a \in Analyses, Launchable(a)'
      PROVE  Wanted(a)'
  <2>1. Launchable(a) /\ (RunsOn(a, rec[a], rec'[a]) \/ a \in signals')
    BY <1>1
  <2>2. Kind[a] # "group"
    BY <2>1, RunnersAreNoGroups DEF Launchable, IInv, RunnersAgree
  <2>3. Wanted(a)
    BY <2>1 DEF WantedInv
  <2> QED BY <2>1, <2>2, <2>3 DEF Wanted, RunsOn
<1>2. ExecutorStaysClosed'
  BY DEF WantedInv, ExecutorStaysClosed, Launchable
<1> QED BY <1>1, <1>2 DEF WantedInv

\* Steps that leave the records alone.
LEMMA WantedWithoutCommit ==
  ASSUME IInv, WantedInv, NEW a \in Analyses,
         \/ Enqueue(a) \/ DeliverCancel(a) \/ Dispatch(a) \/ NotAdmitted(a) \/ AdmitSkips(a)
         \/ AdmitReserves(a) \/ AdmitRollsBack(a) \/ LaunchSuppressed(a) \/ LaunchFails(a)
         \/ Launch(a) \/ Receive(a) \/ ProgressRaises(a) \/ Raises(a) \/ Release(a)
         \/ FinalizeClose(a) \/ \E outcome \in Outcomes : WorkerEnds(a, outcome)
  PROVE  WantedInv'
<1> USE DEF IInv, TypeOK, RunnersAgree, Launchable, RunsOn, recVars, procVars, shutVars, Go
<1>1. CASE Enqueue(a) \/ FinalizeClose(a)
  BY <1>1, WantedKept DEF Enqueue, FinalizeClose
<1>2. CASE Dispatch(a)
  BY <1>2, WantedKept DEF Dispatch
<1>3. CASE NotAdmitted(a) \/ AdmitSkips(a)
  BY <1>3, WantedKept DEF NotAdmitted, AdmitSkips
<1>4. CASE AdmitReserves(a)
  <2>1. phase \notin {"closed", "interrupting", "down"}
    BY <1>4 DEF AdmitReserves, Internal, ExecutorIsClosed
  <2>2. /\ pc'[a] = "commit" /\ proc[a] # "alive"
        /\ UNCHANGED <<rec, proc, signals, phase>>
        /\ \A b \in Analyses \ {a} : pc'[b] = pc[b] /\ entry'[b] = entry[b]
    BY <1>4 DEF AdmitReserves
  <2> QED BY <2>1, <2>2, WantedKept
<1>5. CASE AdmitRollsBack(a) \/ LaunchSuppressed(a) \/ LaunchFails(a)
  BY <1>5, WantedKept DEF AdmitRollsBack, LaunchSuppressed, LaunchFails
<1>6. CASE Launch(a)
  BY <1>6, WantedKept DEF Launch
<1>7. CASE Receive(a) \/ ProgressRaises(a)
  <2>1. /\ pc'[a] \notin {"launch", "monitor"} /\ entry'[a] = "none" /\ proc'[a] # "alive"
        /\ UNCHANGED <<rec, signals, phase>>
        /\ \A b \in Analyses \ {a} : pc'[b] = pc[b] /\ entry'[b] = entry[b] /\ proc'[b] = proc[b]
    BY <1>7 DEF Receive, ProgressRaises
  <2> QED BY <2>1, WantedKept
<1>8. CASE Raises(a) \/ Release(a)
  BY <1>8, WantedKept DEF Raises, Release
<1>9. CASE \E outcome \in Outcomes : WorkerEnds(a, outcome)
  BY <1>9, WantedKept DEF WorkerEnds, Outcomes
<1>10. CASE DeliverCancel(a)
  <2>1. CASE a \in pending
    <3>1. ~Launchable(a)
      BY <2>1 DEF ScheduledOnce
    <3>2. /\ signals' = signals \ {a}
          /\ UNCHANGED <<rec, pc, entry, proc, phase>>
      BY <1>10, <2>1 DEF DeliverCancel
    <3> QED BY <3>1, <3>2 DEF WantedInv, Wanted, ExecutorStaysClosed
  <2>2. CASE a \notin pending
    <3>1. /\ signals' = signals \ {a}
          /\ CancelEntries({a} \intersect active)
          /\ UNCHANGED <<rec, pc, phase>>
      BY <1>10, <2>2 DEF DeliverCancel
    <3>2. \A b \in Analyses :
            /\ entry'[b] = "reserved" => entry[b] = "reserved"
            /\ proc'[b] = "alive" => proc[b] = "alive"
            /\ Launchable(b)' => Launchable(b) /\ b # a
      <4> USE <3>1
      <4>1. \A b \in Analyses :
              /\ entry'[b] = "reserved" => entry[b] = "reserved" /\ b \notin {a} \intersect active
              /\ proc'[b] = "alive" => proc[b] = "alive" /\ b \notin {a} \intersect active
        BY CancelEntriesStops
      <4> QED BY <4>1
    <3> QED BY <3>1, <3>2 DEF WantedInv, Wanted, ExecutorStaysClosed
  <2> QED BY <2>1, <2>2
<1> QED BY <1>1, <1>2, <1>3, <1>4, <1>5, <1>6, <1>7, <1>8, <1>9, <1>10

\* Commits that leave runners their records, or signal them.
LEMMA WantedAcrossCommits ==
  ASSUME IInv, RecordsHold, WantedInv, NEW a \in Analyses,
         \/ Submit(a) \/ UndoGroup(a) \/ Cancel(a) \/ ClearTab \/ AdmitFails(a)
         \/ BadProgress(a) \/ Complete(a) \/ Confirm(a) \/ FailExecution(a)
  PROVE  WantedInv'
<1>1. GroupsHold(rec) /\ rec \in Maps
  BY DEF RecordsHold, IInv, TypeOK, Maps
<1>2. CASE Submit(a) \/ UndoGroup(a) \/ Cancel(a) \/ ClearTab \/ BadProgress(a)
  <2>1. UNCHANGED <<pc, entry, proc, phase>> /\ signals \subseteq signals'
    BY <1>2 DEF Submit, UndoGroup, Cancel, CancelCommits, ClearTab, BadProgress, procVars, shutVars
  <2>2. ASSUME NEW b \in Analyses
        PROVE  RunsOn(b, rec[b], rec'[b]) \/ b \in signals'
    <3>1. CASE Submit(a)
      BY <1>1, <3>1, SubmitCreates DEF RunsOn
    <3>2. CASE UndoGroup(a) \/ Cancel(a)
      BY <1>1, <3>2, CancelEvolves DEF UndoGroup, Cancel, CancelCommits, LeavesRunning, RunsOn
    <3>3. CASE ClearTab
      BY <1>1, <3>3, ClearEvolves
    <3>4. CASE BadProgress(a)
      BY <1>1, <3>4 DEF BadProgress, RunsOn, Maps
    <3> QED BY <1>2, <3>1, <3>2, <3>3, <3>4
  <2> QED BY <2>1, <2>2, WantedKept DEF Launchable
<1>3. CASE AdmitFails(a) \/ Complete(a) \/ Confirm(a) \/ FailExecution(a)
  <2>1. /\ UNCHANGED <<entry, proc, phase, signals>> /\ pc[a] \notin {"launch", "monitor"}
        /\ pc' = [pc EXCEPT ![a] = "release"]
    BY <1>3 DEF AdmitFails, Complete, Confirm, FailExecution, Go, procVars, shutVars
  <2>2. ~Launchable(a)' /\ proc[a] # "alive"
    BY <2>1 DEF Launchable, IInv, TypeOK, RunnersAgree
  <2>3. \A b \in Analyses \ {a} : RunsOn(b, rec[b], rec'[b])
    BY <1>1, <1>3, RunnerCommitsEvolve DEF EndsOnly, RunsOn
  <2>4. \A b \in Analyses \ {a} : Launchable(b)' => Launchable(b)
    BY <2>1 DEF Launchable, IInv, TypeOK
  <2> QED BY <2>1, <2>2, <2>3, <2>4, WantedKept DEF Launchable
<1> QED BY <1>2, <1>3

\* Admission starts the record before the launch; refusals and interruptions
\* come when the executor is closing or closed.
LEMMA WantedAtTheEdges ==
  ASSUME IInv, WantedInv, NEW a \in Analyses,
         \/ AdmitCommits(a) \/ EnqueueRefused(a) \/ InterruptQueued(a) \/ InterruptSelected(a)
  PROVE  WantedInv'
<1>1. CASE AdmitCommits(a)
  <2>1. /\ rec'[a].state = "running" /\ \A b \in Analyses \ {a} : rec'[b] = rec[b] /\ pc'[b] = pc[b]
        /\ UNCHANGED <<entry, proc, phase, signals>>
    BY <1>1 DEF AdmitCommits, Go, procVars, shutVars, IInv, TypeOK
  <2> QED BY <2>1 DEF WantedInv, Wanted, Launchable, ExecutorStaysClosed
<1>2. CASE EnqueueRefused(a) \/ InterruptQueued(a) \/ InterruptSelected(a)
  <2>1. UNCHANGED <<pc, entry, proc, phase, signals>>
    BY <1>2 DEF EnqueueRefused, InterruptQueued, InterruptSelected, procVars, shutVars
  <2>2. phase \in {"stopping", "draining", "closed", "interrupting", "down"}
    BY <1>2 DEF EnqueueRefused, InterruptQueued, InterruptSelected, SchedulerAccepts, IInv, TypeOK
  <2> QED BY <2>1, <2>2 DEF WantedInv, Wanted, Launchable, ExecutorStaysClosed
<1> QED BY <1>1, <1>2

\* Steps of the Workspace and of the shutdown leave no process unwanted.
LEMMA WantedByTheWorkspace ==
  ASSUME IInv, WantedInv,
         \/ RequestClose \/ Reopen \/ DeleteBegin \/ DeleteEnd \/ DeleteFails
         \/ StopAccepting \/ StopDispatch \/ ReadActive \/ CloseExecutor \/ WaitIdle
         \/ Down \/ Crash \/ Restart \/ UNCHANGED vars
  PROVE  WantedInv'
<1> USE DEF WantedInv, Wanted, Launchable, ExecutorStaysClosed, recVars, procVars, shutVars
<1>1. CASE RequestClose \/ Reopen \/ DeleteFails \/ UNCHANGED vars
  BY <1>1 DEF RequestClose, Reopen, DeleteFails, vars
<1>2. CASE DeleteBegin
  BY <1>2, CancelEntriesStops DEF DeleteBegin
<1>3. CASE DeleteEnd
  BY <1>3 DEF DeleteEnd, IInv, WorkspaceHolds, MayLive
<1>4. CASE StopAccepting \/ StopDispatch \/ ReadActive \/ WaitIdle
  BY <1>4 DEF StopAccepting, StopDispatch, ReadActive, WaitIdle
<1>5. CASE CloseExecutor
  BY <1>5, CancelEntriesStops DEF CloseExecutor
<1>6. CASE Down \/ Crash
  BY <1>6 DEF Down, Crash, Vanish
<1>7. CASE Restart
  BY <1>7 DEF Restart
<1> QED BY <1>1, <1>2, <1>3, <1>4, <1>5, <1>6, <1>7

\* No step does.
LEMMA WantedPreserved ==
  ASSUME IInv, RecordsHold, WantedInv, [Next]_vars
  PROVE  WantedInv'
<1>1. CASE Submission
  BY <1>1, WantedWithoutCommit, WantedAcrossCommits, WantedAtTheEdges DEF Submission
<1>2. CASE Cancellation
  BY <1>2, WantedWithoutCommit, WantedAcrossCommits DEF Cancellation
<1>3. CASE ClearTab
  <2>1. PICK a \in Analyses : TRUE
    BY <1>3 DEF ClearTab
  <2> QED BY <1>3, <2>1, WantedAcrossCommits
<1>4. CASE Runner
  <2> SUFFICES ASSUME NEW a \in Analyses,
                      \/ Dispatch(a) \/ Admission(a) \/ Execution(a) \/ Conclusion(a)
                      \/ \E outcome \in Outcomes : WorkerEnds(a, outcome)
               PROVE  WantedInv'
    BY <1>4 DEF Runner
  <2>1. CASE Admission(a)
    BY <2>1, WantedWithoutCommit, WantedAcrossCommits, WantedAtTheEdges DEF Admission
  <2>2. CASE Execution(a)
    BY <2>2, WantedWithoutCommit, WantedAcrossCommits DEF Execution
  <2>3. CASE Conclusion(a)
    BY <2>3, WantedWithoutCommit, WantedAcrossCommits DEF Conclusion
  <2> QED BY <2>1, <2>2, <2>3, WantedWithoutCommit
<1>5. CASE WorkspaceLifecycle
  BY <1>5, WantedWithoutCommit, WantedByTheWorkspace DEF WorkspaceLifecycle
<1>6. CASE Shutdown
  BY <1>6, WantedAtTheEdges, WantedByTheWorkspace DEF Shutdown
<1> QED BY <1>1, <1>2, <1>3, <1>4, <1>5, <1>6, WantedByTheWorkspace DEF Next

\* Every live process is monitored, and works for a running record or is about
\* to be stopped, unless a success superseded what it works for.
THEOREM ProcessesWanted == Spec => []EveryProcessIsWanted
<1>1. Init => WantedInv
  BY DEF Init, WantedInv, Launchable, ExecutorStaysClosed
<1>2. IInv /\ RecordsHold /\ WantedInv /\ [Next]_vars => WantedInv'
  BY WantedPreserved
<1>3. IInv /\ WantedInv => EveryProcessIsWanted
  BY DEF IInv, RunnersAgree, WantedInv, Wanted, Launchable, EveryProcessIsWanted
<1> QED BY <1>1, <1>2, <1>3, RecordsInvariance, PTL DEF Spec

----------------------------------------------------------------------------
\* No work is lost, where no client closes the Workspace

\* What shutdown has taken over, and what it has left to others.
ShutdownOwns ==
  /\ phase \notin {"stopping", "draining", "closed"} => interrupts = {}
  /\ phase \notin {"draining", "closed", "interrupting"} => selected = {}
  /\ phase \notin {"serving", "refusing"} => pending = {}
  /\ phase \in {"draining", "closed"} => active \subseteq selected
  /\ interrupts \intersect (active \union pending \union unscheduled) = {}

\* What waits has not been started, and what has left its worker has.
RunnersStart ==
  \A a \in Analyses :
    /\ a \in unscheduled \union pending \union interrupts => rec[a].state # "running"
    /\ pc[a] = "start" => rec[a].state # "running"
    /\ pc[a] \in {"complete", "confirm", "fail"} => rec[a].state # "queued"

\* A record that is not under way, or is, and its end has been requested.
Ending(a) ==
  /\ rec[a].state \notin {"absent", "queued"}
  /\ rec[a].state = "running" => rec[a].creq

SignalsAreCommitted == \A a \in signals : Ending(a)

\* The executor confirms a cancellation only to a record that asked for it,
\* unless it was told to stop by a shutdown or a deletion.
ConfirmsTheRequested ==
  faults = 0 /\ gate # "deletion" /\ phase \notin {"closed", "interrupting"} =>
    \A a \in Analyses :
      \/ pc[a] = "confirm"
      \/ entry[a] = "flagged" /\ pc[a] \in {"commit", "launch", "monitor"}
      => Ending(a)

\* A Workspace that cannot be changed has no work.
ClosedIsIdle ==
  /\ ws # "closing"
  /\ ws # "open" /\ phase # "down" /\ faults = 0 =>
       \A a \in Analyses : rec[a].state \notin Working

\* Whose hands a record is in.
Held(a) ==
  \/ a \in unscheduled \union pending \union interrupts \union selected
  \/ pc[a] \notin {"none", "release"}
  \/ rec[a].state = "queued" /\ Kind[a] = "source" /\ Parent[a] \in undo

WorkIsHeld ==
  faults = 0 /\ phase # "down" /\ gate # "deletion" =>
    \A a \in Analyses : Kind[a] # "group" /\ rec[a].state \in Working => Held(a)

HeldInv ==
  /\ RunnersStart
  /\ SignalsAreCommitted
  /\ ConfirmsTheRequested
  /\ ClosedIsIdle
  /\ WorkIsHeld

\* What the shutdown has emptied and whom it has selected agree with its phase.
LEMMA ShutdownOwnsPreserved ==
  ASSUME IInv, ShutdownOwns, [Next]_vars
  PROVE  ShutdownOwns'
<1> USE DEF ShutdownOwns, SchedulerAccepts, schedVars, shutVars, recVars
<1>1. ScheduledOnce /\ StoppedIsQuiet
  BY DEF IInv
<1>2. CASE Submission
  BY <1>2 DEF Submission, Submit, Enqueue, EnqueueRefused, UndoGroup
<1>3. CASE Cancellation
  BY <1>3 DEF Cancellation, Cancel, DeliverCancel
<1>4. CASE ClearTab
  BY <1>4 DEF ClearTab
<1>5. CASE Runner
  <2> SUFFICES ASSUME NEW a \in Analyses,
                      \/ Dispatch(a) \/ Admission(a) \/ Execution(a) \/ Conclusion(a)
                      \/ \E outcome \in Outcomes : WorkerEnds(a, outcome)
               PROVE  ShutdownOwns'
    BY <1>5 DEF Runner
  <2>1. CASE Dispatch(a)
    BY <2>1 DEF Dispatch
  <2>2. CASE Release(a)
    BY <2>2 DEF Release
  <2>3. CASE ~Dispatch(a) /\ ~Release(a)
    <3>1. UNCHANGED <<phase, interrupts, selected, pending, active, unscheduled>>
      BY <2>3 DEF Admission, NotAdmitted, AdmitSkips, AdmitFails, AdmitReserves, AdmitCommits,
           AdmitRollsBack, Execution, LaunchSuppressed, LaunchFails, Launch, Receive,
           BadProgress, ProgressRaises, Conclusion, Complete, Confirm, FailExecution, Raises,
           WorkerEnds
    <3> QED BY <3>1
  <2> QED BY <2>1, <2>2, <2>3
<1>6. CASE WorkspaceLifecycle
  BY <1>6 DEF WorkspaceLifecycle, FinalizeClose, RequestClose, Reopen, DeleteBegin,
         DeleteEnd, DeleteFails
<1>7. CASE Shutdown
  BY <1>1, <1>7 DEF Shutdown, StopAccepting, StopDispatch, ReadActive, CloseExecutor,
         InterruptQueued, InterruptSelected, WaitIdle, Down, Crash, Vanish, Restart,
         ScheduledOnce, StoppedIsQuiet
<1>8. CASE UNCHANGED vars
  BY <1>8 DEF vars
<1> QED BY <1>2, <1>3, <1>4, <1>5, <1>6, <1>7, <1>8 DEF Next

\* A commit that follows the life cycle starts nothing, takes no request back
\* and leaves what has ended ended.
Steady ==
  \A a \in Analyses :
    /\ rec'[a].state \in Working =>
         rec'[a].state = rec[a].state /\ (rec[a].creq => rec'[a].creq)
    /\ rec'[a].state = "absent" => rec[a].state = "absent"

\* Where the map evolves, a record that works was in that state before and keeps
\* the cancellation requested of it.
LEMMA EvolvingIsSteady ==
  ASSUME UNCHANGED rec \/ Evolves(rec, rec')
  PROVE  Steady
BY DEF Steady, Evolves, Moves, Working, Gone

\* A record that is over, or runs with its cancellation requested, stays so.
LEMMA EndingStays ==
  ASSUME Steady, NEW a \in Analyses, Ending(a)
  PROVE  Ending(a)'
BY DEF Steady, Ending, Working

\* What all the invariants but the last need of a step that is steady.
LEMMA SteadyKeeps ==
  ASSUME IInv, IInv', HeldInv, Steady,
         faults' \in {faults, faults + 1}, gate' = gate, phase' = phase, ws' = ws,
         \A a \in Analyses :
           /\ a \in (unscheduled \union pending \union interrupts)' =>
                a \in unscheduled \union pending \union interrupts
           /\ pc'[a] = "start" => pc[a] = "start" \/ a \in pending
           /\ pc'[a] \in {"complete", "confirm", "fail"} =>
                pc[a] \in {"launch", "monitor", "complete", "confirm", "fail"}
           /\ a \in signals' => a \in signals \/ Ending(a)'
           /\ pc'[a] = "confirm" =>
                pc[a] = "confirm" \/ (entry[a] = "flagged" /\ pc[a] \in {"launch", "monitor"})
           /\ entry'[a] = "flagged" /\ pc'[a] \in {"commit", "launch", "monitor"} =>
                \/ entry[a] = "flagged" /\ pc[a] \in {"commit", "launch", "monitor"}
                \/ a \in signals
  PROVE  RunnersStart' /\ SignalsAreCommitted' /\ ConfirmsTheRequested' /\ ClosedIsIdle'
<1>1. faults \in Nat
  BY BoundsOK DEF IInv, TypeOK
<1>2. RunnersStart'
  BY DEF HeldInv, RunnersStart, Steady, Working, IInv, RecordsAgree
<1>3. SignalsAreCommitted'
  <2>1. signals' \subseteq Analyses
    BY DEF IInv, TypeOK
  <2> QED BY <2>1, EndingStays DEF HeldInv, SignalsAreCommitted
<1>4. ConfirmsTheRequested'
  <2> SUFFICES ASSUME (faults = 0 /\ gate # "deletion" /\ phase \notin {"closed", "interrupting"})',
                      NEW a \in Analyses,
                      \/ pc'[a] = "confirm"
                      \/ entry'[a] = "flagged" /\ pc'[a] \in {"commit", "launch", "monitor"}
               PROVE  Ending(a)'
    BY DEF ConfirmsTheRequested
  <2>1. faults = 0
    BY <1>1
  <2>2. Ending(a)
    BY <2>1 DEF HeldInv, ConfirmsTheRequested, SignalsAreCommitted
  <2> QED BY <2>2, EndingStays
<1>5. ClosedIsIdle'
  BY <1>1 DEF HeldInv, ClosedIsIdle, Steady
<1> QED BY <1>2, <1>3, <1>4, <1>5

\* Steps that leave the records, the Workspace and shutdown alone.
LEMMA HeldWithoutCommit ==
  ASSUME IInv, IInv', HeldInv, NEW a \in Analyses,
         \/ Enqueue(a) \/ DeliverCancel(a) \/ Dispatch(a) \/ NotAdmitted(a) \/ AdmitSkips(a)
         \/ AdmitReserves(a) \/ AdmitRollsBack(a) \/ LaunchSuppressed(a) \/ LaunchFails(a)
         \/ Launch(a) \/ Receive(a) \/ ProgressRaises(a) \/ Raises(a) \/ Release(a)
         \/ \E outcome \in Outcomes : WorkerEnds(a, outcome)
  PROVE  HeldInv'
<1>1. /\ UNCHANGED <<rec, undo, phase, ws, interrupts, selected>>
      /\ faults' \in {faults, faults + 1}
      /\ faults \in Nat
  BY BoundsOK DEF Enqueue, DeliverCancel, Dispatch, NotAdmitted, AdmitSkips, AdmitReserves, AdmitRollsBack,
     LaunchSuppressed, LaunchFails, Launch, Receive, ProgressRaises, Raises, Release,
     WorkerEnds, recVars, shutVars, IInv, TypeOK
<1>2. Steady
  BY <1>1, EvolvingIsSteady
<1>3. \A b \in Analyses : b # a => pc'[b] = pc[b]
  BY DEF Enqueue, DeliverCancel, Dispatch, NotAdmitted, AdmitSkips, AdmitReserves, AdmitRollsBack,
     LaunchSuppressed, LaunchFails, Launch, Receive, ProgressRaises, Raises, Release,
     WorkerEnds, Go, IInv, TypeOK
<1>4. RunnersStart' /\ SignalsAreCommitted' /\ ClosedIsIdle'
  <2>1. ClosedIsIdle'
    BY <1>1 DEF ClosedIsIdle, HeldInv
  <2>2. SignalsAreCommitted'
    <3>1. signals' \subseteq signals
      BY DEF Enqueue, DeliverCancel, Dispatch, NotAdmitted, AdmitSkips, AdmitReserves,
             AdmitRollsBack, LaunchSuppressed, LaunchFails, Launch, Receive, ProgressRaises,
             Raises, Release, WorkerEnds
    <3> QED BY <1>1, <3>1 DEF SignalsAreCommitted, Ending, HeldInv
  <2>3. RunnersStart'
    <3> USE DEF RunnersStart, HeldInv, IInv, TypeOK, RecordsAgree, Go, recVars, schedVars
    <3>1. CASE Enqueue(a) \/ DeliverCancel(a) \/ \E outcome \in Outcomes : WorkerEnds(a, outcome)
      BY <1>1, <3>1 DEF Enqueue, DeliverCancel, WorkerEnds
    <3>2. CASE Dispatch(a) \/ NotAdmitted(a) \/ AdmitSkips(a) \/ AdmitReserves(a) \/ AdmitRollsBack(a)
      BY <1>1, <3>2 DEF Dispatch, NotAdmitted, AdmitSkips, AdmitReserves, AdmitRollsBack
    <3>3. CASE LaunchSuppressed(a) \/ LaunchFails(a) \/ Launch(a) \/ Receive(a) \/ ProgressRaises(a)
      BY <1>1, <3>3 DEF LaunchSuppressed, LaunchFails, Launch, Receive, ProgressRaises
    <3>4. CASE Raises(a) \/ Release(a)
      BY <1>1, <3>4 DEF Raises, Release
    <3> QED BY <3>1, <3>2, <3>3, <3>4
  <2> QED BY <2>1, <2>2, <2>3
<1>5. ConfirmsTheRequested'
  <2> SUFFICES ASSUME (faults = 0 /\ gate # "deletion" /\ phase \notin {"closed", "interrupting"})',
                      NEW b \in Analyses,
                      \/ pc'[b] = "confirm"
                      \/ entry'[b] = "flagged" /\ pc'[b] \in {"commit", "launch", "monitor"}
               PROVE  Ending(b)
    BY <1>1 DEF ConfirmsTheRequested, Ending
  <2> SUFFICES \/ b \in signals
               \/ /\ gate # "deletion"
                  /\ \/ pc[b] = "confirm"
                     \/ entry[b] = "flagged" /\ pc[b] \in {"commit", "launch", "monitor"}
    BY <1>1 DEF HeldInv, ConfirmsTheRequested, SignalsAreCommitted
  <2> USE DEF Go, IInv, TypeOK, procVars, schedVars
  <2>1. CASE Enqueue(a) \/ \E outcome \in Outcomes : WorkerEnds(a, outcome)
    BY <2>1 DEF Enqueue, WorkerEnds
  <2>2. CASE DeliverCancel(a)
    BY <2>2 DEF DeliverCancel, CancelEntries
  <2>3. CASE Dispatch(a) \/ NotAdmitted(a) \/ AdmitSkips(a) \/ AdmitReserves(a) \/ AdmitRollsBack(a)
    BY <2>3, AnalysesOK, NoAnalysisOK DEF Dispatch, NotAdmitted, AdmitSkips, AdmitReserves, AdmitRollsBack,
       Internal, GateFree, RunnersAgree
  <2>4. CASE LaunchSuppressed(a) \/ LaunchFails(a) \/ Launch(a) \/ ProgressRaises(a)
    BY <2>4 DEF LaunchSuppressed, LaunchFails, Launch, ProgressRaises
  <2>6. CASE Receive(a)
    <3>1. /\ pc[a] = "monitor" /\ gate' = gate
          /\ pc'[a] = "confirm" => entry[a] = "flagged"
          /\ entry'[a] = "none"
          /\ \A c \in Analyses \ {a} : pc'[c] = pc[c] /\ entry'[c] = entry[c]
      BY <2>6 DEF Receive
    <3> QED BY <3>1
  <2>5. CASE Raises(a) \/ Release(a)
    BY <2>5 DEF Raises, Release
  <2> QED BY <2>1, <2>2, <2>3, <2>4, <2>5, <2>6
<1>6. WorkIsHeld'
  <2> SUFFICES ASSUME (faults = 0 /\ phase # "down" /\ gate # "deletion")',
                      NEW b \in Analyses, Kind[b] # "group", rec[b].state \in Working
               PROVE  Held(b)'
    BY <1>1 DEF WorkIsHeld
  <2>1. faults = 0 /\ faults' = 0 /\ phase # "down"
    BY <1>1
  <2>2. gate # "deletion"
    BY AnalysesOK, NoAnalysisOK DEF Enqueue, DeliverCancel, Dispatch, NotAdmitted, AdmitSkips, AdmitReserves,
       AdmitRollsBack, LaunchSuppressed, LaunchFails, Launch, Receive, ProgressRaises, Raises,
       Release, WorkerEnds, Internal, GateFree, IInv, RunnersAgree
  <2>3. Held(b)
    BY <2>1, <2>2 DEF HeldInv, WorkIsHeld
  <2> USE DEF Held, recVars, schedVars, Go, IInv, TypeOK
  <2>4. CASE Enqueue(a) \/ \E outcome \in Outcomes : WorkerEnds(a, outcome)
    BY <1>1, <2>3, <2>4 DEF Enqueue, WorkerEnds
  <2>5. CASE DeliverCancel(a)
    <3>1. a = b => a \notin pending
      BY <2>5 DEF DeliverCancel, HeldInv, SignalsAreCommitted, RunnersStart, Ending, Working
    <3> QED BY <1>1, <2>3, <2>5, <3>1 DEF DeliverCancel
  <2>6. CASE Dispatch(a) \/ NotAdmitted(a) \/ AdmitReserves(a)
    BY <1>1, <2>3, <2>6 DEF Dispatch, NotAdmitted, AdmitReserves
  <2>7. CASE AdmitSkips(a)
    <3>1. a # b
      BY <2>7 DEF AdmitSkips, HeldInv, RunnersStart, Working
    <3> QED BY <1>1, <2>3, <2>7, <3>1 DEF AdmitSkips
  <2>8. CASE AdmitRollsBack(a)
    BY <1>1, <2>1, <2>8 DEF AdmitRollsBack
  <2>9. CASE LaunchSuppressed(a) \/ LaunchFails(a) \/ Launch(a) \/ Receive(a) \/ ProgressRaises(a)
    BY <1>1, <2>3, <2>9 DEF LaunchSuppressed, LaunchFails, Launch, Receive, ProgressRaises
  <2>10. CASE Raises(a)
    <3>1. /\ UNCHANGED <<unscheduled, pending>>
          /\ pc' = [pc EXCEPT ![a] = IF pc[a] = "fallback" THEN "release" ELSE "fallback"]
      BY <2>10 DEF Raises
    <3>2. CASE pc[a] = "fallback"
      <4>1. ws \notin {"open", "closing"}
        BY <1>1, <2>1, <2>10, <3>2 DEF Raises, NotOpen, CompletionRaises
      <4> QED BY <2>1, <4>1 DEF HeldInv, ClosedIsIdle
    <3>3. CASE pc[a] # "fallback"
      BY <1>1, <2>3, <3>1, <3>3
    <3> QED BY <3>2, <3>3
  <2>11. CASE Release(a)
    BY <1>1, <2>3, <2>11 DEF Release
  <2> QED BY <2>4, <2>5, <2>6, <2>7, <2>8, <2>9, <2>10, <2>11
<1> QED BY <1>4, <1>5, <1>6 DEF HeldInv

\* The commits of a runner, which ends with them: the record has ended, or
\* shutdown has it.
LEMMA HeldAcrossRunnerCommits ==
  ASSUME IInv, IInv', RecordsHold, ShutdownOwns, HeldInv, NEW a \in Analyses,
         AdmitFails(a) \/ Complete(a) \/ Confirm(a) \/ FailExecution(a)
  PROVE  HeldInv'
<1>1. /\ UNCHANGED <<unscheduled, undo, pending, active, entry, signals, gate, ws, phase,
                     interrupts, selected, faults>>
      /\ pc[a] # "none"
      /\ pc' = [pc EXCEPT ![a] = "release"]
  BY DEF AdmitFails, Complete, Confirm, FailExecution, Go, schedVars, procVars, shutVars
<1>2. Steady
  BY RunnerCommitsEvolve, EvolvingIsSteady DEF EndsOnly, RecordsHold
<1>3. \A b \in Analyses : pc'[b] \in {pc[b], "release"} /\ (b # a => pc'[b] = pc[b])
  BY <1>1 DEF IInv, TypeOK
<1>4. RunnersStart' /\ SignalsAreCommitted' /\ ConfirmsTheRequested' /\ ClosedIsIdle'
  BY <1>1, <1>2, <1>3, SteadyKeeps
<1>5. WorkIsHeld'
  <2> SUFFICES ASSUME (faults = 0 /\ phase # "down" /\ gate # "deletion")',
                      NEW b \in Analyses, Kind[b] # "group", rec'[b].state \in Working
               PROVE  Held(b)'
    BY DEF WorkIsHeld
  <2>1. rec[b].state \in Working /\ rec[b].state = rec'[b].state /\ Held(b)
    BY <1>1, <1>2 DEF Steady, HeldInv, WorkIsHeld
  <2>2. CASE b # a
    BY <1>1, <1>3, <2>1, <2>2 DEF Held
  <2>3. CASE b = a
    <3>1. ~EndsOnly(a, rec, rec')
      BY <2>3 DEF EndsOnly
    <3>2. Confirm(a) /\ ~(rec[a].state = "running" /\ rec[a].creq)
      BY <2>1, <2>3, <3>1, RunnerCommitsEvolve
         DEF RecordsHold, Complete, HeldInv, RunnersStart, Working
    <3>3. pc[a] = "confirm" /\ ~Ending(a)
      BY <2>1, <2>3, <3>2 DEF Confirm, Ending, Working
    <3>4. phase \in {"closed", "interrupting"}
      BY <1>1, <3>3 DEF HeldInv, ConfirmsTheRequested
    <3>5. a \in active
      BY <1>1 DEF IInv, RunnersAgree
    <3>6. a \in selected
      BY <3>4, <3>5 DEF IInv, StoppedIsQuiet, ShutdownOwns
    <3> QED BY <1>1, <2>3, <3>6 DEF Held
  <2> QED BY <2>2, <2>3
<1> QED BY <1>4, <1>5 DEF HeldInv

\* Cancelling, clearing and invalid progress move records and signal runners;
\* who holds what remains.
LEMMA HeldAcrossCancellations ==
  ASSUME IInv, IInv', RecordsHold, HeldInv, NEW a \in Analyses,
         Cancel(a) \/ ClearTab \/ BadProgress(a) \/ UndoGroup(a)
  PROVE  HeldInv'
<1>1. /\ UNCHANGED <<unscheduled, pending, active, pc, entry, gate, ws, phase,
                     interrupts, selected, faults>>
      /\ GateFree
  BY DEF Cancel, ClearTab, BadProgress, UndoGroup, schedVars, procVars, shutVars, Internal, External
<1>2. Evolves(rec, rec')
  BY OtherCommitsEvolve DEF RecordsHold
<1>3. Steady
  BY <1>2, EvolvingIsSteady
<1>4. rec \in Maps /\ GroupsHold(rec)
  BY DEF IInv, TypeOK, Maps, RecordsHold
<1>5. ASSUME CancelCommits(a), NEW b \in CancelMembers(a)
      PROVE  Ending(b)'
  <2>1. b \in Analyses /\ rec[b].state # "absent"
    BY DEF CancelMembers, Tree, Gone
  <2>2. rec'[b].state # "absent"
    BY <1>3, <2>1 DEF Steady
  <2> QED BY <1>4, <1>5, <2>2, CancelEvolves DEF CancelCommits, Ending
<1>6. \A b \in signals' : b \in signals \/ Ending(b)'
  <2>1. CASE Cancel(a) \/ (UndoGroup(a) /\ CancelCommits(a))
    BY <1>5, <2>1 DEF Cancel, CancelCommits
  <2>2. CASE UndoGroup(a) /\ ~CancelCommits(a)
    BY <2>2 DEF UndoGroup
  <2>3. CASE ClearTab
    BY <1>4, <2>3, ClearEvolves DEF Ending
  <2>4. CASE BadProgress(a)
    BY <1>4, <2>4, RecordOps DEF BadProgress, Ending, Maps
  <2> QED BY <2>1, <2>2, <2>3, <2>4
<1>7. RunnersStart' /\ SignalsAreCommitted' /\ ConfirmsTheRequested' /\ ClosedIsIdle'
  BY <1>1, <1>3, <1>6, SteadyKeeps
<1>8. WorkIsHeld'
  <2> SUFFICES ASSUME (faults = 0 /\ phase # "down" /\ gate # "deletion")',
                      NEW b \in Analyses, Kind[b] # "group", rec'[b].state \in Working
               PROVE  Held(b)'
    BY DEF WorkIsHeld
  <2>1. rec[b].state \in Working /\ rec[b].state = rec'[b].state /\ Held(b)
    BY <1>1, <1>3 DEF Steady, HeldInv, WorkIsHeld
  <2>2. CASE UNCHANGED undo
    BY <1>1, <2>1, <2>2 DEF Held
  <2>3. CASE UndoGroup(a) /\ ~(rec[b].state = "queued" /\ Kind[b] = "source" /\ Parent[b] = a)
    BY <1>1, <2>1, <2>3 DEF Held, UndoGroup
  <2>4. CASE UndoGroup(a) /\ rec[b].state = "queued" /\ Kind[b] = "source" /\ Parent[b] = a
    <3>1. rec[a].live /\ rec[a].state = "running"
      BY <2>4 DEF RecordsHold, GroupsHold
    <3>2. Internal
      BY <1>1, <3>1 DEF HeldInv, ClosedIsIdle, Internal, Working
    <3>3. CancelCommits(a)
      BY <2>4, <3>1, <3>2 DEF UndoGroup, Working
    <3>4. b \in CancelMembers(a)
      BY <2>4, LineageClimbs DEF CancelMembers, Tree, Gone
    <3>5. rec'[b].state # "queued"
      BY <1>5, <3>3, <3>4 DEF Ending
    <3> QED BY <2>1, <2>4, <3>5
  <2> QED BY <2>2, <2>3, <2>4 DEF Cancel, ClearTab, BadProgress
<1> QED BY <1>7, <1>8 DEF HeldInv

\* What the scheduler refuses is taken back, and with it its group.
LEMMA HeldAcrossRefusals ==
  ASSUME IInv, IInv', RecordsHold, HeldInv, NEW a \in Analyses, EnqueueRefused(a)
  PROVE  HeldInv'
<1>1. /\ UNCHANGED <<pending, active, pc, entry, signals, gate, ws, phase, interrupts,
                     selected, faults>>
      /\ unscheduled' \subseteq unscheduled /\ undo \subseteq undo'
      /\ GateFree /\ a \in unscheduled
  BY DEF EnqueueRefused, schedVars, procVars, shutVars
<1>2. Steady
  BY OtherCommitsEvolve, EvolvingIsSteady DEF RecordsHold
<1>3. RunnersStart' /\ SignalsAreCommitted' /\ ConfirmsTheRequested' /\ ClosedIsIdle'
  BY <1>1, <1>2, SteadyKeeps
<1>4. WorkIsHeld'
  <2> SUFFICES ASSUME (faults = 0 /\ phase # "down" /\ gate # "deletion")',
                      NEW b \in Analyses, Kind[b] # "group", rec'[b].state \in Working
               PROVE  Held(b)'
    BY DEF WorkIsHeld
  <2>1. rec[b].state \in Working /\ rec[b].state = rec'[b].state /\ Held(b)
    BY <1>1, <1>2 DEF Steady, HeldInv, WorkIsHeld
  <2>2. b # a
    <3> SUFFICES ASSUME b = a PROVE FALSE
      OBVIOUS
    <3>1. rec[a].state = "queued"
      BY <1>1, <2>1 DEF HeldInv, RunnersStart, Working
    <3>2. Internal
      BY <1>1, <2>1 DEF HeldInv, ClosedIsIdle, Internal
    <3>3. rec' = RemoveTree(rec, a) /\ a \in Tree(rec, a)
      BY <3>1, <3>2 DEF EnqueueRefused, Tree, Gone
    <3>4. rec'[a].state = "removed"
      BY <3>3, RecordOps DEF RemoveTree, Put, IInv, TypeOK
    <3> QED BY <2>1, <3>4 DEF Working
  <2>3. CASE b \in unscheduled \ unscheduled'
    <3>1. Kind[b] = "source" /\ Parent[b] \in undo'
      BY <2>2, <2>3 DEF EnqueueRefused
    <3>2. rec[b].state = "queued"
      BY <2>1, <2>3 DEF HeldInv, RunnersStart, Working
    <3> QED BY <2>1, <3>1, <3>2 DEF Held
  <2>4. CASE b \notin unscheduled \ unscheduled'
    BY <1>1, <2>1, <2>4 DEF Held
  <2> QED BY <2>3, <2>4
<1> QED BY <1>3, <1>4 DEF HeldInv

\* A submission is in the hands of its request.
LEMMA HeldAcrossSubmissions ==
  ASSUME IInv, IInv', RecordsHold, ShutdownOwns, HeldInv, NEW r \in Analyses, Submit(r)
  PROVE  HeldInv'
<1>1. /\ UNCHANGED <<undo, pending, active, pc, entry, signals, gate, ws, phase,
                     interrupts, selected, faults>>
      /\ unscheduled \subseteq unscheduled'
      /\ ws = "open" /\ phase = "serving" /\ gate # "deletion"
  BY NoAnalysisOK DEF Submit, schedVars, procVars, shutVars, External, GateFree
<1>2. \A a \in Analyses :
        \/ rec'[a] = rec[a] /\ a \notin unscheduled' \ unscheduled
        \/ /\ rec[a].state = "absent"
           /\ rec'[a].state = IF Kind[a] = "group" THEN "running" ELSE "queued"
           /\ Kind[a] # "group" => a \in unscheduled'
  BY SubmitCreates DEF RecordsHold
<1>3. \A a \in Analyses : rec[a].state = "absent" =>
        pc[a] = "none" /\ a \notin signals
  BY DEF IInv, ScheduledOnce, RunnersAgree, HeldInv, SignalsAreCommitted, Ending
<1>4. interrupts = {}
  BY <1>1 DEF ShutdownOwns
<1>5. RunnersStart'
  <2>1. \A a \in Analyses : Kind[a] = "group" => a \notin unscheduled' \union pending
    BY <1>1 DEF IInv, GroupsAreRoots
  <2> QED BY <1>1, <1>2, <1>3, <1>4, <2>1 DEF RunnersStart, HeldInv
<1>6. SignalsAreCommitted' /\ ConfirmsTheRequested'
  <2>1. \A a \in Analyses : Ending(a) => Ending(a)'
    BY <1>2 DEF Ending
  <2>2. signals \subseteq Analyses
    BY DEF IInv, TypeOK
  <2> QED BY <1>1, <2>1, <2>2 DEF SignalsAreCommitted, ConfirmsTheRequested, HeldInv
<1>7. ClosedIsIdle'
  BY <1>1 DEF ClosedIsIdle
<1>8. WorkIsHeld'
  BY <1>1, <1>2 DEF WorkIsHeld, HeldInv, Held
<1> QED BY <1>5, <1>6, <1>7, <1>8 DEF HeldInv

\* A record that is started is in the hands of its runner.
LEMMA HeldAcrossAdmissions ==
  ASSUME IInv, IInv', RecordsHold, ShutdownOwns, HeldInv, NEW a \in Analyses, AdmitCommits(a)
  PROVE  HeldInv'
<1>1. /\ UNCHANGED <<unscheduled, undo, pending, active, entry, signals, ws, phase,
                     interrupts, selected, faults>>
      /\ pc' = [pc EXCEPT ![a] = "launch"]
      /\ pc[a] = "commit"
  BY DEF AdmitCommits, Go, schedVars, procVars, shutVars
<1>2. /\ rec[a].state = "queued" /\ rec'[a].state = "running"
      /\ \A b \in Analyses \ {a} : rec'[b] = rec[b]
  BY StartEvolves DEF RecordsHold
<1>3. gate = a /\ gate # "deletion" /\ ws \in {"open", "closing"}
  BY <1>1, AnalysesOK DEF IInv, RunnersAgree, WorkspaceHolds, MayLive
<1>4. a \in active /\ a \notin unscheduled \union pending \union interrupts
  BY <1>1 DEF IInv, RunnersAgree, ScheduledOnce, ShutdownOwns
<1>5. \A b \in Analyses : pc'[b] = IF b = a THEN "launch" ELSE pc[b]
  BY <1>1 DEF IInv, TypeOK
<1>6. RunnersStart'
  BY <1>1, <1>2, <1>4, <1>5 DEF RunnersStart, HeldInv
<1>7. a \notin signals
  BY <1>2 DEF HeldInv, SignalsAreCommitted, Ending
<1>8. SignalsAreCommitted'
  <2>1. signals \subseteq Analyses
    BY DEF IInv, TypeOK
  <2> QED BY <1>1, <1>2, <1>7, <2>1 DEF SignalsAreCommitted, HeldInv, Ending
<1>9. ConfirmsTheRequested'
  <2> SUFFICES ASSUME (faults = 0 /\ gate # "deletion" /\ phase \notin {"closed", "interrupting"})',
                      NEW b \in Analyses,
                      \/ pc'[b] = "confirm"
                      \/ entry'[b] = "flagged" /\ pc'[b] \in {"commit", "launch", "monitor"}
               PROVE  Ending(b)'
    BY DEF ConfirmsTheRequested
  <2>1. Ending(b)
    BY <1>1, <1>3, <1>5 DEF HeldInv, ConfirmsTheRequested
  <2>2. b # a
    BY <1>2, <2>1 DEF Ending
  <2> QED BY <1>2, <2>1, <2>2 DEF Ending
<1>10. ClosedIsIdle'
  BY <1>1, <1>3 DEF ClosedIsIdle, HeldInv
<1>11. WorkIsHeld'
  BY <1>1, <1>2, <1>3, <1>5 DEF WorkIsHeld, HeldInv, Held
<1> QED BY <1>6, <1>8, <1>9, <1>10, <1>11 DEF HeldInv

\* The Workspace opens, or is deleted: its records go before it does.
LEMMA HeldAcrossTheWorkspace ==
  ASSUME IInv, IInv', RecordsHold, HeldInv, "close" \notin Stimuli, WorkspaceLifecycle
  PROVE  HeldInv'
<1>1. faults \in Nat /\ ws # "closing"
  BY BoundsOK DEF IInv, TypeOK, HeldInv, ClosedIsIdle
<1>2. ~RequestClose
  BY DEF RequestClose
<1> USE DEF HeldInv, RunnersStart, SignalsAreCommitted, ConfirmsTheRequested, ClosedIsIdle,
        WorkIsHeld, Held, Ending, recVars, schedVars, procVars, shutVars
<1>3. ASSUME NEW a \in Analyses, FinalizeClose(a)
      PROVE  HeldInv'
  BY <1>1, <1>3 DEF FinalizeClose
<1>4. CASE Reopen
  BY <1>1, <1>4 DEF Reopen
<1>5. CASE DeleteBegin
  BY <1>5 DEF DeleteBegin
<1>6. CASE DeleteFails
  BY <1>1, <1>6 DEF DeleteFails
<1>7. CASE DeleteEnd
  <2>1. Steady
    BY <1>7, OtherCommitsEvolve, EvolvingIsSteady DEF RecordsHold
  <2>2. \A a \in Analyses : rec'[a].state \notin Working
    <3>1. \A a \in Analyses : rec[a] \in Record /\ rec' \in Maps
      BY <1>7, OtherCommitsEvolve DEF RecordsHold, Evolves, IInv, TypeOK
    <3>2. \A a \in Analyses : rec'[a] = IF rec[a].state \notin Gone THEN Erased(rec[a]) ELSE rec[a]
      BY <1>7 DEF DeleteEnd, Put
    <3> QED BY <3>1, <3>2, RecordOps DEF Gone, Working
  <2>3. signals \subseteq Analyses
    BY DEF IInv, TypeOK
  <2>4. UNCHANGED <<unscheduled, pending, interrupts, pc, entry, signals, phase>> /\ ws' = "deleted"
    BY <1>7 DEF DeleteEnd
  <2>5. \A a \in Analyses : Ending(a) => Ending(a)'
    BY <2>1, EndingStays
  <2>6. \A a \in Analyses : Ending(a)' \/ rec'[a].state = "absent"
    BY <2>2 DEF Working
  <2>7. RunnersStart' /\ ClosedIsIdle' /\ WorkIsHeld'
    BY <2>2, <2>4 DEF Working
  <2>8. SignalsAreCommitted'
    BY <2>3, <2>4, <2>5
  <2>9. ConfirmsTheRequested'
    <3>1. \A a \in Analyses : pc[a] # "none" => rec[a].state # "absent"
      BY DEF IInv, RunnersAgree, ScheduledOnce
    <3>2. \A a \in Analyses : pc[a] # "none" => rec'[a].state # "absent"
      BY <2>1, <3>1 DEF Steady
    <3> QED BY <2>4, <2>6, <3>2
  <2> QED BY <2>7, <2>8, <2>9
<1> QED BY <1>2, <1>3, <1>4, <1>5, <1>6, <1>7 DEF WorkspaceLifecycle

\* What shutdown interrupts has ended by the time it lets go of it.
LEMMA HeldAcrossInterruptions ==
  ASSUME IInv, IInv', RecordsHold, ShutdownOwns, HeldInv, NEW a \in Analyses,
         InterruptQueued(a) \/ InterruptSelected(a)
  PROVE  HeldInv'
<1>1. /\ UNCHANGED <<unscheduled, undo, pending, active, pc, entry, signals, gate, ws, phase>>
      /\ interrupts' \subseteq interrupts
      /\ faults' \in {faults, faults + 1} /\ faults \in Nat
      /\ GateFree /\ phase \in {"draining", "closed", "interrupting"}
      /\ \A b \in interrupts \union selected : b # a => b \in (interrupts \union selected)'
  BY BoundsOK DEF InterruptQueued, InterruptSelected, Interrupt, schedVars, procVars, shutVars, IInv, TypeOK
<1>2. Steady
  BY InterruptionsEvolve, EvolvingIsSteady DEF EndsOnly
<1>3. RunnersStart' /\ SignalsAreCommitted' /\ ConfirmsTheRequested' /\ ClosedIsIdle'
  BY <1>1, <1>2, SteadyKeeps
<1>4. WorkIsHeld'
  <2> SUFFICES ASSUME (faults = 0 /\ phase # "down" /\ gate # "deletion")',
                      NEW b \in Analyses, Kind[b] # "group", rec'[b].state \in Working
               PROVE  Held(b)'
    BY DEF WorkIsHeld
  <2>1. faults = 0 /\ rec[b].state \in Working /\ rec[b].state = rec'[b].state /\ Held(b)
    BY <1>1, <1>2 DEF Steady, HeldInv, WorkIsHeld
  <2>2. CASE b # a
    BY <1>1, <2>1, <2>2 DEF Held
  <2>3. CASE b = a
    <3>1. UNCHANGED rec /\ ~EndsOnly(a, rec, rec')
      BY <2>3, InterruptionsEvolve DEF EndsOnly
    <3>2. Internal
      BY <1>1, <2>1 DEF HeldInv, ClosedIsIdle, Internal
    <3>3. faults' = faults
      BY <1>1, <2>1
    <3>4. InterruptQueued(a) /\ rec[a].state # "queued"
      BY <1>1, <2>1, <2>3, <3>1, <3>2, <3>3, InterruptionsEvolve
    <3>5. rec[a].state # "running"
      BY <3>4 DEF InterruptQueued, HeldInv, RunnersStart
    <3> QED BY <2>1, <2>3, <3>4, <3>5 DEF Working
  <2> QED BY <2>2, <2>3
<1> QED BY <1>3, <1>4 DEF HeldInv

\* Shutdown takes over what waits and what runs, and the restart fails what it
\* left.
LEMMA HeldAcrossShutdown ==
  ASSUME IInv, IInv', RecordsHold, ShutdownOwns, HeldInv, Shutdown
  PROVE  HeldInv'
<1> USE DEF HeldInv, RunnersStart, SignalsAreCommitted, ConfirmsTheRequested, ClosedIsIdle,
        WorkIsHeld, Held, Ending, recVars, schedVars, procVars, shutVars
<1>1. CASE StopAccepting \/ StopDispatch
  BY <1>1 DEF StopAccepting, StopDispatch, ShutdownOwns
<1>2. CASE ReadActive
  BY <1>2 DEF ReadActive, ShutdownOwns
<1>3. CASE CloseExecutor
  BY <1>3 DEF CloseExecutor
<1>4. CASE WaitIdle
  BY <1>4 DEF WaitIdle
<1>5. CASE Down \/ Crash
  BY <1>5 DEF Down, Crash, Vanish
<1>6. CASE Restart
  <2>1. Steady
    BY <1>6, OtherCommitsEvolve, EvolvingIsSteady DEF RecordsHold
  <2>2. /\ UNCHANGED <<unscheduled, pending, interrupts, pc, entry, signals, gate, ws>>
        /\ active = {} /\ signals \subseteq Analyses /\ faults \in Nat
    BY <1>6, BoundsOK DEF Restart, IInv, TypeOK, StoppedIsQuiet
  <2>3. \A a \in Analyses : pc[a] = "none"
    BY <2>2 DEF IInv, RunnersAgree
  <2>4. faults' = 0 => \A a \in Analyses : rec'[a].state \notin Working
    <3>1. faults' = 0 => rec' = Interrupted
      BY <1>6, <2>2 DEF Restart
    <3> QED BY <3>1, InterruptedEvolves DEF RecordsHold, IInv, TypeOK, Maps
  <2>5. \A a \in Analyses : Ending(a) => Ending(a)'
    BY <2>1, EndingStays
  <2>6. RunnersStart'
    BY <2>1, <2>2, <2>3 DEF Steady, Working
  <2>7. SignalsAreCommitted'
    BY <2>2, <2>5
  <2>8. ConfirmsTheRequested'
    BY <2>2, <2>3
  <2>9. ClosedIsIdle' /\ WorkIsHeld'
    BY <2>2, <2>4
  <2> QED BY <2>6, <2>7, <2>8, <2>9
<1>7. CASE \E a \in Analyses : InterruptQueued(a) \/ InterruptSelected(a)
  BY <1>7, HeldAcrossInterruptions
<1> QED BY <1>1, <1>2, <1>3, <1>4, <1>5, <1>6, <1>7 DEF Shutdown

\* Where nobody closes the Workspace, every step leaves each record in some hand.
LEMMA HeldPreserved ==
  ASSUME IInv, RecordsHold, ShutdownOwns, HeldInv, "close" \notin Stimuli, [Next]_vars
  PROVE  HeldInv'
<1>1. IInv'
  BY NextPreserves
<1>2. CASE Submission
  BY <1>1, <1>2, HeldAcrossSubmissions, HeldWithoutCommit, HeldAcrossRefusals,
     HeldAcrossCancellations DEF Submission
<1>3. CASE Cancellation
  BY <1>1, <1>3, HeldWithoutCommit, HeldAcrossCancellations DEF Cancellation
<1>4. CASE ClearTab
  <2>1. PICK a \in Analyses : TRUE
    BY <1>4 DEF ClearTab
  <2> QED BY <1>1, <1>4, <2>1, HeldAcrossCancellations
<1>5. CASE Runner
  <2> SUFFICES ASSUME NEW a \in Analyses,
                      \/ Dispatch(a) \/ Admission(a) \/ Execution(a) \/ Conclusion(a)
                      \/ \E outcome \in Outcomes : WorkerEnds(a, outcome)
               PROVE  HeldInv'
    BY <1>5 DEF Runner
  <2>1. CASE Admission(a)
    BY <1>1, <2>1, HeldWithoutCommit, HeldAcrossRunnerCommits, HeldAcrossAdmissions DEF Admission
  <2>2. CASE Execution(a)
    BY <1>1, <2>2, HeldWithoutCommit, HeldAcrossCancellations DEF Execution
  <2>3. CASE Conclusion(a)
    BY <1>1, <2>3, HeldWithoutCommit, HeldAcrossRunnerCommits DEF Conclusion
  <2> QED BY <1>1, <2>1, <2>2, <2>3, HeldWithoutCommit
<1>6. CASE WorkspaceLifecycle
  BY <1>1, <1>6, HeldAcrossTheWorkspace
<1>7. CASE Shutdown
  BY <1>1, <1>7, HeldAcrossShutdown
<1>8. CASE UNCHANGED vars
  BY <1>8 DEF vars, recVars, schedVars, procVars, shutVars, HeldInv, RunnersStart,
         SignalsAreCommitted, ConfirmsTheRequested, ClosedIsIdle, WorkIsHeld, Held, Ending
<1> QED BY <1>2, <1>3, <1>4, <1>5, <1>6, <1>7, <1>8 DEF Next

\* All records under way are always in some hand there.
LEMMA HeldInvariance ==
  ASSUME "close" \notin Stimuli
  PROVE  Spec => [](IInv /\ RecordsHold /\ ShutdownOwns /\ HeldInv)
<1> DEFINE Hold == IInv /\ RecordsHold
           Owned == ShutdownOwns /\ HeldInv
<1>1. Init => Owned
  BY DEF Init, ShutdownOwns, HeldInv, RunnersStart, SignalsAreCommitted,
         ConfirmsTheRequested, ClosedIsIdle, WorkIsHeld, Working
<1>2. Hold /\ Owned /\ [Next]_vars => Owned'
  BY ShutdownOwnsPreserved, HeldPreserved
<1>3. Spec => []Hold
  BY RecordsInvariance
<1>4. Hold /\ Owned <=> IInv /\ RecordsHold /\ ShutdownOwns /\ HeldInv
  OBVIOUS
<1> HIDE DEF Hold, Owned
<1>5. Spec => [](Hold /\ Owned)
  BY <1>1, <1>2, <1>3, PTL DEF Spec
<1> QED BY <1>4, <1>5, PTL

\* Where no client closes the Workspace and every commit succeeds, whatever is
\* under way is in somebody's hands.
THEOREM NoWorkLost ==
  ASSUME "close" \notin Stimuli
  PROVE  Spec => []NoWorkIsLost
<1>1. IInv /\ HeldInv => NoWorkIsLost
  BY DEF IInv, RunnersAgree, HeldInv, WorkIsHeld, Held, NoWorkIsLost
<1> QED BY <1>1, HeldInvariance, PTL

\* There, an orderly shutdown leaves no record that claims to be under way.
THEOREM ShutdownTruthful ==
  ASSUME "close" \notin Stimuli
  PROVE  Spec => TruthfulShutdown
<1> DEFINE Truthful ==
      Down /\ unscheduled = {} /\ undo = {} /\ faults = 0
        => \A a \in Analyses : Kind[a] # "group" => rec[a].state \notin Working
<1>1. IInv /\ ShutdownOwns /\ HeldInv => Truthful
  <2> SUFFICES ASSUME IInv, ShutdownOwns, HeldInv, Down, unscheduled = {}, undo = {}, faults = 0,
                      NEW a \in Analyses, Kind[a] # "group", rec[a].state \in Working
               PROVE  FALSE
    OBVIOUS
  <2>1. phase = "interrupting" /\ selected = {} /\ gate # "deletion"
    BY NoAnalysisOK DEF Down, GateFree
  <2>2. interrupts = {} /\ pending = {} /\ active = {}
    BY <2>1 DEF ShutdownOwns, IInv, StoppedIsQuiet
  <2>3. pc[a] = "none"
    BY <2>2 DEF IInv, RunnersAgree
  <2>4. Held(a)
    BY <2>1 DEF HeldInv, WorkIsHeld
  <2> QED BY <2>1, <2>2, <2>3, <2>4 DEF Held
<1>2. Spec => [][Truthful]_vars
  <2> HIDE DEF Truthful
  <2> QED BY <1>1, HeldInvariance, PTL
<1> QED BY <1>2 DEF TruthfulShutdown
=============================================================================
