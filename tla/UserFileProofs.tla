--------------------------- MODULE UserFileProofs ---------------------------
(***************************************************************************)
(* Proofs about the files of users, for any requests, users, quotas, limits*)
(* and faults.  Requests and snapshots (UserFiles): quotas and the headroom*)
(* of the disk hold and the accounts balance.  Imports (UserFileImports):  *)
(* one that is over has left nothing behind, its history is true, and a    *)
(* saved end lasts.                                                        *)
(***************************************************************************)
EXTENDS UserFiles, UserFileImports, SumTheorems, FunctionTheorems, FiniteSetTheorems, TLAPS

-----------------------------------------------------------------------------
(* Requests about the files of users, and their snapshots.                 *)

\* Where a request is, and what it may still do.
\* The kinds that reserve and write, and those that end in a response.
Writers == {"upload", "folder"}
Readers == {"download", "export"}

\* The steps of an upload on its temporary file, those up to the write, and
\* those where what was reserved of the quota is still to be written.
Streaming == {"stream", "recheck", "rechecking", "publish", "cleanup"}
Writing == {"lock", "check", "stream", "recheck", "rechecking", "publish"}
Unwritten == Writing \cup {"headroom"}

\* A download keeps the lock of its user until its snapshot is made.
Locked(o) == \/ pc[o] \in Streaming \cup {"check", "unlock"}
             \/ kind[o] = "download" /\ pc[o] \in {"slot", "snapshot", "copying"}

\* What an operation may still add to the files of its user, what it may still
\* take of the disk, and whether it has a slot.
PendAt(o) == IF pc[o] \in Unwritten THEN quota[o] ELSE 0
OwedAt(o) == IF pc[o] \in Writing THEN physical[o] - temp[o]
             ELSE IF pc[o] = "copying" THEN physical[o] ELSE 0
SlotAt(o) == IF Holding(o) THEN 1 ELSE 0

Pend == [o \in Ops |-> PendAt(o)]
Owed == [o \in Ops |-> OwedAt(o)]
Slots == [o \in Ops |-> SlotAt(o)]

\* The sums.
QuotaOf(u) == Sum(quota, OpsOf(u))
PendOf(u) == Sum(Pend, OpsOf(u))
AllOwned == Sum(OwnedBy, Users)
AllPhysical == Sum(physical, Ops)
AllTemp == Sum(temp, Ops)
AllCopy == Sum(copy, Ops)
AllOwed == Sum(Owed, Ops)
AllSlots == Sum(Slots, Ops)

FileTypes ==
  /\ policy \in [Users -> Nat \cup {Unlimited}] /\ ceiling \in [Users -> Nat \cup {Unlimited}]
  /\ policy \in [Users -> Policies]
  /\ reservedByUser \in [Users -> Nat]
  /\ quotaGate \in [Users -> Ops \cup {NoOp}] /\ lock \in [Users -> Ops \cup {NoOp}]
  /\ limitSeen \in [Ops -> Nat \cup {Unlimited}]
  /\ scanned \in [Ops -> Nat] /\ quota \in [Ops -> Nat] /\ physical \in [Ops -> Nat]
  /\ reservedTotal \in Nat /\ leftover \in Nat /\ unbacked \in Nat /\ freeSlots \in Nat
  /\ hidden \in [Users -> Nat] /\ leaked \in [Users -> Nat]
  /\ pc \in [Ops -> Steps]
  /\ kind \in [Ops -> Writers \cup Readers \cup {"none", "move", "delete"}]
  /\ dir \in [Ops -> Dirs] /\ hasSub \in [Users -> BOOLEAN]
  /\ size \in [Users -> [Dirs -> 0..MaxUpload]]
  /\ temp \in [Ops -> 0..MaxUpload] /\ copy \in [Ops -> 0..MaxUpload]
  /\ cancelled \subseteq Ops

\* Where an operation is says what it is, and which gate and lock it has.
PlaceOf(o) ==
  /\ pc[o] = "idle" <=> kind[o] = "none"
  /\ pc[o] \in Streaming => kind[o] = "upload"
  /\ pc[o] \in {"reserve", "reserving", "headroom", "release", "released"} => kind[o] \in Writers
  /\ pc[o] \in {"slot", "snapshot", "copying", "giveBack", "respond", "lost"} =>
       kind[o] \in Readers
  /\ pc[o] \in {"lock", "check", "unlock"} => kind[o] # "export"
  /\ Locked(o) => lock[UserOf[o]] = o
  /\ lock[UserOf[o]] = o => Locked(o) \/ (pc[o] = "giveBack" /\ kind[o] = "download")
  /\ quotaGate[UserOf[o]] = o <=> pc[o] \in {"reserving", "rechecking"}
  /\ pc[o] \in {"reserving", "rechecking"} =>
       /\ limitSeen[o] \in Nat
       /\ ceiling[UserOf[o]] # Unlimited => limitSeen[o] <= ceiling[UserOf[o]]

\* And what it holds.
HoldsOf(o) ==
  /\ quota[o] # 0 => pc[o] \in Unwritten \cup {"cleanup", "unlock", "release"}
  /\ physical[o] # 0 =>
       pc[o] \in Writing \cup {"cleanup", "unlock", "release", "released", "copying",
                               "respond", "giveBack", "lost"}
  /\ temp[o] # 0 => pc[o] \in Streaming
  /\ copy[o] # 0 => pc[o] \in {"unlock", "respond", "lost"} /\ kind[o] \in Readers
  /\ kind[o] \notin Writers =>
       /\ quota[o] = 0
       /\ pc[o] \in Writing \/ (pc[o] = "unlock" /\ copy[o] = 0) => physical[o] = 0
  /\ kind[o] = "upload" /\ pc[o] \in Writing => MaxUpload <= physical[o]
  /\ pc[o] = "copying" => physical[o] = SnapshotUnits(o)
  /\ ceiling[UserOf[o]] # Unlimited =>
       /\ pc[o] = "publish" => quota[o] = temp[o]
       /\ kind[o] = "folder" /\ pc[o] \in {"headroom", "lock", "check"} => quota[o] = 1

\* What is there and what may be added stays within the quota.  A scan that has
\* counted the root, and what is reserved, account for the root and what may
\* be added.
UserInv(u) ==
  /\ IsFiniteSet(Units(quota, OpsOf(u))) /\ IsFiniteSet(Units(Pend, OpsOf(u)))
  /\ reservedByUser[u] = QuotaOf(u) + leaked[u]
  /\ quotaGate[u] # NoOp => UserOf[quotaGate[u]] = u
  /\ lock[u] # NoOp => UserOf[lock[u]] = u
  /\ leaked[u] > 0 => \E o \in OpsOf(u) : o \in cancelled
  /\ ceiling[u] # Unlimited =>
       /\ policy[u] \in Nat /\ policy[u] <= ceiling[u]
       /\ Owned(u) + PendOf(u) <= ceiling[u] + hidden[u]
       /\ quotaGate[u] # NoOp =>
            FirstDirectory(u) + PendOf(u) <= scanned[quotaGate[u]] + QuotaOf(u) + hidden[u]

DiskInv ==
  /\ IsFiniteSet(Units(physical, Ops)) /\ IsFiniteSet(Units(temp, Ops))
  /\ IsFiniteSet(Units(copy, Ops)) /\ IsFiniteSet(Units(Owed, Ops))
  /\ IsFiniteSet(Units(OwnedBy, Users)) /\ IsFiniteSet(Units(Slots, Ops))
  /\ reservedTotal = AllPhysical
  /\ AllOwned + AllTemp + AllCopy + AllOwed + leftover + MinFree <= Disk + unbacked
  /\ freeSlots + AllSlots = MaxSnapshots

UserFilesInv ==
  /\ FileTypes
  /\ \A o \in Ops : PlaceOf(o) /\ HoldsOf(o)
  /\ \A u \in Users : UserInv(u)
  /\ DiskInv

\* A step of one operation: what concerns the others stays, the lock and the
\* gate of its user are left alone or its own, and files change under the lock.
Only(o) ==
  /\ \A p \in Ops \ {o} :
       /\ pc'[p] = pc[p] /\ kind'[p] = kind[p] /\ dir'[p] = dir[p]
       /\ limitSeen'[p] = limitSeen[p] /\ scanned'[p] = scanned[p]
       /\ quota'[p] = quota[p] /\ physical'[p] = physical[p]
       /\ temp'[p] = temp[p] /\ copy'[p] = copy[p]
  /\ \A u \in Users \ {UserOf[o]} :
       /\ size'[u] = size[u] /\ hasSub'[u] = hasSub[u]
       /\ lock'[u] = lock[u] /\ quotaGate'[u] = quotaGate[u]
       /\ reservedByUser'[u] = reservedByUser[u]
       /\ hidden'[u] = hidden[u] /\ leaked'[u] = leaked[u]
  /\ \/ lock'[UserOf[o]] = lock[UserOf[o]]
     \/ lock[UserOf[o]] \in {NoOp, o} /\ lock'[UserOf[o]] \in {NoOp, o}
  /\ \/ quotaGate'[UserOf[o]] = quotaGate[UserOf[o]]
     \/ quotaGate[UserOf[o]] \in {NoOp, o} /\ quotaGate'[UserOf[o]] \in {NoOp, o}
  /\ \/ size'[UserOf[o]] = size[UserOf[o]] /\ hasSub'[UserOf[o]] = hasSub[UserOf[o]]
     \/ lock[UserOf[o]] = o
  /\ policy' = policy /\ ceiling' = ceiling /\ leftover' = leftover
  /\ cancelled \subseteq cancelled'

\* It keeps the accounts,
AccountsKept(o) ==
  LET u == UserOf[o]
  IN /\ reservedByUser'[u] + quota[o] + leaked[u] = reservedByUser[u] + quota'[o] + leaked'[u]
     /\ reservedTotal' + physical[o] = reservedTotal + physical'[o]
     /\ freeSlots' + SlotAt(o)' = freeSlots + SlotAt(o)
     /\ leaked'[u] = leaked[u] \/ o \in cancelled'

\* adds no more to the files of its user than it was allowed to,
QuotaKept(o) ==
  LET u == UserOf[o]
  IN ceiling[u] # Unlimited =>
       /\ \/ Owned(u)' + PendAt(o)' + hidden[u] <= Owned(u) + PendAt(o) + hidden'[u]
          \/ Owned(u)' + PendOf(u)' <= ceiling[u] + hidden'[u]
       /\ quotaGate'[u] # NoOp =>
            \/ /\ quotaGate'[u] = quotaGate[u]
               /\ scanned'[quotaGate[u]] = scanned[quotaGate[u]]
               /\ FirstDirectory(u)' + PendAt(o)' + quota[o] + hidden[u]
                    <= FirstDirectory(u) + PendAt(o) + quota'[o] + hidden'[u]
            \/ quotaGate'[u] = o /\ scanned'[o] = FirstDirectory(u)'

\* and takes no more of the disk.
DiskKept(o) ==
  LET u == UserOf[o]
  IN \/ Owned(u)' + temp'[o] + copy'[o] + OwedAt(o)' + unbacked
          <= Owned(u) + temp[o] + copy[o] + OwedAt(o) + unbacked'
     \/ AllOwned' + AllTemp' + AllCopy' + AllOwed' + leftover' + MinFree <= Disk + unbacked'

\* The other requests keep what is known of them.
LEMMA OthersStay ==
  ASSUME UserFilesInv, NEW o \in Ops, Only(o), NEW p \in Ops \ {o}
  PROVE  PlaceOf(p)' /\ HoldsOf(p)'
<1>1. /\ pc'[p] = pc[p] /\ kind'[p] = kind[p] /\ dir'[p] = dir[p]
      /\ limitSeen'[p] = limitSeen[p] /\ scanned'[p] = scanned[p]
      /\ quota'[p] = quota[p] /\ physical'[p] = physical[p]
      /\ temp'[p] = temp[p] /\ copy'[p] = copy[p] /\ ceiling' = ceiling
  BY DEF Only
<1>2. PlaceOf(p) /\ HoldsOf(p)
  BY DEF UserFilesInv
<1>3. /\ lock'[UserOf[p]] = p <=> lock[UserOf[p]] = p
      /\ quotaGate'[UserOf[p]] = p <=> quotaGate[UserOf[p]] = p
  BY AdmissionAssumption DEF Only
<1>4. PlaceOf(p)'
  BY <1>1, <1>2, <1>3 DEF PlaceOf, Locked
<1>5. pc[p] = "copying" => SnapshotUnits(p)' = SnapshotUnits(p)
  <2>1. pc[p] = "copying" /\ kind[p] = "download" => lock[UserOf[p]] = p
    BY <1>2 DEF PlaceOf, Locked
  <2>2. pc[p] = "copying" /\ kind[p] = "download" => size'[UserOf[p]] = size[UserOf[p]]
    BY <2>1, AdmissionAssumption DEF Only
  <2> QED
    BY <1>1, <2>2 DEF SnapshotUnits
<1>6. HoldsOf(p)'
  BY <1>1, <1>2, <1>5 DEF HoldsOf
<1> QED
  BY <1>4, <1>6

\* The sums move with the parts of the operation.
LEMMA SumsMove ==
  ASSUME UserFilesInv, NEW o \in Ops, Only(o), FileTypes', PlaceOf(o)', HoldsOf(o)'
  PROVE  LET u == UserOf[o] IN
         /\ IsFiniteSet(Units(quota, OpsOf(u)))' /\ IsFiniteSet(Units(Pend, OpsOf(u)))'
         /\ {QuotaOf(u), QuotaOf(u)', PendOf(u), PendOf(u)'} \subseteq Nat
         /\ QuotaOf(u)' + quota[o] = QuotaOf(u) + quota'[o]
         /\ PendOf(u)' + PendAt(o) = PendOf(u) + PendAt(o)'
         /\ PendOf(u) <= QuotaOf(u) /\ PendOf(u)' <= QuotaOf(u)'
         /\ {quota[o], quota'[o], PendAt(o), PendAt(o)'} \subseteq Nat
<1> DEFINE u == UserOf[o]
<1>0. /\ o \in OpsOf(u) /\ u \in Users /\ OpsOf(u) \subseteq Ops /\ FileTypes
      /\ IsFiniteSet(Units(quota, OpsOf(u))) /\ IsFiniteSet(Units(Pend, OpsOf(u)))
  BY AdmissionAssumption DEF UserFilesInv, OpsOf, UserInv
<1> HIDE DEF u
<1>1. /\ \A p \in Ops : quota[p] \in Nat /\ quota'[p] \in Nat
      /\ \A p \in Ops : Pend[p] \in Nat /\ Pend'[p] \in Nat
      /\ Pend[o] = PendAt(o) /\ Pend'[o] = PendAt(o)'
      /\ \A p \in Ops : Pend[p] <= quota[p] /\ Pend'[p] <= quota'[p]
      /\ \A p \in Ops \ {o} : Pend'[p] = Pend[p] /\ quota'[p] = quota[p]
  BY <1>0 DEF FileTypes, Pend, PendAt, Only
<1>2. /\ IsFiniteSet(Units(quota', OpsOf(u)))
      /\ Sum(quota, OpsOf(u)) \in Nat /\ Sum(quota', OpsOf(u)) \in Nat
      /\ Sum(quota', OpsOf(u)) + quota[o] = Sum(quota, OpsOf(u)) + quota'[o]
  BY <1>0, <1>1, SumChanges
<1>3. /\ IsFiniteSet(Units(Pend', OpsOf(u)))
      /\ Sum(Pend, OpsOf(u)) \in Nat /\ Sum(Pend', OpsOf(u)) \in Nat
      /\ Sum(Pend', OpsOf(u)) + Pend[o] = Sum(Pend, OpsOf(u)) + Pend'[o]
  BY <1>0, <1>1, SumChanges
<1>4. Sum(Pend, OpsOf(u)) <= Sum(quota, OpsOf(u))
  BY <1>0, <1>1, SumOrder
<1>5. Sum(Pend', OpsOf(u)) <= Sum(quota', OpsOf(u))
  BY <1>0, <1>1, <1>2, SumOrder
<1> QED
  BY <1>0, <1>1, <1>2, <1>3, <1>4, <1>5 DEF QuotaOf, PendOf, u

\* What an operation may still take of the disk it has reserved.
LEMMA OwedIsReserved ==
  ASSUME FileTypes, NEW o \in Ops, PlaceOf(o), HoldsOf(o)
  PROVE  OwedAt(o) \in Nat /\ OwedAt(o) <= physical[o] /\ SlotAt(o) \in Nat
<1>1. physical[o] \in Nat /\ temp[o] \in 0..MaxUpload /\ MaxUpload \in Nat
  BY UserFilesAssumption DEF FileTypes
<1>2. pc[o] \in Writing => temp[o] <= physical[o]
  <2>1. CASE temp[o] = 0
    BY <1>1, <2>1
  <2>2. CASE temp[o] # 0
    BY <1>1, <2>2 DEF PlaceOf, HoldsOf
  <2> QED
    BY <2>1, <2>2
<1>3. pc[o] = "copying" => pc[o] \notin Writing
  BY DEF Writing
<1> QED
  BY <1>1, <1>2, <1>3 DEF OwedAt, SlotAt

\* The same after a step.
LEMMA OwedIsReservedNext ==
  ASSUME FileTypes', NEW o \in Ops, PlaceOf(o)', HoldsOf(o)'
  PROVE  OwedAt(o)' \in Nat /\ OwedAt(o)' <= physical'[o] /\ SlotAt(o)' \in Nat
<1>1. physical'[o] \in Nat /\ temp'[o] \in 0..MaxUpload /\ MaxUpload \in Nat
  BY UserFilesAssumption DEF FileTypes
<1>2. pc'[o] \in Writing => temp'[o] <= physical'[o]
  <2>1. CASE temp'[o] = 0
    BY <1>1, <2>1
  <2>2. CASE temp'[o] # 0
    BY <1>1, <2>2 DEF PlaceOf, HoldsOf
  <2> QED
    BY <2>1, <2>2
<1>3. pc'[o] = "copying" => pc'[o] \notin Writing
  BY DEF Writing
<1> QED
  BY <1>1, <1>2, <1>3 DEF OwedAt, SlotAt

\* What a user owns is a number.
LEMMA OwnedIsNat ==
  ASSUME FileTypes, NEW u \in Users
  PROVE  FirstDirectory(u) \in Nat /\ SecondDirectory(u) \in Nat /\ Owned(u) \in Nat
<1>1. size[u]["root"] \in Nat /\ size[u]["sub"] \in Nat
  BY UserFilesAssumption DEF FileTypes, Dirs
<1> QED
  BY <1>1 DEF FirstDirectory, SecondDirectory, Owned

\* The same after a step.
LEMMA OwnedIsNatNext ==
  ASSUME FileTypes', NEW u \in Users
  PROVE  FirstDirectory(u)' \in Nat /\ SecondDirectory(u)' \in Nat /\ Owned(u)' \in Nat
<1>1. size'[u]["root"] \in Nat /\ size'[u]["sub"] \in Nat
  BY UserFilesAssumption DEF FileTypes, Dirs
<1> QED
  BY <1>1 DEF FirstDirectory, SecondDirectory, Owned

\* The sums over all operations and users move likewise.
LEMMA DiskSumsMove ==
  ASSUME UserFilesInv, NEW o \in Ops, Only(o), FileTypes', PlaceOf(o)', HoldsOf(o)'
  PROVE  LET u == UserOf[o] IN
         /\ IsFiniteSet(Units(physical, Ops))' /\ IsFiniteSet(Units(temp, Ops))'
         /\ IsFiniteSet(Units(copy, Ops))' /\ IsFiniteSet(Units(Owed, Ops))'
         /\ IsFiniteSet(Units(OwnedBy, Users))' /\ IsFiniteSet(Units(Slots, Ops))'
         /\ {AllPhysical, AllPhysical', AllTemp, AllTemp', AllCopy, AllCopy', AllOwed, AllOwed',
             AllOwned, AllOwned', AllSlots, AllSlots'} \subseteq Nat
         /\ {physical[o], physical'[o], temp[o], temp'[o], copy[o], copy'[o], OwedAt(o), OwedAt(o)',
             SlotAt(o), SlotAt(o)', Owned(u), Owned(u)'} \subseteq Nat
         /\ AllPhysical' + physical[o] = AllPhysical + physical'[o]
         /\ AllTemp' + temp[o] = AllTemp + temp'[o]
         /\ AllCopy' + copy[o] = AllCopy + copy'[o]
         /\ AllOwed' + OwedAt(o) = AllOwed + OwedAt(o)'
         /\ AllSlots' + SlotAt(o) = AllSlots + SlotAt(o)'
         /\ AllOwned' + Owned(u) = AllOwned + Owned(u)'
         /\ AllOwed <= AllPhysical /\ physical[o] <= AllPhysical /\ SlotAt(o) <= AllSlots
<1> DEFINE u == UserOf[o]
<1>0. /\ u \in Users /\ FileTypes
      /\ \A p \in Ops : PlaceOf(p) /\ HoldsOf(p) /\ PlaceOf(p)' /\ HoldsOf(p)'
      /\ IsFiniteSet(Units(physical, Ops)) /\ IsFiniteSet(Units(temp, Ops))
      /\ IsFiniteSet(Units(copy, Ops)) /\ IsFiniteSet(Units(Owed, Ops))
      /\ IsFiniteSet(Units(OwnedBy, Users)) /\ IsFiniteSet(Units(Slots, Ops))
  BY OthersStay, AdmissionAssumption DEF UserFilesInv, DiskInv
<1> HIDE DEF u
<1>1. /\ \A p \in Ops : /\ physical[p] \in Nat /\ temp[p] \in Nat /\ copy[p] \in Nat
                        /\ physical'[p] \in Nat /\ temp'[p] \in Nat /\ copy'[p] \in Nat
      /\ \A p \in Ops \ {o} : physical'[p] = physical[p] /\ temp'[p] = temp[p] /\ copy'[p] = copy[p]
  BY <1>0, UserFilesAssumption DEF FileTypes, Only
<1>2. /\ \A p \in Ops : Owed[p] = OwedAt(p) /\ Owed'[p] = OwedAt(p)'
      /\ \A p \in Ops : Slots[p] = SlotAt(p) /\ Slots'[p] = SlotAt(p)'
      /\ \A v \in Users : OwnedBy[v] = Owned(v) /\ OwnedBy'[v] = Owned(v)'
  BY DEF Owed, Slots, OwnedBy
<1>3. /\ \A p \in Ops : OwedAt(p) \in Nat /\ OwedAt(p)' \in Nat /\ OwedAt(p) <= physical[p]
      /\ \A p \in Ops : SlotAt(p) \in Nat /\ SlotAt(p)' \in Nat
  BY <1>0, OwedIsReserved, OwedIsReservedNext
<1>4. \A v \in Users : Owned(v) \in Nat /\ Owned(v)' \in Nat
  BY <1>0, OwnedIsNat, OwnedIsNatNext
<1>5. /\ \A p \in Ops \ {o} : OwedAt(p)' = OwedAt(p) /\ SlotAt(p)' = SlotAt(p)
      /\ \A v \in Users \ {u} : Owned(v)' = Owned(v)
  BY DEF Only, OwedAt, SlotAt, Holding, Owned, FirstDirectory, SecondDirectory, u
<1>6. /\ IsFiniteSet(Units(physical', Ops)) /\ Sum(physical, Ops) \in Nat /\ Sum(physical', Ops) \in Nat
      /\ Sum(physical', Ops) + physical[o] = Sum(physical, Ops) + physical'[o]
      /\ physical[o] <= Sum(physical, Ops)
  BY <1>0, <1>1, SumChanges
<1>7. /\ IsFiniteSet(Units(temp', Ops)) /\ Sum(temp, Ops) \in Nat /\ Sum(temp', Ops) \in Nat
      /\ Sum(temp', Ops) + temp[o] = Sum(temp, Ops) + temp'[o]
  BY <1>0, <1>1, SumChanges
<1>8. /\ IsFiniteSet(Units(copy', Ops)) /\ Sum(copy, Ops) \in Nat /\ Sum(copy', Ops) \in Nat
      /\ Sum(copy', Ops) + copy[o] = Sum(copy, Ops) + copy'[o]
  BY <1>0, <1>1, SumChanges
<1>9. /\ IsFiniteSet(Units(Owed', Ops)) /\ Sum(Owed, Ops) \in Nat /\ Sum(Owed', Ops) \in Nat
      /\ Sum(Owed', Ops) + OwedAt(o) = Sum(Owed, Ops) + OwedAt(o)'
  BY <1>0, <1>2, <1>3, <1>5, SumChanges
<1>10. /\ IsFiniteSet(Units(Slots', Ops)) /\ Sum(Slots, Ops) \in Nat /\ Sum(Slots', Ops) \in Nat
       /\ Sum(Slots', Ops) + SlotAt(o) = Sum(Slots, Ops) + SlotAt(o)'
       /\ SlotAt(o) <= Sum(Slots, Ops)
  BY <1>0, <1>2, <1>3, <1>5, SumChanges
<1>11. /\ IsFiniteSet(Units(OwnedBy', Users)) /\ Sum(OwnedBy, Users) \in Nat /\ Sum(OwnedBy', Users) \in Nat
       /\ Sum(OwnedBy', Users) + Owned(u) = Sum(OwnedBy, Users) + Owned(u)'
  BY <1>0, <1>2, <1>4, <1>5, SumChanges
<1>12. Sum(Owed, Ops) <= Sum(physical, Ops)
  BY <1>0, <1>1, <1>2, <1>3, SumOrder
<1> QED
  BY <1>0, <1>1, <1>3, <1>4, <1>6, <1>7, <1>8, <1>9, <1>10, <1>11, <1>12 DEF AllPhysical,
     AllTemp, AllCopy, AllOwed, AllOwned, AllSlots, u

\* The users of the other operations.
LEMMA UsersStay ==
  ASSUME UserFilesInv, NEW o \in Ops, Only(o), NEW u \in Users, u # UserOf[o]
  PROVE  UserInv(u)'
<1>1. /\ size'[u] = size[u] /\ hasSub'[u] = hasSub[u]
      /\ lock'[u] = lock[u] /\ quotaGate'[u] = quotaGate[u]
      /\ reservedByUser'[u] = reservedByUser[u]
      /\ hidden'[u] = hidden[u] /\ leaked'[u] = leaked[u]
      /\ policy' = policy /\ ceiling' = ceiling /\ cancelled \subseteq cancelled'
  BY DEF Only
<1>2. \A p \in OpsOf(u) : /\ p \in Ops /\ p # o
                          /\ quota'[p] = quota[p] /\ Pend'[p] = Pend[p]
  BY DEF OpsOf, Only, Pend, PendAt
<1>3. /\ Units(quota', OpsOf(u)) = Units(quota, OpsOf(u)) /\ Sum(quota', OpsOf(u)) = Sum(quota, OpsOf(u))
      /\ Units(Pend', OpsOf(u)) = Units(Pend, OpsOf(u)) /\ Sum(Pend', OpsOf(u)) = Sum(Pend, OpsOf(u))
  BY <1>2, SumSame
<1>4. QuotaOf(u)' = QuotaOf(u) /\ PendOf(u)' = PendOf(u)
  BY <1>3 DEF QuotaOf, PendOf
<1>5. Owned(u)' = Owned(u) /\ FirstDirectory(u)' = FirstDirectory(u)
  BY <1>1 DEF Owned, FirstDirectory, SecondDirectory
<1>6. UserInv(u) /\ FileTypes
  BY DEF UserFilesInv
<1>7. quotaGate[u] # NoOp => scanned'[quotaGate[u]] = scanned[quotaGate[u]]
  <2>1. quotaGate[u] # NoOp => quotaGate[u] \in Ops /\ UserOf[quotaGate[u]] = u
    BY <1>6 DEF UserInv, FileTypes
  <2> QED
    BY <2>1 DEF Only
<1> QED
  BY <1>1, <1>3, <1>4, <1>5, <1>6, <1>7 DEF UserInv

\* One step of one operation.
LEMMA OpKeeps ==
  ASSUME UserFilesInv, NEW o \in Ops, Only(o), FileTypes', PlaceOf(o)', HoldsOf(o)',
         AccountsKept(o), QuotaKept(o), DiskKept(o)
  PROVE  UserFilesInv'
<1> DEFINE u == UserOf[o]
<1>0. u \in Users /\ o \in OpsOf(u) /\ FileTypes /\ UserInv(u) /\ DiskInv
  BY AdmissionAssumption DEF UserFilesInv, OpsOf
<1>1. /\ IsFiniteSet(Units(quota, OpsOf(u)))' /\ IsFiniteSet(Units(Pend, OpsOf(u)))'
      /\ {QuotaOf(u), QuotaOf(u)', PendOf(u), PendOf(u)'} \subseteq Nat
      /\ QuotaOf(u)' + quota[o] = QuotaOf(u) + quota'[o]
      /\ PendOf(u)' + PendAt(o) = PendOf(u) + PendAt(o)'
      /\ PendOf(u) <= QuotaOf(u) /\ PendOf(u)' <= QuotaOf(u)'
      /\ {quota[o], quota'[o], PendAt(o), PendAt(o)'} \subseteq Nat
  BY SumsMove
<1>2. /\ FirstDirectory(u) \in Nat /\ Owned(u) \in Nat /\ FirstDirectory(u)' \in Nat /\ Owned(u)' \in Nat
  BY <1>0, OwnedIsNat, OwnedIsNatNext
<1>3. /\ reservedByUser[u] \in Nat /\ reservedByUser'[u] \in Nat /\ leaked[u] \in Nat /\ leaked'[u] \in Nat
      /\ hidden[u] \in Nat /\ hidden'[u] \in Nat /\ policy' = policy /\ ceiling' = ceiling
      /\ ceiling[u] # Unlimited => ceiling[u] \in Nat
      /\ quotaGate[u] \in Ops \cup {NoOp} /\ \A p \in Ops : scanned[p] \in Nat
      /\ cancelled \subseteq cancelled'
  BY <1>0 DEF FileTypes, Only
<1> HIDE DEF u
<1>4. reservedByUser'[u] = QuotaOf(u)' + leaked'[u]
  BY <1>0, <1>1, <1>3 DEF AccountsKept, UserInv, u
<1>5. quotaGate'[u] # NoOp => UserOf[quotaGate'[u]] = u
  BY <1>0 DEF Only, UserInv, u
<1>6. lock'[u] # NoOp => UserOf[lock'[u]] = u
  BY <1>0 DEF Only, UserInv, u
<1>7. leaked'[u] > 0 => \E p \in OpsOf(u) : p \in cancelled'
  BY <1>0, <1>3 DEF AccountsKept, UserInv, u
<1>8. ASSUME ceiling[u] # Unlimited
      PROVE  /\ Owned(u)' + PendOf(u)' <= ceiling[u] + hidden'[u]
             /\ quotaGate'[u] # NoOp =>
                  FirstDirectory(u)' + PendOf(u)' <= scanned'[quotaGate'[u]] + QuotaOf(u)' + hidden'[u]
  <2>1. Owned(u)' + PendOf(u)' <= ceiling[u] + hidden'[u]
    BY <1>0, <1>1, <1>2, <1>3, <1>8 DEF QuotaKept, UserInv, u
  <2>2. ASSUME quotaGate'[u] # NoOp, quotaGate'[u] = quotaGate[u],
               scanned'[quotaGate[u]] = scanned[quotaGate[u]],
               FirstDirectory(u)' + PendAt(o)' + quota[o] + hidden[u]
                 <= FirstDirectory(u) + PendAt(o) + quota'[o] + hidden'[u]
        PROVE  FirstDirectory(u)' + PendOf(u)' <= scanned'[quotaGate'[u]] + QuotaOf(u)' + hidden'[u]
    <3>1. FirstDirectory(u) + PendOf(u) <= scanned[quotaGate[u]] + QuotaOf(u) + hidden[u]
          /\ scanned[quotaGate[u]] \in Nat
      BY <1>0, <1>3, <1>8, <2>2 DEF UserInv
    <3> QED
      BY <1>1, <1>2, <1>3, <2>2, <3>1
  <2>3. ASSUME quotaGate'[u] = o, scanned'[o] = FirstDirectory(u)'
        PROVE  FirstDirectory(u)' + PendOf(u)' <= scanned'[quotaGate'[u]] + QuotaOf(u)' + hidden'[u]
    BY <1>1, <1>2, <1>3, <2>3
  <2> QED
    BY <1>8, <2>1, <2>2, <2>3 DEF QuotaKept, u
<1>9. UserInv(u)'
  BY <1>0, <1>1, <1>3, <1>4, <1>5, <1>6, <1>7, <1>8 DEF UserInv
<1>10. DiskInv'
  <2> DEFINE w == Owned(u)
  <2>1. /\ IsFiniteSet(Units(physical, Ops))' /\ IsFiniteSet(Units(temp, Ops))'
         /\ IsFiniteSet(Units(copy, Ops))' /\ IsFiniteSet(Units(Owed, Ops))'
         /\ IsFiniteSet(Units(OwnedBy, Users))' /\ IsFiniteSet(Units(Slots, Ops))'
         /\ {AllPhysical, AllPhysical', AllTemp, AllTemp', AllCopy, AllCopy', AllOwed, AllOwed',
             AllOwned, AllOwned', AllSlots, AllSlots'} \subseteq Nat
         /\ {physical[o], physical'[o], temp[o], temp'[o], copy[o], copy'[o], OwedAt(o), OwedAt(o)',
             SlotAt(o), SlotAt(o)', Owned(u), Owned(u)'} \subseteq Nat
         /\ AllPhysical' + physical[o] = AllPhysical + physical'[o]
         /\ AllTemp' + temp[o] = AllTemp + temp'[o]
         /\ AllCopy' + copy[o] = AllCopy + copy'[o]
         /\ AllOwed' + OwedAt(o) = AllOwed + OwedAt(o)'
         /\ AllSlots' + SlotAt(o) = AllSlots + SlotAt(o)'
         /\ AllOwned' + Owned(u) = AllOwned + Owned(u)'
    BY DiskSumsMove DEF u
  <2>2. /\ {reservedTotal, reservedTotal', freeSlots, freeSlots', leftover, leftover', unbacked, unbacked',
            Disk, MinFree, MaxSnapshots} \subseteq Nat
        /\ leftover' = leftover
    BY <1>0, UserFilesAssumption, AdmissionAssumption DEF FileTypes, Only
  <2>3. reservedTotal' = AllPhysical'
    <3>1. reservedTotal' + physical[o] = reservedTotal + physical'[o] /\ reservedTotal = AllPhysical
      BY <1>0 DEF AccountsKept, DiskInv
    <3>2. AllPhysical' + physical[o] = AllPhysical + physical'[o]
      BY <2>1
    <3>3. /\ reservedTotal \in Nat /\ reservedTotal' \in Nat /\ AllPhysical' \in Nat
          /\ physical[o] \in Nat /\ physical'[o] \in Nat
      BY <2>1, <2>2
    <3> QED
      BY <3>1, <3>2, <3>3
  <2>4. freeSlots' + AllSlots' = MaxSnapshots
    BY <1>0, <2>1, <2>2 DEF AccountsKept, DiskInv
  <2>5. AllOwned' + AllTemp' + AllCopy' + AllOwed' + leftover' + MinFree <= Disk + unbacked'
    BY <1>0, <2>1, <2>2 DEF DiskKept, DiskInv, u
  <2> QED
    BY <2>1, <2>3, <2>4, <2>5 DEF DiskInv
<1> QED
  BY <1>9, <1>10, OthersStay, UsersStay DEF UserFilesInv, u

\* What the assumptions on the constants say of the bounds.
LEMMA Numbers ==
  /\ MaxUpload \in Nat /\ 1 <= MaxUpload /\ MaxSnapshots \in Nat /\ Disk \in Nat /\ MinFree \in Nat
  /\ Unlimited \notin Nat
BY AdmissionAssumption, UserFilesAssumption

\* Where no file changes and no more of the quota is pending.
LEMMA QuietQuota ==
  ASSUME UserFilesInv, NEW o \in Ops, FileTypes', UNCHANGED <<size, hasSub, hidden>>,
         PendAt(o)' <= PendAt(o),
         \/ quotaGate'[UserOf[o]] = NoOp
         \/ quotaGate'[UserOf[o]] = o /\ scanned'[o] = FirstDirectory(UserOf[o])
         \/ quota'[o] = quota[o] /\ UNCHANGED <<quotaGate, scanned>>
  PROVE  QuotaKept(o)
<1> DEFINE u == UserOf[o]
<1>1. /\ u \in Users /\ FileTypes
      /\ Owned(u)' = Owned(u) /\ FirstDirectory(u)' = FirstDirectory(u)
      /\ Owned(u) \in Nat /\ FirstDirectory(u) \in Nat
  BY OwnedIsNat, AdmissionAssumption DEF UserFilesInv, Owned, FirstDirectory, SecondDirectory
<1>2. /\ PendAt(o) \in Nat /\ PendAt(o)' \in Nat /\ quota[o] \in Nat /\ quota'[o] \in Nat
      /\ hidden[u] \in Nat /\ hidden' = hidden
  BY <1>1 DEF FileTypes, PendAt
<1> HIDE DEF u
<1> QED
  BY <1>1, <1>2 DEF QuotaKept, u

\* Where no file changes and the operation has, and may take, no more.
LEMMA QuietDisk ==
  ASSUME UserFilesInv, NEW o \in Ops, FileTypes', UNCHANGED <<size, hasSub, unbacked>>,
         temp'[o] + copy'[o] + OwedAt(o)' <= temp[o] + copy[o] + OwedAt(o),
         PlaceOf(o)', HoldsOf(o)'
  PROVE  DiskKept(o)
<1> DEFINE u == UserOf[o]
<1>1. /\ u \in Users /\ FileTypes /\ PlaceOf(o) /\ HoldsOf(o)
      /\ Owned(u)' = Owned(u) /\ Owned(u) \in Nat
  BY OwnedIsNat, AdmissionAssumption DEF UserFilesInv, Owned, FirstDirectory, SecondDirectory
<1>2. OwedAt(o) \in Nat /\ OwedAt(o)' \in Nat
  BY <1>1, OwedIsReserved, OwedIsReservedNext
<1>3. /\ temp[o] \in Nat /\ temp'[o] \in Nat /\ copy[o] \in Nat /\ copy'[o] \in Nat
      /\ unbacked \in Nat /\ unbacked' = unbacked
  BY <1>1, UserFilesAssumption DEF FileTypes
<1> HIDE DEF u
<1> QED
  BY <1>1, <1>2, <1>3 DEF DiskKept, u

\* What is returned to the headroom has been taken from it.
LEMMA ReturnsHeadroom ==
  ASSUME UserFilesInv, NEW o \in Ops, ReturnHeadroom(o)
  PROVE  /\ reservedTotal' + physical[o] = reservedTotal /\ reservedTotal' \in Nat
         /\ physical' = [physical EXCEPT ![o] = 0]
<1>1. /\ FileTypes /\ IsFiniteSet(Units(physical, Ops)) /\ reservedTotal = Sum(physical, Ops)
  BY DEF UserFilesInv, DiskInv, AllPhysical
<1>2. \A p \in Ops : physical[p] \in Nat
  BY <1>1 DEF FileTypes
<1>3. physical[o] <= Sum(physical, Ops) /\ Sum(physical, Ops) \in Nat
  BY <1>1, <1>2, SumChanges
<1> QED
  BY <1>1, <1>2, <1>3 DEF ReturnHeadroom

\* What an operation has reserved is in the sum of its user.
LEMMA QuotaIsReserved ==
  ASSUME UserFilesInv, NEW o \in Ops
  PROVE  /\ quota[o] \in Nat /\ reservedByUser[UserOf[o]] \in Nat
         /\ quota[o] <= reservedByUser[UserOf[o]]
         /\ Others(o) \in Nat /\ Others(o) + quota[o] = reservedByUser[UserOf[o]]
<1> DEFINE u == UserOf[o]
<1>1. FileTypes /\ UserInv(u) /\ u \in Users /\ o \in OpsOf(u) /\ OpsOf(u) \subseteq Ops
  BY AdmissionAssumption DEF UserFilesInv, OpsOf
<1> HIDE DEF u
<1>2. \A p \in OpsOf(u) : quota[p] \in Nat
  BY <1>1 DEF FileTypes
<1>3. quota[o] <= Sum(quota, OpsOf(u)) /\ Sum(quota, OpsOf(u)) \in Nat
  BY <1>1, <1>2, SumChanges DEF UserInv
<1>4. leaked[u] \in Nat /\ reservedByUser[u] \in Nat
  BY <1>1 DEF FileTypes
<1> QED
  BY <1>1, <1>2, <1>3, <1>4 DEF UserInv, QuotaOf, Others, u

\* What a scan grants stays within the quota.
LEMMA GrantFits ==
  ASSUME UserFilesInv, NEW o \in Ops, pc[o] \in {"reserving", "rechecking"}, NEW n \in Nat,
         Fits(o, scanned[o] + SecondDirectory(UserOf[o]), n),
         ceiling[UserOf[o]] # Unlimited
  PROVE  Owned(UserOf[o]) + PendOf(UserOf[o]) + n
           <= ceiling[UserOf[o]] + hidden[UserOf[o]] + quota[o]
<1> DEFINE u == UserOf[o]
<1>1. u \in Users /\ o \in OpsOf(u) /\ FileTypes /\ UserInv(u) /\ PlaceOf(o) /\ o # NoOp
  BY AdmissionAssumption DEF UserFilesInv, OpsOf
<1>2. /\ quotaGate[u] = o /\ limitSeen[o] \in Nat /\ limitSeen[o] <= ceiling[u]
  BY <1>1 DEF PlaceOf
<1>3. FirstDirectory(u) + PendOf(u) <= scanned[o] + QuotaOf(u) + hidden[u]
  BY <1>1, <1>2 DEF UserInv
<1>4. scanned[o] + SecondDirectory(u) + Others(o) + n <= limitSeen[o]
  BY DEF Fits
<1>5. /\ Others(o) \in Nat /\ quota[o] \in Nat /\ Others(o) + quota[o] = reservedByUser[u]
  BY QuotaIsReserved
<1>6. FirstDirectory(u) \in Nat /\ SecondDirectory(u) \in Nat
  BY <1>1, OwnedIsNat
<1>7. QuotaOf(u) \in Nat /\ PendOf(u) \in Nat
  <2>1. IsFiniteSet(Units(quota, OpsOf(u))) /\ IsFiniteSet(Units(Pend, OpsOf(u)))
    BY <1>1 DEF UserInv
  <2> QED
    BY <2>1, FS_CardinalityType DEF QuotaOf, PendOf, Sum
<1>8. /\ reservedByUser[u] = QuotaOf(u) + leaked[u] /\ leaked[u] \in Nat
      /\ hidden[u] \in Nat /\ scanned[o] \in Nat /\ ceiling[u] \in Nat
  BY <1>1 DEF UserInv, FileTypes
<1> HIDE DEF u
<1> QED
  BY <1>2, <1>3, <1>4, <1>5, <1>6, <1>7, <1>8 DEF Owned, u

\* What the headroom grants leaves min_free_disk_bytes.
LEMMA HeadroomIsLeft ==
  ASSUME UserFilesInv, NEW o \in Ops, Only(o), FileTypes', PlaceOf(o)', HoldsOf(o)',
         UNCHANGED <<size, hasSub, temp, copy, leftover, unbacked>>,
         NEW n \in Nat, HasHeadroom(Free, n), OwedAt(o) = 0, OwedAt(o)' = n
  PROVE  DiskKept(o)
<1>1. /\ {AllPhysical, AllTemp, AllCopy, AllOwed, AllOwned} \subseteq Nat
      /\ AllOwed <= AllPhysical
      /\ AllOwed' + OwedAt(o) = AllOwed + OwedAt(o)'
      /\ AllOwed' \in Nat
  BY DiskSumsMove
<1>2. AllOwned' = AllOwned /\ AllTemp' = AllTemp /\ AllCopy' = AllCopy
  BY DEF AllOwned, AllTemp, AllCopy, OwnedBy, Owned, FirstDirectory, SecondDirectory
<1>3. reservedTotal = AllPhysical /\ leftover \in Nat /\ unbacked \in Nat
  BY DEF UserFilesInv, DiskInv, FileTypes
<1>4. Disk - AllOwned - AllTemp - AllCopy - leftover - reservedTotal - n >= MinFree
  BY DEF HasHeadroom, Free, AllOwned, AllTemp, AllCopy
<1>5. AllOwned + AllTemp + AllCopy + (AllOwed + n) + leftover + MinFree <= Disk + unbacked
  BY <1>1, <1>3, <1>4, Numbers
<1>6. AllOwed' = AllOwed + n
  BY <1>1
<1> QED
  BY <1>2, <1>5, <1>6 DEF DiskKept

\* The pending quota moves with that of the operation.
LEMMA PendMoves ==
  ASSUME UserFilesInv, NEW o \in Ops, Only(o), FileTypes', PlaceOf(o)', HoldsOf(o)'
  PROVE  /\ PendOf(UserOf[o]) \in Nat /\ PendOf(UserOf[o])' \in Nat
         /\ PendAt(o) \in Nat /\ PendAt(o)' \in Nat
         /\ PendOf(UserOf[o])' + PendAt(o) = PendOf(UserOf[o]) + PendAt(o)'
  BY SumsMove

-----------------------------------------------------------------------------
(* The steps of requests.                                                  *)

\* A user without a quota reserves nothing of it.
LEMMA ReserveNothingStep ==
  ASSUME UserFilesInv, NEW o \in Ops, ReserveNothing(o)
  PROVE  UserFilesInv'
<1> DEFINE u == UserOf[o]
<1>0. FileTypes /\ PlaceOf(o) /\ HoldsOf(o) /\ UserInv(u) /\ u \in Users /\ o # NoOp
  BY AdmissionAssumption DEF UserFilesInv
<1>b. OwedAt(o) \in Nat
  BY <1>0, OwedIsReserved
<1>1. FileTypes'
  BY <1>0, Numbers DEF ReserveNothing, Goto, FilesUnchanged, admissionVars, QuotaGateIsFree,
     FileTypes, Steps, Writers, Readers, Dirs
<1>2. Only(o)
  BY <1>0 DEF ReserveNothing, Goto, FilesUnchanged, admissionVars, QuotaGateIsFree, Only,
     FileTypes
<1>3. PlaceOf(o)' /\ HoldsOf(o)'
  BY <1>0, Numbers DEF ReserveNothing, Goto, FilesUnchanged, admissionVars, QuotaGateIsFree,
     PlaceOf, HoldsOf, Locked, Streaming, Writing, Unwritten, Writers, Readers, FileTypes,
     SnapshotUnits, UserInv
<1>4. AccountsKept(o)
  BY <1>0 DEF ReserveNothing, Goto, FilesUnchanged, admissionVars, QuotaGateIsFree,
     AccountsKept, SlotAt, Holding, FileTypes, HoldsOf
<1>5. QuotaKept(o)
  <2>1. /\ UNCHANGED <<size, hasSub, hidden>> /\ PendAt(o)' <= PendAt(o)
        /\ \/ quotaGate'[u] = NoOp
           \/ quotaGate'[u] = o /\ scanned'[o] = FirstDirectory(u)
           \/ quota'[o] = quota[o] /\ UNCHANGED <<quotaGate, scanned>>
    BY <1>0 DEF ReserveNothing, Goto, FilesUnchanged, admissionVars, QuotaGateIsFree, PendAt,
       Unwritten, Writing, FileTypes, HoldsOf
  <2> QED
    BY <1>1, <2>1, QuietQuota
<1>6. DiskKept(o)
  <2>1. /\ UNCHANGED <<size, hasSub, unbacked>>
        /\ temp'[o] + copy'[o] + OwedAt(o)' <= temp[o] + copy[o] + OwedAt(o)
    BY <1>0, <1>b DEF ReserveNothing, Goto, FilesUnchanged, admissionVars, QuotaGateIsFree,
       OwedAt, Writing, FileTypes, HoldsOf, PlaceOf
  <2> QED
    BY <1>1, <1>3, <2>1, QuietDisk
<1> QED
  BY <1>1, <1>2, <1>3, <1>4, <1>5, <1>6, OpKeeps

\* A request enters the gate and counts the first directory.
LEMMA ReserveScansStep ==
  ASSUME UserFilesInv, NEW o \in Ops, ReserveScans(o)
  PROVE  UserFilesInv'
<1> DEFINE u == UserOf[o]
<1>0. FileTypes /\ PlaceOf(o) /\ HoldsOf(o) /\ UserInv(u) /\ u \in Users /\ o # NoOp
  BY AdmissionAssumption DEF UserFilesInv
<1>b. OwedAt(o) \in Nat
  BY <1>0, OwedIsReserved
<1>1. FileTypes'
  BY <1>0, OwnedIsNat, Numbers DEF ReserveScans, Goto, FilesUnchanged, QuotaGateIsFree,
     EnterGate, FileTypes, Steps, Writers, Readers, Dirs, FirstDirectory
<1>2. Only(o)
  BY <1>0, OwnedIsNat DEF ReserveScans, Goto, FilesUnchanged, QuotaGateIsFree, EnterGate, Only,
     FileTypes
<1>3. PlaceOf(o)' /\ HoldsOf(o)'
  BY <1>0, OwnedIsNat, Numbers DEF ReserveScans, Goto, FilesUnchanged, QuotaGateIsFree,
     EnterGate, PlaceOf, HoldsOf, Locked, Streaming, Writing, Unwritten, Writers, Readers,
     FileTypes, SnapshotUnits, UserInv
<1>4. AccountsKept(o)
  BY <1>0, OwnedIsNat DEF ReserveScans, Goto, FilesUnchanged, QuotaGateIsFree, EnterGate,
     AccountsKept, SlotAt, Holding, FileTypes, HoldsOf
<1>5. QuotaKept(o)
  <2>1. /\ UNCHANGED <<size, hasSub, hidden>> /\ PendAt(o)' <= PendAt(o)
        /\ \/ quotaGate'[u] = NoOp
           \/ quotaGate'[u] = o /\ scanned'[o] = FirstDirectory(u)
           \/ quota'[o] = quota[o] /\ UNCHANGED <<quotaGate, scanned>>
    BY <1>0, OwnedIsNat DEF ReserveScans, Goto, FilesUnchanged, QuotaGateIsFree, EnterGate,
       PendAt, Unwritten, Writing, FileTypes, HoldsOf
  <2> QED
    BY <1>1, <2>1, QuietQuota
<1>6. DiskKept(o)
  <2>1. /\ UNCHANGED <<size, hasSub, unbacked>>
        /\ temp'[o] + copy'[o] + OwedAt(o)' <= temp[o] + copy[o] + OwedAt(o)
    BY <1>0, OwnedIsNat, <1>b DEF ReserveScans, Goto, FilesUnchanged, QuotaGateIsFree,
       EnterGate, OwedAt, Writing, FileTypes, HoldsOf, PlaceOf
  <2> QED
    BY <1>1, <1>3, <2>1, QuietDisk
<1> QED
  BY <1>1, <1>2, <1>3, <1>4, <1>5, <1>6, OpKeeps

\* It returns what it has reserved of the quota,
LEMMA ReleaseQuotaStep ==
  ASSUME UserFilesInv, NEW o \in Ops, ReleaseQuota(o)
  PROVE  UserFilesInv'
<1> DEFINE u == UserOf[o]
<1>0. FileTypes /\ PlaceOf(o) /\ HoldsOf(o) /\ UserInv(u) /\ u \in Users /\ o # NoOp
  BY AdmissionAssumption DEF UserFilesInv
<1>b. OwedAt(o) \in Nat
  BY <1>0, OwedIsReserved
<1>q. quota[o] \in Nat /\ reservedByUser[u] \in Nat /\ quota[o] <= reservedByUser[u]
  BY QuotaIsReserved
<1>s. Others(o) + 0 = reservedByUser[u] - quota[o]
  BY <1>q DEF Others
<1>a. /\ pc[o] = "release" /\ pc' = [pc EXCEPT ![o] = "released"]
      /\ quota[o] # 0 => quotaGate[u] = NoOp
      /\ quota' = [quota EXCEPT ![o] = 0]
      /\ reservedByUser' = [reservedByUser EXCEPT ![u] = reservedByUser[u] - quota[o]]
      /\ quota[o] <= reservedByUser[u]
      /\ UNCHANGED <<policy, quotaGate, limitSeen, scanned, reservedTotal, physical, kind, dir,
                     size, hasSub, lock, temp, copy, freeSlots, cancelled, leftover,
                     disturbances, ceiling, hidden, unbacked, leaked>>
  BY <1>0, <1>q, <1>s DEF ReleaseQuota, Goto, FilesUnchanged, ReturnQuota, QuotaGateIsFree,
     SetQuota
<1>1. FileTypes'
  BY <1>0, <1>a, <1>q, <1>s, Numbers DEF FileTypes, Steps, Writers, Readers, Dirs
<1>2. Only(o)
  BY <1>0, <1>a, <1>q, <1>s DEF Only, FileTypes
<1>3. PlaceOf(o)' /\ HoldsOf(o)'
  BY <1>0, <1>a, <1>q, <1>s, Numbers DEF PlaceOf, HoldsOf, Locked, Streaming, Writing,
     Unwritten, Writers, Readers, FileTypes, SnapshotUnits
<1>4. AccountsKept(o)
  BY <1>0, <1>a, <1>q, <1>s DEF AccountsKept, SlotAt, Holding, FileTypes, HoldsOf
<1>5. QuotaKept(o)
  <2>1. /\ UNCHANGED <<size, hasSub, hidden>> /\ PendAt(o)' <= PendAt(o)
        /\ \/ quotaGate'[u] = NoOp
           \/ quotaGate'[u] = o /\ scanned'[o] = FirstDirectory(u)
           \/ quota'[o] = quota[o] /\ UNCHANGED <<quotaGate, scanned>>
    BY <1>0, <1>a, <1>q, <1>s DEF PendAt, Unwritten, Writing, FileTypes, HoldsOf
  <2> QED
    BY <1>1, <2>1, QuietQuota
<1>6. DiskKept(o)
  <2>1. /\ UNCHANGED <<size, hasSub, unbacked>>
        /\ temp'[o] + copy'[o] + OwedAt(o)' <= temp[o] + copy[o] + OwedAt(o)
    BY <1>0, <1>a, <1>q, <1>s, <1>b DEF OwedAt, Writing, FileTypes, HoldsOf, PlaceOf
  <2> QED
    BY <1>1, <1>3, <2>1, QuietDisk
<1> QED
  BY <1>1, <1>2, <1>3, <1>4, <1>5, <1>6, OpKeeps

\* and then of the disk.
LEMMA ReleaseHeadroomStep ==
  ASSUME UserFilesInv, NEW o \in Ops, ReleaseHeadroom(o)
  PROVE  UserFilesInv'
<1> DEFINE u == UserOf[o]
<1>0. FileTypes /\ PlaceOf(o) /\ HoldsOf(o) /\ UserInv(u) /\ u \in Users /\ o # NoOp
  BY AdmissionAssumption DEF UserFilesInv
<1>b. OwedAt(o) \in Nat
  BY <1>0, OwedIsReserved
<1>h. reservedTotal' + physical[o] = reservedTotal /\ reservedTotal' \in Nat
      /\ physical' = [physical EXCEPT ![o] = 0]
  BY ReturnsHeadroom DEF ReleaseHeadroom
<1>1. FileTypes'
  BY <1>0, <1>h, Numbers DEF ReleaseHeadroom, Goto, FilesUnchanged, FileTypes, Steps, Writers,
     Readers, Dirs
<1>2. Only(o)
  BY <1>0, <1>h DEF ReleaseHeadroom, Goto, FilesUnchanged, Only, FileTypes
<1>3. PlaceOf(o)' /\ HoldsOf(o)'
  BY <1>0, <1>h, Numbers DEF ReleaseHeadroom, Goto, FilesUnchanged, PlaceOf, HoldsOf, Locked,
     Streaming, Writing, Unwritten, Writers, Readers, FileTypes, SnapshotUnits
<1>4. AccountsKept(o)
  BY <1>0, <1>h DEF ReleaseHeadroom, Goto, FilesUnchanged, AccountsKept, SlotAt, Holding,
     FileTypes, HoldsOf
<1>5. QuotaKept(o)
  <2>1. /\ UNCHANGED <<size, hasSub, hidden>> /\ PendAt(o)' <= PendAt(o)
        /\ \/ quotaGate'[u] = NoOp
           \/ quotaGate'[u] = o /\ scanned'[o] = FirstDirectory(u)
           \/ quota'[o] = quota[o] /\ UNCHANGED <<quotaGate, scanned>>
    BY <1>0, <1>h DEF ReleaseHeadroom, Goto, FilesUnchanged, PendAt, Unwritten, Writing,
       FileTypes, HoldsOf
  <2> QED
    BY <1>1, <2>1, QuietQuota
<1>6. DiskKept(o)
  <2>1. /\ UNCHANGED <<size, hasSub, unbacked>>
        /\ temp'[o] + copy'[o] + OwedAt(o)' <= temp[o] + copy[o] + OwedAt(o)
    BY <1>0, <1>h, <1>b DEF ReleaseHeadroom, Goto, FilesUnchanged, OwedAt, Writing, FileTypes,
       HoldsOf, PlaceOf
  <2> QED
    BY <1>1, <1>3, <2>1, QuietDisk
<1> QED
  BY <1>1, <1>2, <1>3, <1>4, <1>5, <1>6, OpKeeps

\* It takes the lock of its user.
LEMMA TakeLockStep ==
  ASSUME UserFilesInv, NEW o \in Ops, TakeLock(o)
  PROVE  UserFilesInv'
<1> DEFINE u == UserOf[o]
<1>0. FileTypes /\ PlaceOf(o) /\ HoldsOf(o) /\ UserInv(u) /\ u \in Users /\ o # NoOp
  BY AdmissionAssumption DEF UserFilesInv
<1>b. OwedAt(o) \in Nat
  BY <1>0, OwedIsReserved
<1>1. FileTypes'
  BY <1>0, Numbers DEF TakeLock, Goto, admissionVars, FileTypes, Steps, Writers, Readers, Dirs
<1>2. Only(o)
  BY <1>0 DEF TakeLock, Goto, admissionVars, Only, FileTypes
<1>3. PlaceOf(o)' /\ HoldsOf(o)'
  BY <1>0, Numbers DEF TakeLock, Goto, admissionVars, PlaceOf, HoldsOf, Locked, Streaming,
     Writing, Unwritten, Writers, Readers, FileTypes, SnapshotUnits
<1>4. AccountsKept(o)
  BY <1>0 DEF TakeLock, Goto, admissionVars, AccountsKept, SlotAt, Holding, FileTypes, HoldsOf
<1>5. QuotaKept(o)
  <2>1. /\ UNCHANGED <<size, hasSub, hidden>> /\ PendAt(o)' <= PendAt(o)
        /\ \/ quotaGate'[u] = NoOp
           \/ quotaGate'[u] = o /\ scanned'[o] = FirstDirectory(u)
           \/ quota'[o] = quota[o] /\ UNCHANGED <<quotaGate, scanned>>
    BY <1>0 DEF TakeLock, Goto, admissionVars, PendAt, Unwritten, Writing, FileTypes, HoldsOf
  <2> QED
    BY <1>1, <2>1, QuietQuota
<1>6. DiskKept(o)
  <2>1. /\ UNCHANGED <<size, hasSub, unbacked>>
        /\ temp'[o] + copy'[o] + OwedAt(o)' <= temp[o] + copy[o] + OwedAt(o)
    BY <1>0, <1>b DEF TakeLock, Goto, admissionVars, OwedAt, Writing, FileTypes, HoldsOf,
       PlaceOf
  <2> QED
    BY <1>1, <1>3, <2>1, QuietDisk
<1> QED
  BY <1>1, <1>2, <1>3, <1>4, <1>5, <1>6, OpKeeps

\* A request begins.
LEMMA BeginStep ==
  ASSUME UserFilesInv, NEW o \in Ops, Begin(o)
  PROVE  UserFilesInv'
<1> DEFINE u == UserOf[o]
<1>0. FileTypes /\ PlaceOf(o) /\ HoldsOf(o) /\ UserInv(u) /\ u \in Users /\ o # NoOp
  BY AdmissionAssumption DEF UserFilesInv
<1>b. OwedAt(o) \in Nat
  BY <1>0, OwedIsReserved
<1>a. /\ pc[o] = "idle"
      /\ \E k \in {"upload", "folder", "move", "delete", "download", "export"}, d \in Dirs, s \in {"reserve", "lock", "slot"} :
           /\ k \in {"upload", "folder"} <=> s = "reserve"
           /\ k = "export" <=> s = "slot"
           /\ kind' = [kind EXCEPT ![o] = k] /\ dir' = [dir EXCEPT ![o] = d] /\ pc' = [pc EXCEPT ![o] = s]
      /\ UNCHANGED <<policy, reservedByUser, quotaGate, limitSeen, scanned, quota,
                     reservedTotal, physical, size, hasSub, lock, temp, copy, freeSlots,
                     cancelled, leftover, disturbances, ceiling, hidden, leaked, unbacked>>
  BY <1>0, UserFilesAssumption DEF Begin, Goto, admissionVars
<1>1. FileTypes'
  BY <1>0, <1>a, UserFilesAssumption, Numbers DEF FileTypes, Steps, Writers, Readers, Dirs
<1>2. Only(o)
  BY <1>0, <1>a, UserFilesAssumption DEF Only, FileTypes
<1>3. PlaceOf(o)' /\ HoldsOf(o)'
  BY <1>0, <1>a, UserFilesAssumption, Numbers DEF PlaceOf, HoldsOf, Locked, Streaming, Writing,
     Unwritten, Writers, Readers, FileTypes, SnapshotUnits
<1>4. AccountsKept(o)
  BY <1>0, <1>a, UserFilesAssumption DEF AccountsKept, SlotAt, Holding, FileTypes, HoldsOf
<1>5. QuotaKept(o)
  <2>1. /\ UNCHANGED <<size, hasSub, hidden>> /\ PendAt(o)' <= PendAt(o)
        /\ \/ quotaGate'[u] = NoOp
           \/ quotaGate'[u] = o /\ scanned'[o] = FirstDirectory(u)
           \/ quota'[o] = quota[o] /\ UNCHANGED <<quotaGate, scanned>>
    BY <1>0, <1>a, UserFilesAssumption DEF PendAt, Unwritten, Writing, FileTypes, HoldsOf
  <2> QED
    BY <1>1, <2>1, QuietQuota
<1>6. DiskKept(o)
  <2>1. /\ UNCHANGED <<size, hasSub, unbacked>>
        /\ temp'[o] + copy'[o] + OwedAt(o)' <= temp[o] + copy[o] + OwedAt(o)
    BY <1>0, <1>a, UserFilesAssumption, <1>b DEF OwedAt, Writing, FileTypes, HoldsOf, PlaceOf
  <2> QED
    BY <1>1, <1>3, <2>1, QuietDisk
<1> QED
  BY <1>1, <1>2, <1>3, <1>4, <1>5, <1>6, OpKeeps

\* An upload gets its temporary file, if its destination is new.
LEMMA CheckUploadStep ==
  ASSUME UserFilesInv, NEW o \in Ops, CheckUpload(o)
  PROVE  UserFilesInv'
<1> DEFINE u == UserOf[o]
<1>0. FileTypes /\ PlaceOf(o) /\ HoldsOf(o) /\ UserInv(u) /\ u \in Users /\ o # NoOp
  BY AdmissionAssumption DEF UserFilesInv
<1>b. OwedAt(o) \in Nat
  BY <1>0, OwedIsReserved
<1>a. /\ pc[o] = "check" /\ kind[o] = "upload"
      /\ \/ pc' = [pc EXCEPT ![o] = "stream"] /\ temp' = [temp EXCEPT ![o] = 1]
         \/ pc' = [pc EXCEPT ![o] = "unlock"] /\ temp' = temp
      /\ UNCHANGED <<policy, reservedByUser, quotaGate, limitSeen, scanned, quota,
                     reservedTotal, physical, kind, dir, lock, copy, freeSlots, cancelled,
                     leftover, disturbances, ceiling, leaked, size, hasSub, hidden, unbacked>>
  BY <1>0 DEF CheckUpload, Goto, LockedUnchanged, TreeUnchanged, admissionVars, DirExists
<1>1. FileTypes'
  <2>1. pc' \in [Ops -> Steps]
    BY <1>0, <1>a DEF FileTypes, Steps
  <2>2. 1 \in 0..MaxUpload
    BY Numbers
  <2>3. temp' \in [Ops -> 0..MaxUpload]
    BY <1>0, <1>a, <2>2 DEF FileTypes
  <2> QED
    BY <1>0, <1>a, <2>1, <2>3 DEF FileTypes
<1>2. Only(o)
  BY <1>0, <1>a DEF Only, FileTypes
<1>3. PlaceOf(o)' /\ HoldsOf(o)'
  BY <1>0, <1>a, Numbers DEF PlaceOf, HoldsOf, Locked, Streaming, Writing, Unwritten, Writers,
     Readers, FileTypes, SnapshotUnits
<1>4. AccountsKept(o)
  BY <1>0, <1>a DEF AccountsKept, SlotAt, Holding, FileTypes, HoldsOf
<1>5. QuotaKept(o)
  <2>1. /\ UNCHANGED <<size, hasSub, hidden>> /\ PendAt(o)' <= PendAt(o)
        /\ \/ quotaGate'[u] = NoOp
           \/ quotaGate'[u] = o /\ scanned'[o] = FirstDirectory(u)
           \/ quota'[o] = quota[o] /\ UNCHANGED <<quotaGate, scanned>>
    BY <1>0, <1>a DEF PendAt, Unwritten, Writing, FileTypes, HoldsOf
  <2> QED
    BY <1>1, <2>1, QuietQuota
<1>6. DiskKept(o)
  <2>1. /\ UNCHANGED <<size, hasSub, unbacked>>
        /\ temp'[o] + copy'[o] + OwedAt(o)' <= temp[o] + copy[o] + OwedAt(o)
    BY <1>0, <1>a, <1>b DEF OwedAt, Writing, FileTypes, HoldsOf, PlaceOf
  <2> QED
    BY <1>1, <1>3, <2>1, QuietDisk
<1> QED
  BY <1>1, <1>2, <1>3, <1>4, <1>5, <1>6, OpKeeps

\* A download finds its file, or leaves.
LEMMA CheckDownloadStep ==
  ASSUME UserFilesInv, NEW o \in Ops, CheckDownload(o)
  PROVE  UserFilesInv'
<1> DEFINE u == UserOf[o]
<1>0. FileTypes /\ PlaceOf(o) /\ HoldsOf(o) /\ UserInv(u) /\ u \in Users /\ o # NoOp
  BY AdmissionAssumption DEF UserFilesInv
<1>b. OwedAt(o) \in Nat
  BY <1>0, OwedIsReserved
<1>1. FileTypes'
  BY <1>0, Numbers DEF CheckDownload, Goto, LockedUnchanged, TreeUnchanged, admissionVars,
     FileTypes, Steps, Writers, Readers, Dirs
<1>2. Only(o)
  BY <1>0 DEF CheckDownload, Goto, LockedUnchanged, TreeUnchanged, admissionVars, Only,
     FileTypes
<1>3. PlaceOf(o)' /\ HoldsOf(o)'
  BY <1>0, Numbers DEF CheckDownload, Goto, LockedUnchanged, TreeUnchanged, admissionVars,
     PlaceOf, HoldsOf, Locked, Streaming, Writing, Unwritten, Writers, Readers, FileTypes,
     SnapshotUnits
<1>4. AccountsKept(o)
  BY <1>0 DEF CheckDownload, Goto, LockedUnchanged, TreeUnchanged, admissionVars, AccountsKept,
     SlotAt, Holding, FileTypes, HoldsOf
<1>5. QuotaKept(o)
  <2>1. /\ UNCHANGED <<size, hasSub, hidden>> /\ PendAt(o)' <= PendAt(o)
        /\ \/ quotaGate'[u] = NoOp
           \/ quotaGate'[u] = o /\ scanned'[o] = FirstDirectory(u)
           \/ quota'[o] = quota[o] /\ UNCHANGED <<quotaGate, scanned>>
    BY <1>0 DEF CheckDownload, Goto, LockedUnchanged, TreeUnchanged, admissionVars, PendAt,
       Unwritten, Writing, FileTypes, HoldsOf
  <2> QED
    BY <1>1, <2>1, QuietQuota
<1>6. DiskKept(o)
  <2>1. /\ UNCHANGED <<size, hasSub, unbacked>>
        /\ temp'[o] + copy'[o] + OwedAt(o)' <= temp[o] + copy[o] + OwedAt(o)
    BY <1>0, <1>b DEF CheckDownload, Goto, LockedUnchanged, TreeUnchanged, admissionVars,
       OwedAt, Writing, FileTypes, HoldsOf, PlaceOf
  <2> QED
    BY <1>1, <1>3, <2>1, QuietDisk
<1> QED
  BY <1>1, <1>2, <1>3, <1>4, <1>5, <1>6, OpKeeps

\* A chunk is appended: the temporary file grows into what is reserved for it.
LEMMA StreamStep ==
  ASSUME UserFilesInv, NEW o \in Ops, Stream(o)
  PROVE  UserFilesInv'
<1> DEFINE u == UserOf[o]
<1>0. FileTypes /\ PlaceOf(o) /\ HoldsOf(o) /\ UserInv(u) /\ u \in Users /\ o # NoOp
  BY AdmissionAssumption DEF UserFilesInv
<1>b. OwedAt(o) \in Nat
  BY <1>0, OwedIsReserved
<1>1. FileTypes'
  BY <1>0, Numbers DEF Stream, LockedUnchanged, TreeUnchanged, admissionVars, FileTypes, Steps,
     Writers, Readers, Dirs
<1>2. Only(o)
  BY <1>0 DEF Stream, LockedUnchanged, TreeUnchanged, admissionVars, Only, FileTypes
<1>3. PlaceOf(o)' /\ HoldsOf(o)'
  BY <1>0, Numbers DEF Stream, LockedUnchanged, TreeUnchanged, admissionVars, PlaceOf, HoldsOf,
     Locked, Streaming, Writing, Unwritten, Writers, Readers, FileTypes, SnapshotUnits
<1>4. AccountsKept(o)
  BY <1>0 DEF Stream, LockedUnchanged, TreeUnchanged, admissionVars, AccountsKept, SlotAt,
     Holding, FileTypes, HoldsOf
<1>5. QuotaKept(o)
  <2>1. /\ UNCHANGED <<size, hasSub, hidden>> /\ PendAt(o)' <= PendAt(o)
        /\ \/ quotaGate'[u] = NoOp
           \/ quotaGate'[u] = o /\ scanned'[o] = FirstDirectory(u)
           \/ quota'[o] = quota[o] /\ UNCHANGED <<quotaGate, scanned>>
    BY <1>0 DEF Stream, LockedUnchanged, TreeUnchanged, admissionVars, PendAt, Unwritten,
       Writing, FileTypes, HoldsOf
  <2> QED
    BY <1>1, <2>1, QuietQuota
<1>6. DiskKept(o)
  <2>1. /\ UNCHANGED <<size, hasSub, unbacked>>
        /\ temp'[o] + copy'[o] + OwedAt(o)' <= temp[o] + copy[o] + OwedAt(o)
    BY <1>0, <1>b DEF Stream, LockedUnchanged, TreeUnchanged, admissionVars, OwedAt, Writing,
       FileTypes, HoldsOf, PlaceOf
  <2> QED
    BY <1>1, <1>3, <2>1, QuietDisk
<1> QED
  BY <1>1, <1>2, <1>3, <1>4, <1>5, <1>6, OpKeeps

\* The body ends.
LEMMA StreamEndsStep ==
  ASSUME UserFilesInv, NEW o \in Ops, StreamEnds(o)
  PROVE  UserFilesInv'
<1> DEFINE u == UserOf[o]
<1>0. FileTypes /\ PlaceOf(o) /\ HoldsOf(o) /\ UserInv(u) /\ u \in Users /\ o # NoOp
  BY AdmissionAssumption DEF UserFilesInv
<1>b. OwedAt(o) \in Nat
  BY <1>0, OwedIsReserved
<1>1. FileTypes'
  BY <1>0, Numbers DEF StreamEnds, Goto, LockedUnchanged, TreeUnchanged, admissionVars,
     FileTypes, Steps, Writers, Readers, Dirs
<1>2. Only(o)
  BY <1>0 DEF StreamEnds, Goto, LockedUnchanged, TreeUnchanged, admissionVars, Only, FileTypes
<1>3. PlaceOf(o)' /\ HoldsOf(o)'
  BY <1>0, Numbers DEF StreamEnds, Goto, LockedUnchanged, TreeUnchanged, admissionVars, PlaceOf,
     HoldsOf, Locked, Streaming, Writing, Unwritten, Writers, Readers, FileTypes, SnapshotUnits
<1>4. AccountsKept(o)
  BY <1>0 DEF StreamEnds, Goto, LockedUnchanged, TreeUnchanged, admissionVars, AccountsKept,
     SlotAt, Holding, FileTypes, HoldsOf
<1>5. QuotaKept(o)
  <2>1. /\ UNCHANGED <<size, hasSub, hidden>> /\ PendAt(o)' <= PendAt(o)
        /\ \/ quotaGate'[u] = NoOp
           \/ quotaGate'[u] = o /\ scanned'[o] = FirstDirectory(u)
           \/ quota'[o] = quota[o] /\ UNCHANGED <<quotaGate, scanned>>
    BY <1>0 DEF StreamEnds, Goto, LockedUnchanged, TreeUnchanged, admissionVars, PendAt,
       Unwritten, Writing, FileTypes, HoldsOf
  <2> QED
    BY <1>1, <2>1, QuietQuota
<1>6. DiskKept(o)
  <2>1. /\ UNCHANGED <<size, hasSub, unbacked>>
        /\ temp'[o] + copy'[o] + OwedAt(o)' <= temp[o] + copy[o] + OwedAt(o)
    BY <1>0, <1>b DEF StreamEnds, Goto, LockedUnchanged, TreeUnchanged, admissionVars, OwedAt,
       Writing, FileTypes, HoldsOf, PlaceOf
  <2> QED
    BY <1>1, <1>3, <2>1, QuietDisk
<1> QED
  BY <1>1, <1>2, <1>3, <1>4, <1>5, <1>6, OpKeeps

\* The temporary file goes.
LEMMA CleanUpStep ==
  ASSUME UserFilesInv, NEW o \in Ops, CleanUp(o)
  PROVE  UserFilesInv'
<1> DEFINE u == UserOf[o]
<1>0. FileTypes /\ PlaceOf(o) /\ HoldsOf(o) /\ UserInv(u) /\ u \in Users /\ o # NoOp
  BY AdmissionAssumption DEF UserFilesInv
<1>b. OwedAt(o) \in Nat
  BY <1>0, OwedIsReserved
<1>1. FileTypes'
  BY <1>0, Numbers DEF CleanUp, Goto, LockedUnchanged, TreeUnchanged, admissionVars, FileTypes,
     Steps, Writers, Readers, Dirs
<1>2. Only(o)
  BY <1>0 DEF CleanUp, Goto, LockedUnchanged, TreeUnchanged, admissionVars, Only, FileTypes
<1>3. PlaceOf(o)' /\ HoldsOf(o)'
  BY <1>0, Numbers DEF CleanUp, Goto, LockedUnchanged, TreeUnchanged, admissionVars, PlaceOf,
     HoldsOf, Locked, Streaming, Writing, Unwritten, Writers, Readers, FileTypes, SnapshotUnits
<1>4. AccountsKept(o)
  BY <1>0 DEF CleanUp, Goto, LockedUnchanged, TreeUnchanged, admissionVars, AccountsKept,
     SlotAt, Holding, FileTypes, HoldsOf
<1>5. QuotaKept(o)
  <2>1. /\ UNCHANGED <<size, hasSub, hidden>> /\ PendAt(o)' <= PendAt(o)
        /\ \/ quotaGate'[u] = NoOp
           \/ quotaGate'[u] = o /\ scanned'[o] = FirstDirectory(u)
           \/ quota'[o] = quota[o] /\ UNCHANGED <<quotaGate, scanned>>
    BY <1>0 DEF CleanUp, Goto, LockedUnchanged, TreeUnchanged, admissionVars, PendAt, Unwritten,
       Writing, FileTypes, HoldsOf
  <2> QED
    BY <1>1, <2>1, QuietQuota
<1>6. DiskKept(o)
  <2>1. /\ UNCHANGED <<size, hasSub, unbacked>>
        /\ temp'[o] + copy'[o] + OwedAt(o)' <= temp[o] + copy[o] + OwedAt(o)
    BY <1>0, <1>b DEF CleanUp, Goto, LockedUnchanged, TreeUnchanged, admissionVars, OwedAt,
       Writing, FileTypes, HoldsOf, PlaceOf
  <2> QED
    BY <1>1, <1>3, <2>1, QuietDisk
<1> QED
  BY <1>1, <1>2, <1>3, <1>4, <1>5, <1>6, OpKeeps

\* The lock is left; a cancelled download loses its snapshot.
LEMMA UnlockStep ==
  ASSUME UserFilesInv, NEW o \in Ops, Unlock(o)
  PROVE  UserFilesInv'
<1> DEFINE u == UserOf[o]
<1>0. FileTypes /\ PlaceOf(o) /\ HoldsOf(o) /\ UserInv(u) /\ u \in Users /\ o # NoOp
  BY AdmissionAssumption DEF UserFilesInv
<1>b. OwedAt(o) \in Nat
  BY <1>0, OwedIsReserved
<1>1. FileTypes'
  BY <1>0, Numbers DEF Unlock, Goto, admissionVars, AfterLock, FileTypes, Steps, Writers,
     Readers, Dirs
<1>2. Only(o)
  BY <1>0 DEF Unlock, Goto, admissionVars, AfterLock, Only, FileTypes, PlaceOf, Locked
<1>3. PlaceOf(o)' /\ HoldsOf(o)'
  BY <1>0, Numbers DEF Unlock, Goto, admissionVars, AfterLock, PlaceOf, HoldsOf, Locked,
     Streaming, Writing, Unwritten, Writers, Readers, FileTypes, SnapshotUnits
<1>4. AccountsKept(o)
  BY <1>0 DEF Unlock, Goto, admissionVars, AfterLock, AccountsKept, SlotAt, Holding, FileTypes,
     HoldsOf
<1>5. QuotaKept(o)
  <2>1. /\ UNCHANGED <<size, hasSub, hidden>> /\ PendAt(o)' <= PendAt(o)
        /\ \/ quotaGate'[u] = NoOp
           \/ quotaGate'[u] = o /\ scanned'[o] = FirstDirectory(u)
           \/ quota'[o] = quota[o] /\ UNCHANGED <<quotaGate, scanned>>
    BY <1>0 DEF Unlock, Goto, admissionVars, AfterLock, PendAt, Unwritten, Writing, FileTypes,
       HoldsOf
  <2> QED
    BY <1>1, <2>1, QuietQuota
<1>6. DiskKept(o)
  <2>1. /\ UNCHANGED <<size, hasSub, unbacked>>
        /\ temp'[o] + copy'[o] + OwedAt(o)' <= temp[o] + copy[o] + OwedAt(o)
    BY <1>0, <1>b DEF Unlock, Goto, admissionVars, AfterLock, OwedAt, Writing, FileTypes,
       HoldsOf, PlaceOf
  <2> QED
    BY <1>1, <1>3, <2>1, QuietDisk
<1> QED
  BY <1>1, <1>2, <1>3, <1>4, <1>5, <1>6, OpKeeps

\* Without a quota the second check keeps nothing reserved.
LEMMA RecheckNothingStep ==
  ASSUME UserFilesInv, NEW o \in Ops, RecheckNothing(o)
  PROVE  UserFilesInv'
<1> DEFINE u == UserOf[o]
<1>0. FileTypes /\ PlaceOf(o) /\ HoldsOf(o) /\ UserInv(u) /\ u \in Users /\ o # NoOp
  BY AdmissionAssumption DEF UserFilesInv
<1>b. OwedAt(o) \in Nat
  BY <1>0, OwedIsReserved
<1>q. quota[o] \in Nat /\ reservedByUser[u] \in Nat /\ quota[o] <= reservedByUser[u]
  BY QuotaIsReserved
<1>s. Others(o) + 0 = reservedByUser[u] - quota[o]
  BY <1>q DEF Others
<1>a. /\ pc[o] = "recheck" /\ pc' = [pc EXCEPT ![o] = "publish"]
      /\ policy[u] = Unlimited /\ quotaGate[u] = NoOp
      /\ quota' = [quota EXCEPT ![o] = 0]
      /\ reservedByUser' = [reservedByUser EXCEPT ![u] = reservedByUser[u] - quota[o]]
      /\ quota[o] <= reservedByUser[u]
      /\ UNCHANGED <<policy, quotaGate, limitSeen, scanned, reservedTotal, physical, kind, dir,
                     size, hasSub, lock, temp, copy, freeSlots, cancelled, leftover,
                     disturbances, ceiling, hidden, unbacked, leaked>>
  BY <1>0, <1>q, <1>s DEF RecheckNothing, Goto, FilesUnchanged, QuotaGateIsFree, SetQuota
<1>1. FileTypes'
  BY <1>0, <1>a, <1>q, <1>s, Numbers DEF FileTypes, Steps, Writers, Readers, Dirs
<1>2. Only(o)
  BY <1>0, <1>a, <1>q, <1>s DEF Only, FileTypes
<1>3. PlaceOf(o)' /\ HoldsOf(o)'
  BY <1>0, <1>a, <1>q, <1>s, Numbers DEF PlaceOf, HoldsOf, Locked, Streaming, Writing,
     Unwritten, Writers, Readers, FileTypes, SnapshotUnits, UserInv
<1>4. AccountsKept(o)
  BY <1>0, <1>a, <1>q, <1>s DEF AccountsKept, SlotAt, Holding, FileTypes, HoldsOf
<1>5. QuotaKept(o)
  <2>1. /\ UNCHANGED <<size, hasSub, hidden>> /\ PendAt(o)' <= PendAt(o)
        /\ \/ quotaGate'[u] = NoOp
           \/ quotaGate'[u] = o /\ scanned'[o] = FirstDirectory(u)
           \/ quota'[o] = quota[o] /\ UNCHANGED <<quotaGate, scanned>>
    BY <1>0, <1>a, <1>q, <1>s DEF PendAt, Unwritten, Writing, FileTypes, HoldsOf
  <2> QED
    BY <1>1, <2>1, QuietQuota
<1>6. DiskKept(o)
  <2>1. /\ UNCHANGED <<size, hasSub, unbacked>>
        /\ temp'[o] + copy'[o] + OwedAt(o)' <= temp[o] + copy[o] + OwedAt(o)
    BY <1>0, <1>a, <1>q, <1>s, <1>b DEF OwedAt, Writing, FileTypes, HoldsOf, PlaceOf
  <2> QED
    BY <1>1, <1>3, <2>1, QuietDisk
<1> QED
  BY <1>1, <1>2, <1>3, <1>4, <1>5, <1>6, OpKeeps

\* The second check enters the gate.
LEMMA RecheckScansStep ==
  ASSUME UserFilesInv, NEW o \in Ops, RecheckScans(o)
  PROVE  UserFilesInv'
<1> DEFINE u == UserOf[o]
<1>0. FileTypes /\ PlaceOf(o) /\ HoldsOf(o) /\ UserInv(u) /\ u \in Users /\ o # NoOp
  BY AdmissionAssumption DEF UserFilesInv
<1>b. OwedAt(o) \in Nat
  BY <1>0, OwedIsReserved
<1>1. FileTypes'
  BY <1>0, OwnedIsNat, Numbers DEF RecheckScans, Goto, FilesUnchanged, QuotaGateIsFree,
     EnterGate, FileTypes, Steps, Writers, Readers, Dirs, FirstDirectory
<1>2. Only(o)
  BY <1>0, OwnedIsNat DEF RecheckScans, Goto, FilesUnchanged, QuotaGateIsFree, EnterGate, Only,
     FileTypes
<1>3. PlaceOf(o)' /\ HoldsOf(o)'
  BY <1>0, OwnedIsNat, Numbers DEF RecheckScans, Goto, FilesUnchanged, QuotaGateIsFree,
     EnterGate, PlaceOf, HoldsOf, Locked, Streaming, Writing, Unwritten, Writers, Readers,
     FileTypes, SnapshotUnits, UserInv
<1>4. AccountsKept(o)
  BY <1>0, OwnedIsNat DEF RecheckScans, Goto, FilesUnchanged, QuotaGateIsFree, EnterGate,
     AccountsKept, SlotAt, Holding, FileTypes, HoldsOf
<1>5. QuotaKept(o)
  <2>1. /\ UNCHANGED <<size, hasSub, hidden>> /\ PendAt(o)' <= PendAt(o)
        /\ \/ quotaGate'[u] = NoOp
           \/ quotaGate'[u] = o /\ scanned'[o] = FirstDirectory(u)
           \/ quota'[o] = quota[o] /\ UNCHANGED <<quotaGate, scanned>>
    BY <1>0, OwnedIsNat DEF RecheckScans, Goto, FilesUnchanged, QuotaGateIsFree, EnterGate,
       PendAt, Unwritten, Writing, FileTypes, HoldsOf
  <2> QED
    BY <1>1, <2>1, QuietQuota
<1>6. DiskKept(o)
  <2>1. /\ UNCHANGED <<size, hasSub, unbacked>>
        /\ temp'[o] + copy'[o] + OwedAt(o)' <= temp[o] + copy[o] + OwedAt(o)
    BY <1>0, OwnedIsNat, <1>b DEF RecheckScans, Goto, FilesUnchanged, QuotaGateIsFree,
       EnterGate, OwedAt, Writing, FileTypes, HoldsOf, PlaceOf
  <2> QED
    BY <1>1, <1>3, <2>1, QuietDisk
<1> QED
  BY <1>1, <1>2, <1>3, <1>4, <1>5, <1>6, OpKeeps

\* A slot for a response is taken.
LEMMA TakeSlotStep ==
  ASSUME UserFilesInv, NEW o \in Ops, TakeSlot(o)
  PROVE  UserFilesInv'
<1> DEFINE u == UserOf[o]
<1>0. FileTypes /\ PlaceOf(o) /\ HoldsOf(o) /\ UserInv(u) /\ u \in Users /\ o # NoOp
  BY AdmissionAssumption DEF UserFilesInv
<1>b. OwedAt(o) \in Nat
  BY <1>0, OwedIsReserved
<1>1. FileTypes'
  BY <1>0, Numbers DEF TakeSlot, Goto, admissionVars, FileTypes, Steps, Writers, Readers, Dirs
<1>2. Only(o)
  BY <1>0 DEF TakeSlot, Goto, admissionVars, Only, FileTypes
<1>3. PlaceOf(o)' /\ HoldsOf(o)'
  BY <1>0, Numbers DEF TakeSlot, Goto, admissionVars, PlaceOf, HoldsOf, Locked, Streaming,
     Writing, Unwritten, Writers, Readers, FileTypes, SnapshotUnits
<1>4. AccountsKept(o)
  BY <1>0 DEF TakeSlot, Goto, admissionVars, AccountsKept, SlotAt, Holding, FileTypes, HoldsOf
<1>5. QuotaKept(o)
  <2>1. /\ UNCHANGED <<size, hasSub, hidden>> /\ PendAt(o)' <= PendAt(o)
        /\ \/ quotaGate'[u] = NoOp
           \/ quotaGate'[u] = o /\ scanned'[o] = FirstDirectory(u)
           \/ quota'[o] = quota[o] /\ UNCHANGED <<quotaGate, scanned>>
    BY <1>0 DEF TakeSlot, Goto, admissionVars, PendAt, Unwritten, Writing, FileTypes, HoldsOf
  <2> QED
    BY <1>1, <2>1, QuietQuota
<1>6. DiskKept(o)
  <2>1. /\ UNCHANGED <<size, hasSub, unbacked>>
        /\ temp'[o] + copy'[o] + OwedAt(o)' <= temp[o] + copy[o] + OwedAt(o)
    BY <1>0, <1>b DEF TakeSlot, Goto, admissionVars, OwedAt, Writing, FileTypes, HoldsOf,
       PlaceOf
  <2> QED
    BY <1>1, <1>3, <2>1, QuietDisk
<1> QED
  BY <1>1, <1>2, <1>3, <1>4, <1>5, <1>6, OpKeeps

\* The snapshot is copied, or what was taken for it goes back.
LEMMA CopyStep ==
  ASSUME UserFilesInv, NEW o \in Ops, Copy(o)
  PROVE  UserFilesInv'
<1> DEFINE u == UserOf[o]
<1>0. FileTypes /\ PlaceOf(o) /\ HoldsOf(o) /\ UserInv(u) /\ u \in Users /\ o # NoOp
  BY AdmissionAssumption DEF UserFilesInv
<1>b. OwedAt(o) \in Nat
  BY <1>0, OwedIsReserved
<1>a. /\ pc[o] = "copying"
      /\ \/ /\ \E n \in 1..SnapshotUnits(o) : copy' = [copy EXCEPT ![o] = n]
            /\ pc' = [pc EXCEPT ![o] = IF kind[o] = "download" THEN "unlock" ELSE "respond"]
         \/ copy' = copy /\ pc' = [pc EXCEPT ![o] = "giveBack"]
      /\ UNCHANGED <<policy, reservedByUser, quotaGate, limitSeen, scanned, quota,
                     reservedTotal, physical, kind, dir, temp, lock, freeSlots, cancelled,
                     leftover, disturbances, ceiling, leaked, size, hasSub, hidden, unbacked>>
  BY <1>0 DEF Copy, Goto, admissionVars, AfterSnapshot, SnapshotUnits
<1>1. FileTypes'
  <2>1. pc' \in [Ops -> Steps]
    BY <1>0, <1>a DEF FileTypes, Steps
  <2>2. SnapshotUnits(o) \in 0..MaxUpload
    BY <1>0, Numbers DEF SnapshotUnits, FileTypes
  <2>3. \A n \in 1..SnapshotUnits(o) : n \in 0..MaxUpload
    BY <2>2, Numbers
  <2>4. copy' \in [Ops -> 0..MaxUpload]
    BY <1>0, <1>a, <2>3 DEF FileTypes
  <2> QED
    BY <1>0, <1>a, <2>1, <2>4 DEF FileTypes
<1>2. Only(o)
  BY <1>0, <1>a DEF Only, FileTypes
<1>3. PlaceOf(o)' /\ HoldsOf(o)'
  BY <1>0, <1>a, Numbers DEF PlaceOf, HoldsOf, Locked, Streaming, Writing, Unwritten, Writers,
     Readers, FileTypes, SnapshotUnits
<1>4. AccountsKept(o)
  BY <1>0, <1>a DEF AccountsKept, SlotAt, Holding, FileTypes, HoldsOf
<1>5. QuotaKept(o)
  <2>1. /\ UNCHANGED <<size, hasSub, hidden>> /\ PendAt(o)' <= PendAt(o)
        /\ \/ quotaGate'[u] = NoOp
           \/ quotaGate'[u] = o /\ scanned'[o] = FirstDirectory(u)
           \/ quota'[o] = quota[o] /\ UNCHANGED <<quotaGate, scanned>>
    BY <1>0, <1>a DEF PendAt, Unwritten, Writing, FileTypes, HoldsOf
  <2> QED
    BY <1>1, <2>1, QuietQuota
<1>6. DiskKept(o)
  <2>1. /\ UNCHANGED <<size, hasSub, unbacked>>
        /\ temp'[o] + copy'[o] + OwedAt(o)' <= temp[o] + copy[o] + OwedAt(o)
    BY <1>0, <1>a, <1>b DEF OwedAt, Writing, FileTypes, HoldsOf, PlaceOf
  <2> QED
    BY <1>1, <1>3, <2>1, QuietDisk
<1> QED
  BY <1>1, <1>2, <1>3, <1>4, <1>5, <1>6, OpKeeps

\* The response has been sent.
LEMMA RespondStep ==
  ASSUME UserFilesInv, NEW o \in Ops, Respond(o)
  PROVE  UserFilesInv'
<1> DEFINE u == UserOf[o]
<1>0. FileTypes /\ PlaceOf(o) /\ HoldsOf(o) /\ UserInv(u) /\ u \in Users /\ o # NoOp
  BY AdmissionAssumption DEF UserFilesInv
<1>b. OwedAt(o) \in Nat
  BY <1>0, OwedIsReserved
<1>1. FileTypes'
  BY <1>0, Numbers DEF Respond, Goto, admissionVars, FileTypes, Steps, Writers, Readers, Dirs
<1>2. Only(o)
  BY <1>0 DEF Respond, Goto, admissionVars, Only, FileTypes
<1>3. PlaceOf(o)' /\ HoldsOf(o)'
  BY <1>0, Numbers DEF Respond, Goto, admissionVars, PlaceOf, HoldsOf, Locked, Streaming,
     Writing, Unwritten, Writers, Readers, FileTypes, SnapshotUnits
<1>4. AccountsKept(o)
  BY <1>0 DEF Respond, Goto, admissionVars, AccountsKept, SlotAt, Holding, FileTypes, HoldsOf
<1>5. QuotaKept(o)
  <2>1. /\ UNCHANGED <<size, hasSub, hidden>> /\ PendAt(o)' <= PendAt(o)
        /\ \/ quotaGate'[u] = NoOp
           \/ quotaGate'[u] = o /\ scanned'[o] = FirstDirectory(u)
           \/ quota'[o] = quota[o] /\ UNCHANGED <<quotaGate, scanned>>
    BY <1>0 DEF Respond, Goto, admissionVars, PendAt, Unwritten, Writing, FileTypes, HoldsOf
  <2> QED
    BY <1>1, <2>1, QuietQuota
<1>6. DiskKept(o)
  <2>1. /\ UNCHANGED <<size, hasSub, unbacked>>
        /\ temp'[o] + copy'[o] + OwedAt(o)' <= temp[o] + copy[o] + OwedAt(o)
    BY <1>0, <1>b DEF Respond, Goto, admissionVars, OwedAt, Writing, FileTypes, HoldsOf, PlaceOf
  <2> QED
    BY <1>1, <1>3, <2>1, QuietDisk
<1> QED
  BY <1>1, <1>2, <1>3, <1>4, <1>5, <1>6, OpKeeps

\* A snapshot that was not made gives back its headroom and its slot.
LEMMA GiveBackStep ==
  ASSUME UserFilesInv, NEW o \in Ops, GiveBack(o)
  PROVE  UserFilesInv'
<1> DEFINE u == UserOf[o]
<1>0. FileTypes /\ PlaceOf(o) /\ HoldsOf(o) /\ UserInv(u) /\ u \in Users /\ o # NoOp
  BY AdmissionAssumption DEF UserFilesInv
<1>b. OwedAt(o) \in Nat
  BY <1>0, OwedIsReserved
<1>h. reservedTotal' + physical[o] = reservedTotal /\ reservedTotal' \in Nat
      /\ physical' = [physical EXCEPT ![o] = 0]
  BY ReturnsHeadroom DEF GiveBack
<1>1. FileTypes'
  BY <1>0, <1>h, Numbers DEF GiveBack, Goto, FileTypes, Steps, Writers, Readers, Dirs
<1>2. Only(o)
  BY <1>0, <1>h DEF GiveBack, Goto, Only, FileTypes
<1>3. PlaceOf(o)' /\ HoldsOf(o)'
  BY <1>0, <1>h, Numbers DEF GiveBack, Goto, PlaceOf, HoldsOf, Locked, Streaming, Writing,
     Unwritten, Writers, Readers, FileTypes, SnapshotUnits
<1>4. AccountsKept(o)
  BY <1>0, <1>h DEF GiveBack, Goto, AccountsKept, SlotAt, Holding, FileTypes, HoldsOf
<1>5. QuotaKept(o)
  <2>1. /\ UNCHANGED <<size, hasSub, hidden>> /\ PendAt(o)' <= PendAt(o)
        /\ \/ quotaGate'[u] = NoOp
           \/ quotaGate'[u] = o /\ scanned'[o] = FirstDirectory(u)
           \/ quota'[o] = quota[o] /\ UNCHANGED <<quotaGate, scanned>>
    BY <1>0, <1>h DEF GiveBack, Goto, PendAt, Unwritten, Writing, FileTypes, HoldsOf
  <2> QED
    BY <1>1, <2>1, QuietQuota
<1>6. DiskKept(o)
  <2>1. /\ UNCHANGED <<size, hasSub, unbacked>>
        /\ temp'[o] + copy'[o] + OwedAt(o)' <= temp[o] + copy[o] + OwedAt(o)
    BY <1>0, <1>h, <1>b DEF GiveBack, Goto, OwedAt, Writing, FileTypes, HoldsOf, PlaceOf
  <2> QED
    BY <1>1, <1>3, <2>1, QuietDisk
<1> QED
  BY <1>1, <1>2, <1>3, <1>4, <1>5, <1>6, OpKeeps

\* A request is cancelled, wherever it is.
LEMMA CancelStep ==
  ASSUME UserFilesInv, NEW o \in Ops, Cancel(o)
  PROVE  UserFilesInv'
<1> DEFINE u == UserOf[o]
<1>0. FileTypes /\ PlaceOf(o) /\ HoldsOf(o) /\ UserInv(u) /\ u \in Users /\ o # NoOp
  BY AdmissionAssumption DEF UserFilesInv
<1>b. OwedAt(o) \in Nat
  BY <1>0, OwedIsReserved
<1>1. FileTypes'
  BY <1>0, Numbers DEF Cancel, admissionVars, Disturb, FileTypes, Steps, Writers, Readers, Dirs
<1>2. Only(o)
  BY <1>0 DEF Cancel, admissionVars, Disturb, Only, FileTypes
<1>3. PlaceOf(o)' /\ HoldsOf(o)'
  BY <1>0, Numbers DEF Cancel, admissionVars, Disturb, PlaceOf, HoldsOf, Locked, Streaming,
     Writing, Unwritten, Writers, Readers, FileTypes, SnapshotUnits
<1>4. AccountsKept(o)
  BY <1>0 DEF Cancel, admissionVars, Disturb, AccountsKept, SlotAt, Holding, FileTypes, HoldsOf
<1>5. QuotaKept(o)
  <2>1. /\ UNCHANGED <<size, hasSub, hidden>> /\ PendAt(o)' <= PendAt(o)
        /\ \/ quotaGate'[u] = NoOp
           \/ quotaGate'[u] = o /\ scanned'[o] = FirstDirectory(u)
           \/ quota'[o] = quota[o] /\ UNCHANGED <<quotaGate, scanned>>
    BY <1>0 DEF Cancel, admissionVars, Disturb, PendAt, Unwritten, Writing, FileTypes, HoldsOf
  <2> QED
    BY <1>1, <2>1, QuietQuota
<1>6. DiskKept(o)
  <2>1. /\ UNCHANGED <<size, hasSub, unbacked>>
        /\ temp'[o] + copy'[o] + OwedAt(o)' <= temp[o] + copy[o] + OwedAt(o)
    BY <1>0, <1>b DEF Cancel, admissionVars, Disturb, OwedAt, Writing, FileTypes, HoldsOf,
       PlaceOf
  <2> QED
    BY <1>1, <1>3, <2>1, QuietDisk
<1> QED
  BY <1>1, <1>2, <1>3, <1>4, <1>5, <1>6, OpKeeps

\* A request that is cancelled while it waits goes no further.
LEMMA AbandonStep ==
  ASSUME UserFilesInv, NEW o \in Ops, Abandon(o)
  PROVE  UserFilesInv'
<1> DEFINE u == UserOf[o]
<1>0. FileTypes /\ PlaceOf(o) /\ HoldsOf(o) /\ UserInv(u) /\ u \in Users /\ o # NoOp
  BY AdmissionAssumption DEF UserFilesInv
<1>b. OwedAt(o) \in Nat
  BY <1>0, OwedIsReserved
<1>1. FileTypes'
  BY <1>0, Numbers DEF Abandon, Goto, admissionVars, AfterLock, WithoutSnapshot, FileTypes,
     Steps, Writers, Readers, Dirs
<1>2. Only(o)
  BY <1>0 DEF Abandon, Goto, admissionVars, AfterLock, WithoutSnapshot, Only, FileTypes
<1>3. PlaceOf(o)' /\ HoldsOf(o)'
  BY <1>0, Numbers DEF Abandon, Goto, admissionVars, AfterLock, WithoutSnapshot, PlaceOf,
     HoldsOf, Locked, Streaming, Writing, Unwritten, Writers, Readers, FileTypes, SnapshotUnits
<1>4. AccountsKept(o)
  BY <1>0 DEF Abandon, Goto, admissionVars, AfterLock, WithoutSnapshot, AccountsKept, SlotAt,
     Holding, FileTypes, HoldsOf
<1>5. QuotaKept(o)
  <2>1. /\ UNCHANGED <<size, hasSub, hidden>> /\ PendAt(o)' <= PendAt(o)
        /\ \/ quotaGate'[u] = NoOp
           \/ quotaGate'[u] = o /\ scanned'[o] = FirstDirectory(u)
           \/ quota'[o] = quota[o] /\ UNCHANGED <<quotaGate, scanned>>
    BY <1>0 DEF Abandon, Goto, admissionVars, AfterLock, WithoutSnapshot, PendAt, Unwritten,
       Writing, FileTypes, HoldsOf
  <2> QED
    BY <1>1, <2>1, QuietQuota
<1>6. DiskKept(o)
  <2>1. /\ UNCHANGED <<size, hasSub, unbacked>>
        /\ temp'[o] + copy'[o] + OwedAt(o)' <= temp[o] + copy[o] + OwedAt(o)
    BY <1>0, <1>b DEF Abandon, Goto, admissionVars, AfterLock, WithoutSnapshot, OwedAt, Writing,
       FileTypes, HoldsOf, PlaceOf
  <2> QED
    BY <1>1, <1>3, <2>1, QuietDisk
<1> QED
  BY <1>1, <1>2, <1>3, <1>4, <1>5, <1>6, OpKeeps

\* The scan is over, and the reservation fits in what it has found, or is refused;
\* a cancelled request leaves it behind.
LEMMA ReserveDecidesStep ==
  ASSUME UserFilesInv, NEW o \in Ops, ReserveDecides(o)
  PROVE  UserFilesInv'
<1> DEFINE u == UserOf[o]
<1>0. FileTypes /\ PlaceOf(o) /\ HoldsOf(o) /\ UserInv(u) /\ u \in Users /\ o # NoOp
  BY AdmissionAssumption DEF UserFilesInv
<1>b. OwedAt(o) \in Nat
  BY <1>0, OwedIsReserved
<1>n. Request(o) \in Nat /\ (kind[o] = "folder" => Request(o) = 1)
  BY Numbers DEF Request, ReservationUnits, Content
<1>q. quota[o] \in Nat /\ reservedByUser[u] \in Nat /\ Others(o) = reservedByUser[u] - quota[o]
      /\ Others(o) \in Nat
  BY QuotaIsReserved DEF Others
<1>a. /\ pc[o] = "reserving" /\ quotaGate' = [quotaGate EXCEPT ![u] = NoOp]
      /\ limitSeen' = [limitSeen EXCEPT ![o] = Unlimited]
      /\ scanned' = [scanned EXCEPT ![o] = 0]
      /\ \/ pc' = [pc EXCEPT ![o] = "done"] /\ UNCHANGED <<quota, reservedByUser, leaked>>
         \/ /\ pc' = [pc EXCEPT ![o] = "done"] /\ UNCHANGED quota /\ o \in cancelled
            /\ reservedByUser' = [reservedByUser EXCEPT ![u] = reservedByUser[u] + Request(o)]
            /\ leaked' = [leaked EXCEPT ![u] = leaked[u] + Request(o)]
         \/ /\ pc' = [pc EXCEPT ![o] = "headroom"] /\ leaked' = leaked
            /\ Fits(o, scanned[o] + SecondDirectory(u), Request(o))
            /\ quota' = [quota EXCEPT ![o] = Request(o)]
            /\ reservedByUser' = [reservedByUser EXCEPT ![u] = Others(o) + Request(o)]
      /\ UNCHANGED <<policy, reservedTotal, physical, kind, dir, lock, copy, freeSlots,
                     cancelled, leftover, disturbances, ceiling, size, hasSub, temp, hidden,
                     unbacked>>
  BY <1>0, <1>n, <1>q DEF ReserveDecides, Goto, FilesUnchanged, LeaveGate, KeepQuota, LoseQuota,
     SetQuota
<1>1. FileTypes'
  <2>1. Others(o) + Request(o) \in Nat /\ reservedByUser[u] + Request(o) \in Nat /\ leaked[u] + Request(o) \in Nat
    BY <1>0, <1>n, <1>q, Numbers DEF FileTypes
  <2>2. pc' \in [Ops -> Steps]
    BY <1>0, <1>a DEF FileTypes, Steps
  <2>3. quotaGate' \in [Users -> Ops \cup {NoOp}]
    BY <1>0, <1>a, <1>n, <2>1 DEF FileTypes
  <2>4. limitSeen' \in [Ops -> Nat \cup {Unlimited}]
    BY <1>0, <1>a, <1>n, <2>1 DEF FileTypes
  <2>5. scanned' \in [Ops -> Nat]
    BY <1>0, <1>a, <1>n, <2>1 DEF FileTypes
  <2>6. quota' \in [Ops -> Nat]
    BY <1>0, <1>a, <1>n, <2>1 DEF FileTypes
  <2>7. reservedByUser' \in [Users -> Nat]
    BY <1>0, <1>a, <1>n, <2>1 DEF FileTypes
  <2>8. leaked' \in [Users -> Nat]
    BY <1>0, <1>a, <1>n, <2>1 DEF FileTypes
  <2> QED
    BY <1>0, <1>a, <2>2, <2>3, <2>4, <2>5, <2>6, <2>7, <2>8 DEF FileTypes
<1>2. Only(o)
  <2>1. \A p \in Ops \ {o} : /\ pc'[p] = pc[p] /\ quota'[p] = quota[p]
                              /\ limitSeen'[p] = limitSeen[p] /\ scanned'[p] = scanned[p]
    BY <1>0, <1>a DEF FileTypes
  <2>2. \A v \in Users \ {u} : /\ quotaGate'[v] = quotaGate[v] /\ leaked'[v] = leaked[v]
                                /\ reservedByUser'[v] = reservedByUser[v]
    BY <1>0, <1>a DEF FileTypes
  <2>3. quotaGate[u] = o /\ quotaGate'[u] = NoOp
    BY <1>0, <1>a DEF FileTypes, PlaceOf
  <2> QED
    BY <1>a, <2>1, <2>2, <2>3 DEF Only
<1>3. PlaceOf(o)' /\ HoldsOf(o)'
  BY <1>0, <1>a, <1>n, <1>q, Numbers DEF PlaceOf, HoldsOf, Locked, Streaming, Writing,
     Unwritten, Writers, Readers, FileTypes, SnapshotUnits
<1>4. AccountsKept(o)
  <2>1. quota[o] = 0
    BY <1>0, <1>a DEF HoldsOf, Unwritten, Writing
  <2>2. leaked[u] \in Nat
    BY <1>0 DEF FileTypes
  <2>3. reservedByUser'[u] + quota[o] + leaked[u] = reservedByUser[u] + quota'[o] + leaked'[u]
    BY <1>0, <1>a, <1>n, <1>q, <2>1, <2>2 DEF FileTypes
  <2>4. /\ reservedTotal' + physical[o] = reservedTotal + physical'[o]
        /\ freeSlots' + SlotAt(o)' = freeSlots + SlotAt(o)
        /\ leaked'[u] = leaked[u] \/ o \in cancelled'
    BY <1>0, <1>a DEF SlotAt, Holding, FileTypes
  <2> QED
    BY <2>3, <2>4 DEF AccountsKept
<1>5. QuotaKept(o)
  <2>1. UNCHANGED <<size, hasSub, hidden>> /\ quotaGate'[u] = NoOp
    BY <1>0, <1>a DEF FileTypes
  <2>2. CASE PendAt(o)' <= PendAt(o)
    BY <1>1, <2>1, <2>2, QuietQuota
  <2>3. CASE ~(PendAt(o)' <= PendAt(o))
    <3>1. PendAt(o)' \in Nat /\ PendAt(o) \in Nat
      BY <1>1, <1>2, <1>3, PendMoves
    <3>2. PendAt(o)' = Request(o) /\ Fits(o, scanned[o] + SecondDirectory(u), Request(o))
      BY <1>0, <1>a, <2>3, <3>1 DEF PendAt, Unwritten, Writing, FileTypes, HoldsOf
    <3>3. PendAt(o) = quota[o]
      BY <1>0, <1>a DEF PendAt, Unwritten, Writing, FileTypes, HoldsOf
    <3>4. ceiling[u] # Unlimited =>
            Owned(u) + PendOf(u) + Request(o) <= ceiling[u] + hidden[u] + quota[o]
      BY <1>a, <1>n, <3>2, GrantFits
    <3>5. /\ PendOf(u) \in Nat /\ PendOf(u)' \in Nat
          /\ PendOf(u)' + PendAt(o) = PendOf(u) + PendAt(o)'
      BY <1>1, <1>2, <1>3, PendMoves
    <3>6. Owned(u)' = Owned(u) /\ Owned(u) \in Nat /\ hidden'[u] = hidden[u] /\ hidden[u] \in Nat
      BY <1>0, <2>1, OwnedIsNat DEF Owned, FirstDirectory, SecondDirectory, FileTypes
    <3>7. ceiling[u] # Unlimited => ceiling[u] \in Nat
      BY <1>0 DEF FileTypes
    <3>8. quota[o] \in Nat
      BY <1>0 DEF FileTypes
    <3> HIDE DEF u
    <3>9. ceiling[u] # Unlimited => Owned(u)' + PendOf(u)' <= ceiling[u] + hidden'[u]
      BY <1>n, <3>2, <3>3, <3>4, <3>5, <3>6, <3>7, <3>8
    <3> QED
      BY <2>1, <3>9 DEF QuotaKept, u
  <2> QED
    BY <2>2, <2>3
<1>6. DiskKept(o)
  <2>1. /\ UNCHANGED <<size, hasSub, unbacked>>
        /\ temp'[o] + copy'[o] + OwedAt(o)' <= temp[o] + copy[o] + OwedAt(o)
    BY <1>0, <1>a, <1>n, <1>q, <1>b DEF OwedAt, Writing, FileTypes, HoldsOf, PlaceOf
  <2> QED
    BY <1>1, <1>3, <2>1, QuietDisk
<1> QED
  BY <1>1, <1>2, <1>3, <1>4, <1>5, <1>6, OpKeeps

\* The disk has headroom for the write, or the request is refused.
LEMMA ReserveHeadroomStep ==
  ASSUME UserFilesInv, NEW o \in Ops, ReserveHeadroom(o)
  PROVE  UserFilesInv'
<1> DEFINE u == UserOf[o]
<1>0. FileTypes /\ PlaceOf(o) /\ HoldsOf(o) /\ UserInv(u) /\ u \in Users /\ o # NoOp
  BY AdmissionAssumption DEF UserFilesInv
<1>b. OwedAt(o) \in Nat
  BY <1>0, OwedIsReserved
<1>n. PhysicalUnits(o, Content(o)) \in Nat
      /\ (kind[o] = "upload" => MaxUpload <= PhysicalUnits(o, Content(o)))
  BY <1>0, Numbers DEF PhysicalUnits, Content, FileTypes
<1>a. /\ pc[o] = "headroom"
      /\ \/ /\ pc' = [pc EXCEPT ![o] = "lock"] /\ HasHeadroom(Free, PhysicalUnits(o, Content(o)))
            /\ reservedTotal' = reservedTotal + PhysicalUnits(o, Content(o))
            /\ physical' = [physical EXCEPT ![o] = PhysicalUnits(o, Content(o))]
         \/ pc' = [pc EXCEPT ![o] = "release"] /\ UNCHANGED <<reservedTotal, physical>>
      /\ UNCHANGED <<policy, reservedByUser, quotaGate, limitSeen, scanned, quota, kind, dir,
                     lock, copy, freeSlots, cancelled, leftover, disturbances, ceiling, size,
                     hasSub, temp, hidden, unbacked, leaked>>
  BY <1>0, <1>n DEF ReserveHeadroom, Goto, FilesUnchanged, TakeHeadroom
<1>1. FileTypes'
  <2>1. reservedTotal + PhysicalUnits(o, Content(o)) \in Nat
    BY <1>0, <1>n, Numbers DEF FileTypes
  <2>2. pc' \in [Ops -> Steps]
    BY <1>0, <1>a DEF FileTypes, Steps
  <2>3. physical' \in [Ops -> Nat]
    BY <1>0, <1>a, <1>n, <2>1 DEF FileTypes
  <2>4. reservedTotal' \in Nat
    BY <1>0, <1>a, <1>n, <2>1 DEF FileTypes
  <2> QED
    BY <1>0, <1>a, <2>2, <2>3, <2>4 DEF FileTypes
<1>2. Only(o)
  BY <1>0, <1>a, <1>n DEF Only, FileTypes
<1>3. PlaceOf(o)' /\ HoldsOf(o)'
  BY <1>0, <1>a, <1>n, Numbers DEF PlaceOf, HoldsOf, Locked, Streaming, Writing, Unwritten,
     Writers, Readers, FileTypes, SnapshotUnits
<1>4. AccountsKept(o)
  <2>1. physical[o] = 0 /\ reservedTotal \in Nat
    BY <1>0, <1>a DEF HoldsOf, Writing, FileTypes
  <2>2. reservedTotal' + physical[o] = reservedTotal + physical'[o]
    BY <1>0, <1>a, <1>n, <2>1 DEF FileTypes
  <2>3. /\ reservedByUser'[u] + quota[o] + leaked[u] = reservedByUser[u] + quota'[o] + leaked'[u]
        /\ freeSlots' + SlotAt(o)' = freeSlots + SlotAt(o)
        /\ leaked'[u] = leaked[u]
    BY <1>0, <1>a DEF SlotAt, Holding, FileTypes
  <2> QED
    BY <2>2, <2>3 DEF AccountsKept
<1>5. QuotaKept(o)
  <2>1. /\ UNCHANGED <<size, hasSub, hidden>> /\ PendAt(o)' <= PendAt(o)
        /\ quota'[o] = quota[o] /\ UNCHANGED <<quotaGate, scanned>>
    BY <1>0, <1>a DEF PendAt, Unwritten, Writing, FileTypes, HoldsOf
  <2> QED
    BY <1>1, <2>1, QuietQuota
<1>6. DiskKept(o)
  <2>1. CASE pc'[o] = "lock"
    <3>1. UNCHANGED <<size, hasSub, temp, copy, leftover, unbacked>>
      BY <1>a
    <3>2. HasHeadroom(Free, PhysicalUnits(o, Content(o))) /\ physical'[o] = PhysicalUnits(o, Content(o))
      BY <1>0, <1>a, <2>1 DEF FileTypes
    <3>3. OwedAt(o) = 0
      BY <1>0, <1>a DEF OwedAt, Writing
    <3>4. OwedAt(o)' = PhysicalUnits(o, Content(o))
      BY <1>0, <1>a, <1>n, <2>1, <3>2, Numbers DEF OwedAt, Writing, HoldsOf, FileTypes,
         Streaming
    <3> QED
      BY <1>1, <1>2, <1>3, <1>n, <3>1, <3>2, <3>3, <3>4, HeadroomIsLeft
  <2>2. CASE pc'[o] # "lock"
    <3>1. /\ UNCHANGED <<size, hasSub, unbacked>>
          /\ temp'[o] + copy'[o] + OwedAt(o)' <= temp[o] + copy[o] + OwedAt(o)
      BY <1>0, <1>a, <1>b, <2>2 DEF OwedAt, Writing, FileTypes
    <3> QED
      BY <1>1, <1>3, <3>1, QuietDisk
  <2> QED
    BY <2>1, <2>2
<1> QED
  BY <1>1, <1>2, <1>3, <1>4, <1>5, <1>6, OpKeeps

\* The second scan is over: what was written replaces what was reserved.
LEMMA RecheckDecidesStep ==
  ASSUME UserFilesInv, NEW o \in Ops, RecheckDecides(o)
  PROVE  UserFilesInv'
<1> DEFINE u == UserOf[o]
<1>0. FileTypes /\ PlaceOf(o) /\ HoldsOf(o) /\ UserInv(u) /\ u \in Users /\ o # NoOp
  BY AdmissionAssumption DEF UserFilesInv
<1>b. OwedAt(o) \in Nat
  BY <1>0, OwedIsReserved
<1>n. temp[o] \in Nat
  BY <1>0, Numbers DEF FileTypes
<1>q. quota[o] \in Nat /\ reservedByUser[u] \in Nat /\ Others(o) = reservedByUser[u] - quota[o]
      /\ Others(o) \in Nat
  BY QuotaIsReserved DEF Others
<1>a. /\ pc[o] = "rechecking" /\ quotaGate' = [quotaGate EXCEPT ![u] = NoOp]
      /\ limitSeen' = [limitSeen EXCEPT ![o] = Unlimited]
      /\ scanned' = [scanned EXCEPT ![o] = 0]
      /\ \/ pc' = [pc EXCEPT ![o] = "cleanup"] /\ UNCHANGED <<quota, reservedByUser>>
         \/ /\ \E s \in {"publish", "cleanup"} : pc' = [pc EXCEPT ![o] = s]
            /\ Fits(o, scanned[o] + SecondDirectory(u), temp[o])
            /\ quota' = [quota EXCEPT ![o] = temp[o]]
            /\ reservedByUser' = [reservedByUser EXCEPT ![u] = Others(o) + temp[o]]
      /\ UNCHANGED <<policy, reservedTotal, physical, kind, dir, lock, copy, freeSlots,
                     cancelled, leftover, disturbances, ceiling, size, hasSub, temp, hidden,
                     unbacked, leaked>>
  BY <1>0, <1>n, <1>q DEF RecheckDecides, Goto, FilesUnchanged, LeaveGate, KeepQuota, SetQuota
<1>1. FileTypes'
  <2>1. Others(o) + temp[o] \in Nat
    BY <1>0, <1>n, <1>q, Numbers DEF FileTypes
  <2>2. pc' \in [Ops -> Steps]
    BY <1>0, <1>a DEF FileTypes, Steps
  <2>3. quotaGate' \in [Users -> Ops \cup {NoOp}]
    BY <1>0, <1>a, <1>n, <2>1 DEF FileTypes
  <2>4. limitSeen' \in [Ops -> Nat \cup {Unlimited}]
    BY <1>0, <1>a, <1>n, <2>1 DEF FileTypes
  <2>5. scanned' \in [Ops -> Nat]
    BY <1>0, <1>a, <1>n, <2>1 DEF FileTypes
  <2>6. quota' \in [Ops -> Nat]
    BY <1>0, <1>a, <1>n, <2>1 DEF FileTypes
  <2>7. reservedByUser' \in [Users -> Nat]
    BY <1>0, <1>a, <1>n, <2>1 DEF FileTypes
  <2> QED
    BY <1>0, <1>a, <2>2, <2>3, <2>4, <2>5, <2>6, <2>7 DEF FileTypes
<1>2. Only(o)
  <2>1. \A p \in Ops \ {o} : /\ pc'[p] = pc[p] /\ quota'[p] = quota[p]
                              /\ limitSeen'[p] = limitSeen[p] /\ scanned'[p] = scanned[p]
    BY <1>0, <1>a DEF FileTypes
  <2>2. \A v \in Users \ {u} : /\ quotaGate'[v] = quotaGate[v] /\ leaked'[v] = leaked[v]
                                /\ reservedByUser'[v] = reservedByUser[v]
    BY <1>0, <1>a DEF FileTypes
  <2>3. quotaGate[u] = o /\ quotaGate'[u] = NoOp
    BY <1>0, <1>a DEF FileTypes, PlaceOf
  <2> QED
    BY <1>a, <2>1, <2>2, <2>3 DEF Only
<1>3. PlaceOf(o)' /\ HoldsOf(o)'
  BY <1>0, <1>a, <1>n, <1>q, Numbers DEF PlaceOf, HoldsOf, Locked, Streaming, Writing,
     Unwritten, Writers, Readers, FileTypes, SnapshotUnits
<1>4. AccountsKept(o)
  BY <1>0, <1>a, <1>n, <1>q DEF AccountsKept, SlotAt, Holding, FileTypes, HoldsOf
<1>5. QuotaKept(o)
  <2>1. UNCHANGED <<size, hasSub, hidden>> /\ quotaGate'[u] = NoOp
    BY <1>0, <1>a DEF FileTypes
  <2>2. CASE PendAt(o)' <= PendAt(o)
    BY <1>1, <2>1, <2>2, QuietQuota
  <2>3. CASE ~(PendAt(o)' <= PendAt(o))
    <3>1. PendAt(o)' \in Nat /\ PendAt(o) \in Nat
      BY <1>1, <1>2, <1>3, PendMoves
    <3>2. PendAt(o)' = temp[o] /\ Fits(o, scanned[o] + SecondDirectory(u), temp[o])
      BY <1>0, <1>a, <2>3, <3>1 DEF PendAt, Unwritten, Writing, FileTypes, HoldsOf
    <3>3. PendAt(o) = quota[o]
      BY <1>0, <1>a DEF PendAt, Unwritten, Writing, FileTypes, HoldsOf
    <3>4. ceiling[u] # Unlimited =>
            Owned(u) + PendOf(u) + temp[o] <= ceiling[u] + hidden[u] + quota[o]
      BY <1>a, <1>n, <3>2, GrantFits
    <3>5. /\ PendOf(u) \in Nat /\ PendOf(u)' \in Nat
          /\ PendOf(u)' + PendAt(o) = PendOf(u) + PendAt(o)'
      BY <1>1, <1>2, <1>3, PendMoves
    <3>6. Owned(u)' = Owned(u) /\ Owned(u) \in Nat /\ hidden'[u] = hidden[u] /\ hidden[u] \in Nat
      BY <1>0, <2>1, OwnedIsNat DEF Owned, FirstDirectory, SecondDirectory, FileTypes
    <3>7. ceiling[u] # Unlimited => ceiling[u] \in Nat
      BY <1>0 DEF FileTypes
    <3>8. quota[o] \in Nat
      BY <1>0 DEF FileTypes
    <3> HIDE DEF u
    <3>9. ceiling[u] # Unlimited => Owned(u)' + PendOf(u)' <= ceiling[u] + hidden'[u]
      BY <1>n, <3>2, <3>3, <3>4, <3>5, <3>6, <3>7, <3>8
    <3> QED
      BY <2>1, <3>9 DEF QuotaKept, u
  <2> QED
    BY <2>2, <2>3
<1>6. DiskKept(o)
  <2>1. /\ UNCHANGED <<size, hasSub, unbacked>>
        /\ temp'[o] + copy'[o] + OwedAt(o)' <= temp[o] + copy[o] + OwedAt(o)
    BY <1>0, <1>a, <1>n, <1>q, <1>b DEF OwedAt, Writing, FileTypes, HoldsOf, PlaceOf
  <2> QED
    BY <1>1, <1>3, <2>1, QuietDisk
<1> QED
  BY <1>1, <1>2, <1>3, <1>4, <1>5, <1>6, OpKeeps

\* The disk has headroom for a snapshot, or the download is refused.
LEMMA SnapshotHeadroomStep ==
  ASSUME UserFilesInv, NEW o \in Ops, SnapshotHeadroom(o)
  PROVE  UserFilesInv'
<1> DEFINE u == UserOf[o]
<1>0. FileTypes /\ PlaceOf(o) /\ HoldsOf(o) /\ UserInv(u) /\ u \in Users /\ o # NoOp
  BY AdmissionAssumption DEF UserFilesInv
<1>b. OwedAt(o) \in Nat
  BY <1>0, OwedIsReserved
<1>n. SnapshotUnits(o) \in Nat
  BY <1>0, Numbers DEF SnapshotUnits, FileTypes
<1>a. /\ pc[o] = "snapshot"
      /\ \/ /\ pc' = [pc EXCEPT ![o] = "copying"] /\ HasHeadroom(Free, SnapshotUnits(o))
            /\ reservedTotal' = reservedTotal + SnapshotUnits(o)
            /\ physical' = [physical EXCEPT ![o] = SnapshotUnits(o)]
         \/ pc' = [pc EXCEPT ![o] = "giveBack"] /\ UNCHANGED <<reservedTotal, physical>>
      /\ UNCHANGED <<policy, reservedByUser, quotaGate, limitSeen, scanned, quota, kind, dir,
                     lock, copy, freeSlots, cancelled, leftover, disturbances, ceiling, size,
                     hasSub, temp, hidden, unbacked, leaked>>
  BY <1>0, <1>n DEF SnapshotHeadroom, Goto, FilesUnchanged, TakeHeadroom
<1>1. FileTypes'
  BY <1>0, <1>a, <1>n, Numbers DEF FileTypes, Steps, Writers, Readers, Dirs
<1>2. Only(o)
  BY <1>0, <1>a, <1>n DEF Only, FileTypes
<1>3. PlaceOf(o)' /\ HoldsOf(o)'
  BY <1>0, <1>a, <1>n, Numbers DEF PlaceOf, HoldsOf, Locked, Streaming, Writing, Unwritten,
     Writers, Readers, FileTypes, SnapshotUnits
<1>4. AccountsKept(o)
  <2>1. physical[o] = 0 /\ reservedTotal \in Nat
    BY <1>0, <1>a DEF HoldsOf, Writing, FileTypes
  <2>2. reservedTotal' + physical[o] = reservedTotal + physical'[o]
    BY <1>0, <1>a, <1>n, <2>1 DEF FileTypes
  <2>3. /\ reservedByUser'[u] + quota[o] + leaked[u] = reservedByUser[u] + quota'[o] + leaked'[u]
        /\ freeSlots' + SlotAt(o)' = freeSlots + SlotAt(o)
        /\ leaked'[u] = leaked[u]
    BY <1>0, <1>a DEF SlotAt, Holding, FileTypes
  <2> QED
    BY <2>2, <2>3 DEF AccountsKept
<1>5. QuotaKept(o)
  <2>1. /\ UNCHANGED <<size, hasSub, hidden>> /\ PendAt(o)' <= PendAt(o)
        /\ quota'[o] = quota[o] /\ UNCHANGED <<quotaGate, scanned>>
    BY <1>0, <1>a DEF PendAt, Unwritten, Writing, FileTypes, HoldsOf
  <2> QED
    BY <1>1, <2>1, QuietQuota
<1>6. DiskKept(o)
  <2>1. CASE pc'[o] = "copying"
    <3>1. UNCHANGED <<size, hasSub, temp, copy, leftover, unbacked>>
      BY <1>a
    <3>2. HasHeadroom(Free, SnapshotUnits(o)) /\ physical'[o] = SnapshotUnits(o)
      BY <1>0, <1>a, <2>1 DEF FileTypes
    <3>3. OwedAt(o) = 0
      BY <1>0, <1>a DEF OwedAt, Writing
    <3>4. OwedAt(o)' = SnapshotUnits(o)
      BY <1>0, <1>a, <1>n, <2>1, <3>2, Numbers DEF OwedAt, Writing, HoldsOf, FileTypes,
         Streaming
    <3> QED
      BY <1>1, <1>2, <1>3, <1>n, <3>1, <3>2, <3>3, <3>4, HeadroomIsLeft
  <2>2. CASE pc'[o] # "copying"
    <3>1. /\ UNCHANGED <<size, hasSub, unbacked>>
          /\ temp'[o] + copy'[o] + OwedAt(o)' <= temp[o] + copy[o] + OwedAt(o)
      BY <1>0, <1>a, <1>b, <2>2 DEF OwedAt, Writing, FileTypes
    <3> QED
      BY <1>1, <1>3, <3>1, QuietDisk
  <2> QED
    BY <2>1, <2>2
<1> QED
  BY <1>1, <1>2, <1>3, <1>4, <1>5, <1>6, OpKeeps

\* A folder is made: one unit of what was reserved becomes owned.
LEMMA MakeFolderStep ==
  ASSUME UserFilesInv, NEW o \in Ops, MakeFolder(o)
  PROVE  UserFilesInv'
<1> DEFINE u == UserOf[o]
<1>0. FileTypes /\ PlaceOf(o) /\ HoldsOf(o) /\ UserInv(u) /\ u \in Users /\ o # NoOp
  BY AdmissionAssumption DEF UserFilesInv
<1>b. OwedAt(o) \in Nat
  BY <1>0, OwedIsReserved
<1>o. /\ FirstDirectory(u) \in Nat /\ SecondDirectory(u) \in Nat
      /\ Owned(u) = FirstDirectory(u) + SecondDirectory(u)
      /\ Owned(u)' = FirstDirectory(u)' + SecondDirectory(u)'
  BY <1>0, OwnedIsNat DEF Owned
<1>a. /\ pc[o] = "check" /\ kind[o] = "folder" /\ pc' = [pc EXCEPT ![o] = "unlock"]
      /\ \/ /\ hasSub' = [hasSub EXCEPT ![u] = TRUE]
            /\ unbacked' = unbacked + (IF physical[o] = 0 THEN 1 ELSE 0)
         \/ UNCHANGED <<hasSub, unbacked>>
      /\ UNCHANGED <<policy, reservedByUser, quotaGate, limitSeen, scanned, quota,
                     reservedTotal, physical, kind, dir, lock, copy, freeSlots, cancelled,
                     leftover, disturbances, ceiling, leaked, size, temp, hidden>>
  BY <1>0 DEF MakeFolder, Goto, LockedUnchanged, admissionVars
<1>v. FirstDirectory(u)' = FirstDirectory(u) /\ SecondDirectory(u)' \in Nat
      /\ SecondDirectory(u)' <= SecondDirectory(u) + 1
      /\ (hasSub' = hasSub => SecondDirectory(u)' = SecondDirectory(u))
  BY <1>0, <1>a, Numbers DEF FirstDirectory, SecondDirectory, FileTypes, Dirs
<1>w. /\ {FirstDirectory(u), Owned(u), FirstDirectory(u)', Owned(u)'} \subseteq Nat
      /\ FirstDirectory(u)' = FirstDirectory(u) /\ Owned(u)' <= Owned(u) + 1
      /\ (hasSub' = hasSub => Owned(u)' = Owned(u))
  <2> HIDE DEF u
  <2> QED
    BY <1>o, <1>v
<1>1. FileTypes'
  <2>1. pc' \in [Ops -> Steps]
    BY <1>0, <1>a DEF FileTypes, Steps
  <2>2. unbacked \in Nat
    BY <1>0 DEF FileTypes
  <2>3. unbacked' \in Nat
    BY <1>a, <2>2
  <2>4. hasSub' \in [Users -> BOOLEAN]
    BY <1>0, <1>a DEF FileTypes
  <2> QED
    BY <1>0, <1>a, <2>1, <2>3, <2>4 DEF FileTypes
<1>2. Only(o)
  <2>1. lock[u] = o
    BY <1>0, <1>a DEF PlaceOf, Locked, Streaming
  <2>2. /\ \A p \in Ops \ {o} : pc'[p] = pc[p] /\ temp'[p] = temp[p]
        /\ \A v \in Users \ {u} : size'[v] = size[v] /\ hasSub'[v] = hasSub[v] /\ hidden'[v] = hidden[v]
    BY <1>0, <1>a DEF FileTypes
  <2> QED
    BY <1>a, <2>1, <2>2 DEF Only
<1>3. PlaceOf(o)' /\ HoldsOf(o)'
  BY <1>0, <1>a, Numbers DEF PlaceOf, HoldsOf, Locked, Streaming, Writing, Unwritten, Writers,
     Readers, FileTypes, SnapshotUnits
<1>4. AccountsKept(o)
  BY <1>0, <1>a DEF AccountsKept, SlotAt, Holding, FileTypes, HoldsOf
<1>5. QuotaKept(o)
  <2>1. PendAt(o) \in Nat /\ PendAt(o)' = 0 /\ quota'[o] = quota[o] /\ quota[o] \in Nat
        /\ (ceiling[u] # Unlimited => PendAt(o) = 1)
    BY <1>0, <1>a DEF PendAt, Unwritten, Writing, FileTypes, HoldsOf, Writers
  <2>2. hidden[u] \in Nat /\ hidden'[u] \in Nat /\ UNCHANGED <<quotaGate, scanned>>
    BY <1>0, <1>1, <1>a DEF FileTypes
  <2>3. hidden' = hidden
    BY <1>0, <1>a DEF FileTypes, HoldsOf, Writers
  <2> HIDE DEF u
  <2> QED
    BY <1>w, <2>1, <2>2, <2>3 DEF QuotaKept, u
<1>6. DiskKept(o)
  <2>1. /\ temp[o] \in Nat /\ temp'[o] \in Nat /\ copy[o] \in Nat /\ copy' = copy
        /\ unbacked \in Nat /\ unbacked' \in Nat /\ physical[o] \in Nat
    BY <1>0, <1>a, <1>1, Numbers DEF FileTypes
  <2>2. OwedAt(o)' = 0
    BY <1>0, <1>a DEF OwedAt, Writing, FileTypes
  <2>3. /\ temp' = temp
        /\ \/ hasSub' = hasSub /\ unbacked' = unbacked
           \/ physical[o] = 0 /\ unbacked' = unbacked + 1
           \/ unbacked' = unbacked /\ OwedAt(o) = physical[o] /\ physical[o] # 0
    BY <1>0, <1>a DEF FileTypes, HoldsOf, Streaming, OwedAt, Writing
  <2> HIDE DEF u
  <2> QED
    BY <1>w, <1>b, <2>1, <2>2, <2>3 DEF DiskKept, u
<1> QED
  BY <1>1, <1>2, <1>3, <1>4, <1>5, <1>6, OpKeeps

\* A file moves: a scan on its way may miss it, and hidden counts that.
LEMMA MoveStep ==
  ASSUME UserFilesInv, NEW o \in Ops, Move(o)
  PROVE  UserFilesInv'
<1> DEFINE u == UserOf[o]
<1>0. FileTypes /\ PlaceOf(o) /\ HoldsOf(o) /\ UserInv(u) /\ u \in Users /\ o # NoOp
  BY AdmissionAssumption DEF UserFilesInv
<1>b. OwedAt(o) \in Nat
  BY <1>0, OwedIsReserved
<1>o. /\ FirstDirectory(u) \in Nat /\ SecondDirectory(u) \in Nat
      /\ Owned(u) = FirstDirectory(u) + SecondDirectory(u)
      /\ Owned(u)' = FirstDirectory(u)' + SecondDirectory(u)'
  BY <1>0, OwnedIsNat DEF Owned
<1>a. /\ pc[o] = "check" /\ kind[o] = "move" /\ pc' = [pc EXCEPT ![o] = "unlock"]
      /\ \/ /\ size[u][OtherDir(dir[o])] = 0 /\ size[u][dir[o]] > 0
            /\ size' = [size EXCEPT ![u] = [[size[u] EXCEPT ![OtherDir(dir[o])] = size[u][dir[o]]]
                                              EXCEPT ![dir[o]] = 0]]
            /\ hidden' = [hidden EXCEPT ![u] =
                 hidden[u] + (IF OtherDir(dir[o]) = "root" /\ BeingScanned(u) THEN size[u][dir[o]] ELSE 0)]
         \/ UNCHANGED <<size, hidden>>
      /\ UNCHANGED <<policy, reservedByUser, quotaGate, limitSeen, scanned, quota,
                     reservedTotal, physical, kind, dir, lock, copy, freeSlots, cancelled,
                     leftover, disturbances, ceiling, leaked, hasSub, temp, unbacked>>
  BY <1>0 DEF Move, Goto, LockedUnchanged, admissionVars, DirExists
<1>v. /\ FirstDirectory(u)' \in Nat /\ SecondDirectory(u)' \in Nat
      /\ Owned(u)' = Owned(u)
      /\ FirstDirectory(u)' + hidden[u] <= FirstDirectory(u) + hidden'[u] \/ quotaGate[u] = NoOp
      /\ hidden[u] <= hidden'[u]
  <2>1. CASE UNCHANGED <<size, hidden>>
    BY <1>0, <1>a, <1>o, <2>1 DEF FirstDirectory, SecondDirectory, Owned, FileTypes
  <2>2. CASE ~UNCHANGED <<size, hidden>>
    <3> DEFINE n == size[u][dir[o]]
    <3>1. n \in Nat
      BY <1>0, Numbers DEF FileTypes
    <3>2. /\ size[u][OtherDir(dir[o])] = 0 /\ hasSub' = hasSub
          /\ size' = [size EXCEPT ![u] = [[size[u] EXCEPT ![OtherDir(dir[o])] = n] EXCEPT ![dir[o]] = 0]]
          /\ hidden' = [hidden EXCEPT ![u] =
               hidden[u] + (IF OtherDir(dir[o]) = "root" /\ BeingScanned(u) THEN n ELSE 0)]
      BY <1>a, <2>2
    <3>3. hidden[u] \in Nat /\ hidden'[u] =
            hidden[u] + (IF OtherDir(dir[o]) = "root" /\ BeingScanned(u) THEN n ELSE 0)
      BY <1>0, <3>2 DEF FileTypes
    <3>4. CASE dir[o] = "root"
      <4>1. size'[u]["root"] = 0 /\ size'[u]["sub"] = n /\ size[u]["sub"] = 0 /\ size[u]["root"] = n
        BY <1>0, <3>2, <3>4 DEF FileTypes, Dirs, OtherDir
      <4>2. hidden'[u] = hidden[u]
        BY <3>3, <3>4 DEF OtherDir
      <4> HIDE DEF n, u
      <4> QED
        BY <1>o, <3>1, <3>2, <3>3, <4>1, <4>2 DEF FirstDirectory, SecondDirectory, Owned
    <3>5. CASE dir[o] = "sub"
      <4>1. size'[u]["root"] = n /\ size'[u]["sub"] = 0 /\ size[u]["sub"] = n /\ size[u]["root"] = 0
        BY <1>0, <3>2, <3>5 DEF FileTypes, Dirs, OtherDir
      <4>2. quotaGate[u] # NoOp => hidden'[u] = hidden[u] + n
        BY <3>3, <3>5 DEF OtherDir, BeingScanned
      <4>3. hidden[u] <= hidden'[u]
        BY <3>1, <3>3
      <4> HIDE DEF n, u
      <4> QED
        BY <1>o, <3>1, <3>2, <3>3, <4>1, <4>2, <4>3 DEF FirstDirectory, SecondDirectory, Owned
    <3> QED
      BY <1>0, <3>4, <3>5 DEF FileTypes, Dirs
  <2> QED
    BY <2>1, <2>2
<1>w. /\ {FirstDirectory(u), Owned(u), FirstDirectory(u)', Owned(u)'} \subseteq Nat
      /\ Owned(u)' = Owned(u)
      /\ FirstDirectory(u)' + hidden[u] <= FirstDirectory(u) + hidden'[u] \/ quotaGate[u] = NoOp
      /\ hidden[u] <= hidden'[u]
  <2> HIDE DEF u
  <2> QED
    BY <1>o, <1>v
<1>1. FileTypes'
  <2>1. pc' \in [Ops -> Steps]
    BY <1>0, <1>a DEF FileTypes, Steps
  <2>2. size' \in [Users -> [Dirs -> 0..MaxUpload]]
    <3>1. size[u][dir[o]] \in 0..MaxUpload
      BY <1>0 DEF FileTypes
    <3> DEFINE f == [size[u] EXCEPT ![OtherDir(dir[o])] = size[u][dir[o]]]
               h == [f EXCEPT ![dir[o]] = 0]
    <3>2. f \in [Dirs -> 0..MaxUpload]
      BY <1>0, <3>1 DEF FileTypes
    <3>3. 0 \in 0..MaxUpload
      BY Numbers
    <3> HIDE DEF f
    <3>4. h \in [Dirs -> 0..MaxUpload]
      BY <3>2, <3>3
    <3>5. size' = size \/ size' = [size EXCEPT ![u] = h]
      BY <1>a DEF f
    <3>6. size \in [Users -> [Dirs -> 0..MaxUpload]]
      BY <1>0 DEF FileTypes
    <3> HIDE DEF h
    <3> QED
      BY <3>4, <3>5, <3>6
  <2>3. hidden' \in [Users -> Nat]
    <3>1. size[u][dir[o]] \in Nat
      BY <1>0, Numbers DEF FileTypes
    <3> DEFINE k == IF OtherDir(dir[o]) = "root" /\ BeingScanned(u) THEN size[u][dir[o]] ELSE 0
    <3>2. k \in Nat
      BY <3>1
    <3> HIDE DEF k
    <3>3. hidden \in [Users -> Nat] /\ hidden[u] + k \in Nat
      BY <1>0, <3>2 DEF FileTypes
    <3>4. hidden' = hidden \/ hidden' = [hidden EXCEPT ![u] = hidden[u] + k]
      BY <1>a DEF k
    <3> QED
      BY <3>3, <3>4
  <2> QED
    BY <1>0, <1>a, <2>1, <2>2, <2>3 DEF FileTypes
<1>2. Only(o)
  <2>1. lock[u] = o
    BY <1>0, <1>a DEF PlaceOf, Locked, Streaming
  <2>2. /\ \A p \in Ops \ {o} : pc'[p] = pc[p] /\ temp'[p] = temp[p]
        /\ \A v \in Users \ {u} : size'[v] = size[v] /\ hasSub'[v] = hasSub[v] /\ hidden'[v] = hidden[v]
    BY <1>0, <1>a DEF FileTypes
  <2> QED
    BY <1>a, <2>1, <2>2 DEF Only
<1>3. PlaceOf(o)' /\ HoldsOf(o)'
  BY <1>0, <1>a, Numbers DEF PlaceOf, HoldsOf, Locked, Streaming, Writing, Unwritten, Writers,
     Readers, FileTypes, SnapshotUnits
<1>4. AccountsKept(o)
  BY <1>0, <1>a DEF AccountsKept, SlotAt, Holding, FileTypes, HoldsOf
<1>5. QuotaKept(o)
  <2>1. PendAt(o) \in Nat /\ PendAt(o)' = 0 /\ quota'[o] = quota[o] /\ quota[o] \in Nat
    BY <1>0, <1>a DEF PendAt, Unwritten, Writing, FileTypes, HoldsOf, Writers
  <2>2. hidden[u] \in Nat /\ hidden'[u] \in Nat /\ UNCHANGED <<quotaGate, scanned>>
    BY <1>0, <1>1, <1>a DEF FileTypes
  <2>3. quota[o] = 0
    BY <1>0, <1>a DEF FileTypes, HoldsOf, Writers
  <2> HIDE DEF u
  <2> QED
    BY <1>w, <2>1, <2>2, <2>3 DEF QuotaKept, u
<1>6. DiskKept(o)
  <2>1. /\ temp[o] \in Nat /\ temp'[o] \in Nat /\ copy[o] \in Nat /\ copy' = copy
        /\ unbacked \in Nat /\ unbacked' \in Nat /\ physical[o] \in Nat
    BY <1>0, <1>a, <1>1, Numbers DEF FileTypes
  <2>2. OwedAt(o)' = 0
    BY <1>0, <1>a DEF OwedAt, Writing, FileTypes
  <2>3. unbacked' = unbacked /\ temp' = temp
    BY <1>0, <1>a DEF FileTypes, HoldsOf, Streaming, Writing
  <2> HIDE DEF u
  <2> QED
    BY <1>w, <1>b, <2>1, <2>2, <2>3 DEF DiskKept, u
<1> QED
  BY <1>1, <1>2, <1>3, <1>4, <1>5, <1>6, OpKeeps

\* A file, or the folder with its file, goes.
LEMMA DeleteFileStep ==
  ASSUME UserFilesInv, NEW o \in Ops, DeleteFile(o)
  PROVE  UserFilesInv'
<1> DEFINE u == UserOf[o]
<1>0. FileTypes /\ PlaceOf(o) /\ HoldsOf(o) /\ UserInv(u) /\ u \in Users /\ o # NoOp
  BY AdmissionAssumption DEF UserFilesInv
<1>b. OwedAt(o) \in Nat
  BY <1>0, OwedIsReserved
<1>o. /\ FirstDirectory(u) \in Nat /\ SecondDirectory(u) \in Nat
      /\ Owned(u) = FirstDirectory(u) + SecondDirectory(u)
      /\ Owned(u)' = FirstDirectory(u)' + SecondDirectory(u)'
  BY <1>0, OwnedIsNat DEF Owned
<1>a. /\ pc[o] = "check" /\ kind[o] = "delete" /\ pc' = [pc EXCEPT ![o] = "unlock"]
      /\ \/ /\ size' = [size EXCEPT ![u] = [size[u] EXCEPT ![dir[o]] = 0]] /\ hasSub' = hasSub
         \/ /\ size' = [size EXCEPT ![u] = [size[u] EXCEPT !["sub"] = 0]]
            /\ hasSub' = [hasSub EXCEPT ![u] = FALSE]
         \/ UNCHANGED <<size, hasSub>>
      /\ UNCHANGED <<policy, reservedByUser, quotaGate, limitSeen, scanned, quota,
                     reservedTotal, physical, kind, dir, lock, copy, freeSlots, cancelled,
                     leftover, disturbances, ceiling, leaked, temp, hidden, unbacked>>
  BY <1>0 DEF DeleteFile, Goto, LockedUnchanged, admissionVars
<1>v. FirstDirectory(u)' \in Nat /\ SecondDirectory(u)' \in Nat
      /\ FirstDirectory(u)' <= FirstDirectory(u) /\ SecondDirectory(u)' <= SecondDirectory(u)
  BY <1>0, <1>a, Numbers DEF FirstDirectory, SecondDirectory, FileTypes, Dirs
<1>w. /\ {FirstDirectory(u), Owned(u), FirstDirectory(u)', Owned(u)'} \subseteq Nat
      /\ FirstDirectory(u)' <= FirstDirectory(u) /\ Owned(u)' <= Owned(u)
  <2> HIDE DEF u
  <2> QED
    BY <1>o, <1>v
<1>1. FileTypes'
  <2>1. pc' \in [Ops -> Steps]
    BY <1>0, <1>a DEF FileTypes, Steps
  <2>2. size' \in [Users -> [Dirs -> 0..MaxUpload]]
    <3>1. [size[u] EXCEPT ![dir[o]] = 0] \in [Dirs -> 0..MaxUpload]
      BY <1>0, Numbers DEF FileTypes
    <3>2. [size[u] EXCEPT !["sub"] = 0] \in [Dirs -> 0..MaxUpload]
      BY <1>0, Numbers DEF FileTypes, Dirs
    <3> QED
      BY <1>0, <1>a, <3>1, <3>2 DEF FileTypes
  <2>3. hasSub' \in [Users -> BOOLEAN]
    BY <1>0, <1>a, Numbers DEF FileTypes
  <2> QED
    BY <1>0, <1>a, <2>1, <2>2, <2>3 DEF FileTypes
<1>2. Only(o)
  <2>1. lock[u] = o
    BY <1>0, <1>a DEF PlaceOf, Locked, Streaming
  <2>2. /\ \A p \in Ops \ {o} : pc'[p] = pc[p] /\ temp'[p] = temp[p]
        /\ \A v \in Users \ {u} : size'[v] = size[v] /\ hasSub'[v] = hasSub[v] /\ hidden'[v] = hidden[v]
    BY <1>0, <1>a DEF FileTypes
  <2> QED
    BY <1>a, <2>1, <2>2 DEF Only
<1>3. PlaceOf(o)' /\ HoldsOf(o)'
  BY <1>0, <1>a, Numbers DEF PlaceOf, HoldsOf, Locked, Streaming, Writing, Unwritten, Writers,
     Readers, FileTypes, SnapshotUnits
<1>4. AccountsKept(o)
  BY <1>0, <1>a DEF AccountsKept, SlotAt, Holding, FileTypes, HoldsOf
<1>5. QuotaKept(o)
  <2>1. PendAt(o) \in Nat /\ PendAt(o)' = 0 /\ quota'[o] = quota[o] /\ quota[o] \in Nat
    BY <1>0, <1>a DEF PendAt, Unwritten, Writing, FileTypes, HoldsOf, Writers
  <2>2. hidden[u] \in Nat /\ hidden'[u] \in Nat /\ UNCHANGED <<quotaGate, scanned>>
    BY <1>0, <1>1, <1>a DEF FileTypes
  <2>3. quota[o] = 0 /\ hidden' = hidden
    BY <1>0, <1>a DEF FileTypes, HoldsOf, Writers
  <2> HIDE DEF u
  <2> QED
    BY <1>w, <2>1, <2>2, <2>3 DEF QuotaKept, u
<1>6. DiskKept(o)
  <2>1. /\ temp[o] \in Nat /\ temp'[o] \in Nat /\ copy[o] \in Nat /\ copy' = copy
        /\ unbacked \in Nat /\ unbacked' \in Nat /\ physical[o] \in Nat
    BY <1>0, <1>a, <1>1, Numbers DEF FileTypes
  <2>2. OwedAt(o)' = 0
    BY <1>0, <1>a DEF OwedAt, Writing, FileTypes
  <2>3. unbacked' = unbacked /\ temp' = temp
    BY <1>0, <1>a DEF FileTypes, HoldsOf, Streaming, Writing
  <2> HIDE DEF u
  <2> QED
    BY <1>w, <1>b, <2>1, <2>2, <2>3 DEF DiskKept, u
<1> QED
  BY <1>1, <1>2, <1>3, <1>4, <1>5, <1>6, OpKeeps

\* The temporary file becomes the file of the user.
LEMMA PublishStep ==
  ASSUME UserFilesInv, NEW o \in Ops, Publish(o)
  PROVE  UserFilesInv'
<1> DEFINE u == UserOf[o]
<1>0. FileTypes /\ PlaceOf(o) /\ HoldsOf(o) /\ UserInv(u) /\ u \in Users /\ o # NoOp
  BY AdmissionAssumption DEF UserFilesInv
<1>b. OwedAt(o) \in Nat
  BY <1>0, OwedIsReserved
<1>o. /\ FirstDirectory(u) \in Nat /\ SecondDirectory(u) \in Nat
      /\ Owned(u) = FirstDirectory(u) + SecondDirectory(u)
      /\ Owned(u)' = FirstDirectory(u)' + SecondDirectory(u)'
  BY <1>0, OwnedIsNat DEF Owned
<1>a. /\ pc[o] = "publish" /\ pc' = [pc EXCEPT ![o] = "cleanup"]
      /\ \/ /\ size[u][dir[o]] = 0
            /\ size' = [size EXCEPT ![u] = [size[u] EXCEPT ![dir[o]] = temp[o]]]
            /\ temp' = [temp EXCEPT ![o] = 0]
         \/ UNCHANGED <<size, temp>>
      /\ UNCHANGED <<policy, reservedByUser, quotaGate, limitSeen, scanned, quota,
                     reservedTotal, physical, kind, dir, lock, copy, freeSlots, cancelled,
                     leftover, disturbances, ceiling, leaked, hasSub, hidden, unbacked>>
  BY <1>0 DEF Publish, Goto, LockedUnchanged, admissionVars
<1>v. FirstDirectory(u)' \in Nat /\ SecondDirectory(u)' \in Nat
      /\ temp[o] \in Nat /\ temp'[o] \in Nat
      /\ FirstDirectory(u)' <= FirstDirectory(u) + temp[o]
      /\ FirstDirectory(u)' + SecondDirectory(u)' + temp'[o] <= FirstDirectory(u) + SecondDirectory(u) + temp[o]
  BY <1>0, <1>a, Numbers DEF FirstDirectory, SecondDirectory, FileTypes, Dirs
<1>w. /\ {FirstDirectory(u), Owned(u), FirstDirectory(u)', Owned(u)'} \subseteq Nat
      /\ FirstDirectory(u)' <= FirstDirectory(u) + temp[o] /\ Owned(u)' <= Owned(u) + temp[o]
      /\ Owned(u)' + temp'[o] <= Owned(u) + temp[o] /\ temp[o] \in Nat /\ temp'[o] \in Nat
  <2> HIDE DEF u
  <2> QED
    BY <1>o, <1>v
<1>1. FileTypes'
  <2>1. pc' \in [Ops -> Steps]
    BY <1>0, <1>a DEF FileTypes, Steps
  <2>2. size' \in [Users -> [Dirs -> 0..MaxUpload]]
    <3>1. [size[u] EXCEPT ![dir[o]] = temp[o]] \in [Dirs -> 0..MaxUpload]
      BY <1>0 DEF FileTypes
    <3> QED
      BY <1>0, <1>a, <3>1 DEF FileTypes
  <2>3. temp' \in [Ops -> 0..MaxUpload]
    BY <1>0, <1>a, Numbers DEF FileTypes
  <2> QED
    BY <1>0, <1>a, <2>1, <2>2, <2>3 DEF FileTypes
<1>2. Only(o)
  <2>1. lock[u] = o
    BY <1>0, <1>a DEF PlaceOf, Locked, Streaming
  <2>2. /\ \A p \in Ops \ {o} : pc'[p] = pc[p] /\ temp'[p] = temp[p]
        /\ \A v \in Users \ {u} : size'[v] = size[v] /\ hasSub'[v] = hasSub[v] /\ hidden'[v] = hidden[v]
    BY <1>0, <1>a DEF FileTypes
  <2> QED
    BY <1>a, <2>1, <2>2 DEF Only
<1>3. PlaceOf(o)' /\ HoldsOf(o)'
  BY <1>0, <1>a, Numbers DEF PlaceOf, HoldsOf, Locked, Streaming, Writing, Unwritten, Writers,
     Readers, FileTypes, SnapshotUnits
<1>4. AccountsKept(o)
  BY <1>0, <1>a DEF AccountsKept, SlotAt, Holding, FileTypes, HoldsOf
<1>5. QuotaKept(o)
  <2>1. PendAt(o) \in Nat /\ PendAt(o)' = 0 /\ quota'[o] = quota[o] /\ quota[o] \in Nat
        /\ (ceiling[u] # Unlimited => PendAt(o) = temp[o])
    BY <1>0, <1>a DEF PendAt, Unwritten, Writing, FileTypes, HoldsOf, Writers
  <2>2. hidden[u] \in Nat /\ hidden'[u] \in Nat /\ UNCHANGED <<quotaGate, scanned>>
    BY <1>0, <1>1, <1>a DEF FileTypes
  <2>3. hidden' = hidden
    BY <1>0, <1>a DEF FileTypes, HoldsOf, Writers
  <2> HIDE DEF u
  <2> QED
    BY <1>w, <2>1, <2>2, <2>3 DEF QuotaKept, u
<1>6. DiskKept(o)
  <2>1. /\ temp[o] \in Nat /\ temp'[o] \in Nat /\ copy[o] \in Nat /\ copy' = copy
        /\ unbacked \in Nat /\ unbacked' \in Nat /\ physical[o] \in Nat
    BY <1>0, <1>a, <1>1, Numbers DEF FileTypes
  <2>2. OwedAt(o)' = 0
    BY <1>0, <1>a DEF OwedAt, Writing, FileTypes
  <2>3. unbacked' = unbacked
    BY <1>0, <1>a DEF FileTypes, HoldsOf, Streaming, Writing
  <2> HIDE DEF u
  <2> QED
    BY <1>w, <1>b, <2>1, <2>2, <2>3 DEF DiskKept, u
<1> QED
  BY <1>1, <1>2, <1>3, <1>4, <1>5, <1>6, OpKeeps

-----------------------------------------------------------------------------
(* The administrator, the process and the theorems.                        *)

\* No sum is about what the administrator changes.
LEMMA ChangePolicyStep ==
  ASSUME UserFilesInv, NEW u \in Users, ChangePolicy(u)
  PROVE  UserFilesInv'
<1>0. /\ FileTypes /\ DiskInv /\ \A o \in Ops : PlaceOf(o) /\ HoldsOf(o)
      /\ \A v \in Users : UserInv(v)
  BY DEF UserFilesInv
<1>1. PICK p \in Policies : /\ policy' = [policy EXCEPT ![u] = p]
                            /\ ceiling' = [ceiling EXCEPT ![u] = Larger(ceiling[u], p)]
  BY DEF ChangePolicy
<1>2. UNCHANGED <<reservedByUser, quotaGate, limitSeen, scanned, quota,
                  reservedTotal, physical, pc, kind, dir, size, hasSub, lock, temp,
                  copy, freeSlots, cancelled, leftover, hidden, leaked, unbacked>>
  BY DEF ChangePolicy
<1>3. p \in Nat \cup {Unlimited} /\ ceiling[u] \in Nat \cup {Unlimited}
  BY <1>0, UserFilesAssumption DEF FileTypes
<1>4. Larger(ceiling[u], p) \in Nat \cup {Unlimited}
  BY <1>3 DEF Larger
<1>5. FileTypes'
  <2>1. policy' \in [Users -> Nat \cup {Unlimited}] /\ policy' \in [Users -> Policies]
    BY <1>0, <1>1, <1>3 DEF FileTypes
  <2>2. ceiling' \in [Users -> Nat \cup {Unlimited}]
    BY <1>0, <1>1, <1>4 DEF FileTypes
  <2> QED
    BY <1>0, <1>2, <2>1, <2>2 DEF FileTypes
<1>6. ASSUME NEW v \in Users, ceiling'[v] # Unlimited
      PROVE  /\ ceiling[v] # Unlimited /\ ceiling[v] \in Nat /\ ceiling'[v] \in Nat
             /\ ceiling[v] <= ceiling'[v]
             /\ policy'[v] \in Nat \/ v # u
             /\ policy'[v] <= ceiling'[v] \/ v # u
             /\ v # u => policy'[v] = policy[v]
  <2>1. CASE v # u
    BY <1>0, <1>1, <1>6, <2>1 DEF FileTypes
  <2>2. CASE v = u
    <3>1. ceiling'[u] = Larger(ceiling[u], p) /\ policy'[u] = p
      BY <1>0, <1>1 DEF FileTypes
    <3> QED
      BY <1>3, <1>6, <2>2, <3>1, Numbers DEF Larger
  <2> QED
    BY <2>1, <2>2
<1>7. ASSUME NEW o \in Ops
      PROVE  PlaceOf(o)' /\ HoldsOf(o)'
  <2>1. UserOf[o] \in Users /\ PlaceOf(o) /\ HoldsOf(o)
    BY <1>0, AdmissionAssumption
  <2>2. PlaceOf(o)'
    BY <1>2, <1>6, <2>1 DEF PlaceOf, Locked
  <2>3. HoldsOf(o)'
    BY <1>2, <1>6, <2>1 DEF HoldsOf, SnapshotUnits
  <2> QED
    BY <2>2, <2>3
<1>8. /\ QuotaOf(u)' = QuotaOf(u) /\ PendOf(u)' = PendOf(u) /\ Owned(u)' = Owned(u)
  BY <1>2 DEF QuotaOf, PendOf, Pend, PendAt, Owned, FirstDirectory, SecondDirectory
<1>9. ASSUME NEW v \in Users
      PROVE  UserInv(v)'
  <2>1. /\ QuotaOf(v)' = QuotaOf(v) /\ PendOf(v)' = PendOf(v) /\ Owned(v)' = Owned(v)
        /\ FirstDirectory(v)' = FirstDirectory(v) /\ Pend' = Pend
    BY <1>2 DEF QuotaOf, PendOf, Pend, PendAt, Owned, FirstDirectory, SecondDirectory
  <2>2. UserInv(v) /\ hidden[v] \in Nat /\ Owned(v) \in Nat
    BY <1>0, OwnedIsNat DEF FileTypes
  <2>3. PendOf(v) \in Nat
    BY <2>2, FS_CardinalityType DEF UserInv, PendOf, Sum
  <2>4. ASSUME ceiling'[v] # Unlimited
        PROVE  /\ policy'[v] \in Nat /\ policy'[v] <= ceiling'[v]
               /\ Owned(v) + PendOf(v) <= ceiling'[v] + hidden[v]
               /\ quotaGate[v] # NoOp =>
                    FirstDirectory(v) + PendOf(v) <= scanned[quotaGate[v]] + QuotaOf(v) + hidden[v]
    <3>1. /\ ceiling[v] # Unlimited /\ ceiling[v] \in Nat /\ ceiling'[v] \in Nat
          /\ ceiling[v] <= ceiling'[v]
          /\ policy'[v] \in Nat \/ v # u
          /\ policy'[v] <= ceiling'[v] \/ v # u
          /\ v # u => policy'[v] = policy[v]
      BY <1>6, <2>4
    <3>2. /\ policy[v] \in Nat /\ policy[v] <= ceiling[v]
          /\ Owned(v) + PendOf(v) <= ceiling[v] + hidden[v]
          /\ quotaGate[v] # NoOp =>
               FirstDirectory(v) + PendOf(v) <= scanned[quotaGate[v]] + QuotaOf(v) + hidden[v]
      BY <2>2, <3>1 DEF UserInv
    <3> QED
      BY <2>2, <2>3, <3>1, <3>2
  <2> QED
    BY <1>2, <2>1, <2>2, <2>4 DEF UserInv
<1>10. DiskInv'
  <2>1. UNCHANGED <<OwnedBy, Owed, Slots>>
    BY <1>2 DEF OwnedBy, Owned, FirstDirectory, SecondDirectory, Owed, OwedAt, Slots, SlotAt,
       Holding
  <2> QED
    BY <1>0, <1>2, <2>1 DEF DiskInv, AllOwned, AllPhysical, AllTemp, AllCopy, AllOwed, AllSlots
<1> QED
  BY <1>5, <1>7, <1>9, <1>10 DEF UserFilesInv

\* The next process removes what was left.
LEMMA ReconcileStep ==
  ASSUME UserFilesInv, Reconcile
  PROVE  UserFilesInv'
<1>0. /\ FileTypes /\ DiskInv /\ \A o \in Ops : PlaceOf(o) /\ HoldsOf(o)
      /\ \A u \in Users : UserInv(u)
  BY DEF UserFilesInv
<1>1. /\ leftover' = 0
      /\ UNCHANGED <<admissionVars, pc, kind, dir, size, hasSub, lock, temp, copy,
                     freeSlots, cancelled, ceiling, hidden, leaked, unbacked>>
  BY DEF Reconcile
<1>2. FileTypes'
  BY <1>0, <1>1 DEF FileTypes, admissionVars
<1>3. \A o \in Ops : PlaceOf(o)' /\ HoldsOf(o)'
  BY <1>0, <1>1 DEF PlaceOf, Locked, HoldsOf, SnapshotUnits, admissionVars
<1>4. \A u \in Users : UserInv(u)'
  <2>1. Pend' = Pend
    BY <1>1 DEF Pend, PendAt, admissionVars
  <2> QED
    BY <1>0, <1>1, <2>1 DEF UserInv, QuotaOf, PendOf, Owned, FirstDirectory, SecondDirectory,
       admissionVars
<1>5. DiskInv'
  <2>1. UNCHANGED <<OwnedBy, Owed, Slots>>
    BY <1>1 DEF OwnedBy, Owned, FirstDirectory, SecondDirectory, Owed, OwedAt, Slots, SlotAt,
       Holding, admissionVars
  <2>2. /\ AllOwned' = AllOwned /\ AllTemp' = AllTemp /\ AllCopy' = AllCopy /\ AllOwed' = AllOwed
        /\ AllPhysical' = AllPhysical /\ AllSlots' = AllSlots
    BY <1>1, <2>1 DEF AllOwned, AllPhysical, AllTemp, AllCopy, AllOwed, AllSlots, admissionVars
  <2>3. /\ {AllOwned, AllTemp, AllCopy, AllOwed} \subseteq Nat
        /\ leftover \in Nat /\ unbacked \in Nat /\ unbacked' = unbacked
    BY <1>0, <1>1, FS_CardinalityType DEF DiskInv, FileTypes, AllOwned, AllTemp, AllCopy,
       AllOwed, Sum
  <2>4. AllOwned' + AllTemp' + AllCopy' + AllOwed' + leftover' + MinFree <= Disk + unbacked'
    BY <1>0, <1>1, <2>2, <2>3, Numbers DEF DiskInv
  <2> QED
    BY <1>0, <1>1, <2>1, <2>2, <2>4 DEF DiskInv, admissionVars
<1> QED
  BY <1>2, <1>3, <1>4, <1>5 DEF UserFilesInv

\* Every reservation of an ended process is gone; what it wrote is left over.
LEMMA ProcessCrashesStep ==
  ASSUME UserFilesInv, ProcessCrashes
  PROVE  UserFilesInv'
<1>0. /\ FileTypes /\ DiskInv /\ \A o \in Ops : PlaceOf(o) /\ HoldsOf(o)
      /\ \A u \in Users : UserInv(u)
  BY DEF UserFilesInv
<1>1. /\ reservedByUser' = [u \in Users |-> 0] /\ quotaGate' = [u \in Users |-> NoOp]
      /\ limitSeen' = [o \in Ops |-> Unlimited] /\ scanned' = [o \in Ops |-> 0]
      /\ quota' = [o \in Ops |-> 0] /\ physical' = [o \in Ops |-> 0]
      /\ reservedTotal' = 0 /\ policy' = policy
      /\ leftover' = leftover + AllTemp + AllCopy
      /\ pc' = [o \in Ops |-> IF pc[o] = "idle" THEN "idle" ELSE "done"]
      /\ lock' = [u \in Users |-> NoOp]
      /\ temp' = [o \in Ops |-> 0] /\ copy' = [o \in Ops |-> 0]
      /\ freeSlots' = MaxSnapshots /\ cancelled' = {} /\ leaked' = [u \in Users |-> 0]
      /\ UNCHANGED <<kind, dir, size, hasSub, ceiling, hidden, unbacked>>
  BY DEF ProcessCrashes, ForgetReservations, AllTemp, AllCopy
<1>2. {AllOwned, AllTemp, AllCopy, AllOwed} \subseteq Nat /\ leftover \in Nat /\ unbacked \in Nat
  BY <1>0, FS_CardinalityType DEF DiskInv, FileTypes, AllOwned, AllTemp, AllCopy, AllOwed, Sum
<1>3. FileTypes'
  <2>1. pc' \in [Ops -> Steps]
    BY <1>1 DEF Steps
  <2>2. leftover' \in Nat
    BY <1>1, <1>2
  <2>3. temp' \in [Ops -> 0..MaxUpload] /\ copy' \in [Ops -> 0..MaxUpload]
    BY <1>1, Numbers
  <2>4. freeSlots' \in Nat /\ cancelled' \subseteq Ops /\ reservedTotal' \in Nat
    BY <1>1, Numbers
  <2>5. /\ reservedByUser' \in [Users -> Nat] /\ quotaGate' \in [Users -> Ops \cup {NoOp}]
        /\ lock' \in [Users -> Ops \cup {NoOp}] /\ leaked' \in [Users -> Nat]
        /\ limitSeen' \in [Ops -> Nat \cup {Unlimited}] /\ scanned' \in [Ops -> Nat]
        /\ quota' \in [Ops -> Nat] /\ physical' \in [Ops -> Nat]
    BY <1>1
  <2> QED
    BY <1>0, <1>1, <2>1, <2>2, <2>3, <2>4, <2>5 DEF FileTypes
<1>4. ASSUME NEW o \in Ops
      PROVE  PlaceOf(o)' /\ HoldsOf(o)'
  <2>1. /\ pc'[o] \in {"idle", "done"} /\ (pc'[o] = "idle" <=> pc[o] = "idle")
        /\ kind' = kind /\ o # NoOp /\ UserOf[o] \in Users
        /\ quota'[o] = 0 /\ physical'[o] = 0 /\ temp'[o] = 0 /\ copy'[o] = 0
        /\ lock'[UserOf[o]] = NoOp /\ quotaGate'[UserOf[o]] = NoOp
    BY <1>1, AdmissionAssumption
  <2>2. PlaceOf(o)'
    BY <1>0, <2>1 DEF PlaceOf, Locked, Streaming
  <2>3. HoldsOf(o)'
    BY <2>1 DEF HoldsOf, Writing, Unwritten
  <2> QED
    BY <2>2, <2>3
<1>5. ASSUME NEW u \in Users
      PROVE  UserInv(u)'
  <2>1. \A o \in OpsOf(u) : quota'[o] = 0 /\ Pend'[o] = 0
    BY <1>1 DEF OpsOf, Pend, PendAt
  <2>2. /\ IsFiniteSet(Units(quota', OpsOf(u))) /\ Sum(quota', OpsOf(u)) = 0
        /\ IsFiniteSet(Units(Pend', OpsOf(u))) /\ Sum(Pend', OpsOf(u)) = 0
    BY <2>1, SumOfNothing
  <2>3. /\ Owned(u)' = Owned(u) /\ Owned(u) \in Nat /\ UserInv(u)
        /\ hidden' = hidden /\ ceiling' = ceiling /\ policy' = policy
    BY <1>0, <1>1, OwnedIsNat DEF Owned, FirstDirectory, SecondDirectory
  <2>4. IsFiniteSet(Units(Pend, OpsOf(u)))
    BY <2>3 DEF UserInv
  <2>5. PendOf(u) \in Nat
    BY <2>4, FS_CardinalityType DEF PendOf, Sum
  <2>6. /\ reservedByUser'[u] = 0 /\ leaked'[u] = 0 /\ quotaGate'[u] = NoOp /\ lock'[u] = NoOp
        /\ QuotaOf(u)' = 0 /\ PendOf(u)' = 0
    BY <1>1, <2>2 DEF QuotaOf, PendOf
  <2>7. ceiling[u] # Unlimited => ceiling[u] \in Nat /\ hidden[u] \in Nat
    BY <1>0 DEF FileTypes
  <2> QED
    BY <2>2, <2>3, <2>5, <2>6, <2>7 DEF UserInv
<1>6. DiskInv'
  <2>1. \A o \in Ops : /\ physical'[o] = 0 /\ temp'[o] = 0 /\ copy'[o] = 0
                       /\ Owed'[o] = 0 /\ Slots'[o] = 0
    BY <1>1 DEF Owed, OwedAt, Slots, SlotAt, Holding, Writing
  <2>2. /\ IsFiniteSet(Units(physical', Ops)) /\ Sum(physical', Ops) = 0
        /\ IsFiniteSet(Units(temp', Ops)) /\ Sum(temp', Ops) = 0
        /\ IsFiniteSet(Units(copy', Ops)) /\ Sum(copy', Ops) = 0
        /\ IsFiniteSet(Units(Owed', Ops)) /\ Sum(Owed', Ops) = 0
        /\ IsFiniteSet(Units(Slots', Ops)) /\ Sum(Slots', Ops) = 0
    BY <2>1, SumOfNothing
  <2>3. OwnedBy' = OwnedBy
    BY <1>1 DEF OwnedBy, Owned, FirstDirectory, SecondDirectory
  <2>4. AllOwned' = AllOwned /\ IsFiniteSet(Units(OwnedBy, Users))'
    BY <1>0, <2>3 DEF AllOwned, DiskInv
  <2>5. AllPhysical' = 0 /\ AllTemp' = 0 /\ AllCopy' = 0 /\ AllOwed' = 0 /\ AllSlots' = 0
    BY <2>2 DEF AllPhysical, AllTemp, AllCopy, AllOwed, AllSlots
  <2>6. AllOwned' + AllTemp' + AllCopy' + AllOwed' + leftover' + MinFree <= Disk + unbacked'
    BY <1>0, <1>1, <1>2, <2>4, <2>5, Numbers DEF DiskInv
  <2> QED
    BY <1>1, <2>2, <2>4, <2>5, <2>6, Numbers DEF DiskInv
<1> QED
  BY <1>3, <1>4, <1>5, <1>6 DEF UserFilesInv

\* At first the disk has room for the folders that are there.
LEMMA InitUserFilesInv ==
  ASSUME FilesInit
  PROVE  UserFilesInv
<1>1. /\ reservedByUser = [u \in Users |-> 0] /\ quotaGate = [u \in Users |-> NoOp]
      /\ limitSeen = [o \in Ops |-> Unlimited] /\ scanned = [o \in Ops |-> 0]
      /\ quota = [o \in Ops |-> 0] /\ physical = [o \in Ops |-> 0]
      /\ reservedTotal = 0 /\ policy = FirstPolicy
      /\ pc = [o \in Ops |-> "idle"] /\ kind = [o \in Ops |-> "none"]
      /\ dir = [o \in Ops |-> "root"]
      /\ hasSub = [u \in Users |-> u \in HaveFolder]
      /\ lock = [u \in Users |-> NoOp]
      /\ temp = [o \in Ops |-> 0] /\ copy = [o \in Ops |-> 0]
      /\ freeSlots = MaxSnapshots /\ cancelled = {} /\ leftover = 0
      /\ ceiling = [u \in Users |-> Larger(policy[u], Owned(u))]
      /\ hidden = [u \in Users |-> 0] /\ leaked = [u \in Users |-> 0] /\ unbacked = 0
  BY DEF FilesInit, AdmissionInit
<1>2. PICK n \in 0..1 :
        size = [u \in Users |-> [d \in Dirs |-> IF d = "sub" /\ hasSub[u] THEN n ELSE 0]]
  BY DEF FilesInit
<1>3. ASSUME NEW u \in Users
      PROVE  /\ Owned(u) \in 0..2 /\ (u \notin HaveFolder => Owned(u) = 0)
  <2>1. /\ size[u]["root"] = 0 /\ hasSub[u] = (u \in HaveFolder)
        /\ size[u]["sub"] = (IF hasSub[u] THEN n ELSE 0)
    BY <1>1, <1>2 DEF Dirs
  <2>2. CASE u \in HaveFolder
    BY <1>2, <2>1, <2>2 DEF Owned, FirstDirectory, SecondDirectory
  <2>3. CASE u \notin HaveFolder
    <3>1. ~hasSub[u]
      BY <2>1, <2>3
    <3>2. size[u]["sub"] = 0
      BY <2>1, <3>1
    <3> QED
      BY <2>1, <2>3, <3>1, <3>2 DEF Owned, FirstDirectory, SecondDirectory
  <2> QED
    BY <2>2, <2>3
<1>4. policy \in [Users -> Policies] /\ policy \in [Users -> Nat \cup {Unlimited}]
  BY <1>1, UserFilesAssumption
<1>5. ASSUME NEW u \in Users
      PROVE  /\ ceiling[u] \in Nat \cup {Unlimited}
             /\ ceiling[u] # Unlimited =>
                  policy[u] \in Nat /\ policy[u] <= ceiling[u] /\ Owned(u) <= ceiling[u]
  <2>1. ceiling[u] = Larger(policy[u], Owned(u)) /\ policy[u] \in Nat \cup {Unlimited}
        /\ Owned(u) \in Nat
    BY <1>1, <1>3, <1>4
  <2> QED
    BY <2>1, Numbers DEF Larger
<1>6. FileTypes
  <2>1. size \in [Users -> [Dirs -> 0..MaxUpload]]
    <3>1. n \in 0..MaxUpload /\ 0 \in 0..MaxUpload
      BY Numbers
    <3>2. \A u \in Users : [d \in Dirs |-> IF d = "sub" /\ hasSub[u] THEN n ELSE 0] \in [Dirs -> 0..MaxUpload]
      BY <3>1
    <3> QED
      BY <1>2, <3>2
  <2>2. /\ hasSub \in [Users -> BOOLEAN]
    BY <1>1
  <2>3. ceiling \in [Users -> Nat \cup {Unlimited}]
    BY <1>1, <1>5
  <2>4. temp \in [Ops -> 0..MaxUpload] /\ copy \in [Ops -> 0..MaxUpload]
    BY <1>1, Numbers
  <2>5. pc \in [Ops -> Steps] /\ kind \in [Ops -> Writers \cup Readers \cup {"none", "move", "delete"}]
        /\ dir \in [Ops -> Dirs]
    BY <1>1 DEF Steps, Dirs
  <2>6. /\ reservedByUser \in [Users -> Nat] /\ quotaGate \in [Users -> Ops \cup {NoOp}]
        /\ lock \in [Users -> Ops \cup {NoOp}] /\ leaked \in [Users -> Nat] /\ hidden \in [Users -> Nat]
        /\ limitSeen \in [Ops -> Nat \cup {Unlimited}] /\ scanned \in [Ops -> Nat]
        /\ quota \in [Ops -> Nat] /\ physical \in [Ops -> Nat]
    BY <1>1
  <2>7. /\ reservedTotal \in Nat /\ leftover \in Nat /\ unbacked \in Nat /\ freeSlots \in Nat
        /\ cancelled \subseteq Ops
    BY <1>1, Numbers
  <2> QED
    BY <1>4, <2>1, <2>2, <2>3, <2>4, <2>5, <2>6, <2>7 DEF FileTypes
<1>7. ASSUME NEW o \in Ops
      PROVE  PlaceOf(o) /\ HoldsOf(o)
  <2>1. /\ pc[o] = "idle" /\ kind[o] = "none" /\ quota[o] = 0 /\ physical[o] = 0
        /\ temp[o] = 0 /\ copy[o] = 0 /\ o # NoOp
        /\ lock[UserOf[o]] = NoOp /\ quotaGate[UserOf[o]] = NoOp
    BY <1>1, AdmissionAssumption
  <2> QED
    BY <2>1 DEF PlaceOf, HoldsOf, Locked, Streaming, Writing, Unwritten
<1>8. ASSUME NEW u \in Users
      PROVE  UserInv(u)
  <2>1. \A o \in OpsOf(u) : quota[o] = 0 /\ Pend[o] = 0
    BY <1>1 DEF OpsOf, Pend, PendAt
  <2>2. /\ IsFiniteSet(Units(quota, OpsOf(u))) /\ Sum(quota, OpsOf(u)) = 0
        /\ IsFiniteSet(Units(Pend, OpsOf(u))) /\ Sum(Pend, OpsOf(u)) = 0
    BY <2>1, SumOfNothing
  <2>3. /\ reservedByUser[u] = 0 /\ leaked[u] = 0 /\ quotaGate[u] = NoOp /\ lock[u] = NoOp
        /\ QuotaOf(u) = 0 /\ PendOf(u) = 0 /\ hidden[u] = 0
    BY <1>1, <2>2 DEF QuotaOf, PendOf
  <2> QED
    BY <1>3, <1>5, <2>2, <2>3 DEF UserInv
<1>9. DiskInv
  <2>1. \A o \in Ops : /\ physical[o] = 0 /\ temp[o] = 0 /\ copy[o] = 0
                       /\ Owed[o] = 0 /\ Slots[o] = 0
    BY <1>1 DEF Owed, OwedAt, Slots, SlotAt, Holding, Writing
  <2>2. /\ IsFiniteSet(Units(physical, Ops)) /\ AllPhysical = 0
        /\ IsFiniteSet(Units(temp, Ops)) /\ AllTemp = 0
        /\ IsFiniteSet(Units(copy, Ops)) /\ AllCopy = 0
        /\ IsFiniteSet(Units(Owed, Ops)) /\ AllOwed = 0
        /\ IsFiniteSet(Units(Slots, Ops)) /\ AllSlots = 0
    BY <2>1, SumOfNothing DEF AllPhysical, AllTemp, AllCopy, AllOwed, AllSlots
  <2>3. IsFiniteSet(Units(OwnedBy, Users)) /\ AllOwned <= 2 * Cardinality(HaveFolder)
        /\ AllOwned \in Nat /\ Cardinality(HaveFolder) \in Nat
    <3> DEFINE R == HaveFolder \X (1..2)
    <3>1. Units(OwnedBy, Users) \subseteq R
      <4> SUFFICES ASSUME NEW u \in Users, NEW i \in 1..OwnedBy[u]
                   PROVE  <<u, i>> \in R
        BY DEF Units
      <4>1. OwnedBy[u] = Owned(u)
        BY DEF OwnedBy
      <4> QED
        BY <1>3, <4>1
    <3>2. IsFiniteSet(1..2) /\ Cardinality(1..2) = 2
      <4>1. 1 \in Int /\ 2 \in Int /\ ~(1 > 2) /\ 2 - 1 + 1 = 2
        OBVIOUS
      <4>2. IsFiniteSet(1..2) /\ Cardinality(1..2) = IF 1 > 2 THEN 0 ELSE 2 - 1 + 1
        BY <4>1, FS_Interval
      <4> QED
        BY <4>1, <4>2
    <3>3. IsFiniteSet(R) /\ Cardinality(R) = Cardinality(HaveFolder) * Cardinality(1..2)
      BY <3>2, UserFilesAssumption, FS_Product
    <3>4. Cardinality(HaveFolder) \in Nat
      BY UserFilesAssumption, FS_CardinalityType
    <3>5. /\ IsFiniteSet(Units(OwnedBy, Users))
          /\ Cardinality(Units(OwnedBy, Users)) \in Nat
          /\ Cardinality(Units(OwnedBy, Users)) <= Cardinality(R)
      <4> HIDE DEF R
      <4> QED
        BY <3>1, <3>3, FS_Subset, FS_CardinalityType
    <3> HIDE DEF R
    <3> QED
      BY <3>2, <3>3, <3>4, <3>5 DEF AllOwned, Sum
  <2>4. AllOwned + AllTemp + AllCopy + AllOwed + leftover + MinFree <= Disk + unbacked
    <3>1. Disk >= MinFree + 2 * Cardinality(HaveFolder)
      BY UserFilesAssumption
    <3> QED
      BY <1>1, <2>2, <2>3, <3>1, Numbers
  <2> QED
    BY <1>1, <2>2, <2>3, <2>4, Numbers DEF DiskInv
<1> QED
  BY <1>6, <1>7, <1>8, <1>9 DEF UserFilesInv

\* A step of a request keeps the invariant.
LEMMA OpStepStep ==
  ASSUME UserFilesInv, NEW o \in Ops, OpStep(o)
  PROVE  UserFilesInv'
<1>1. CASE \/ ReserveNothing(o) \/ ReserveScans(o) \/ ReserveDecides(o)
           \/ ReserveHeadroom(o) \/ ReleaseQuota(o) \/ ReleaseHeadroom(o)
  BY <1>1, ReserveNothingStep, ReserveScansStep, ReserveDecidesStep, ReserveHeadroomStep,
     ReleaseQuotaStep, ReleaseHeadroomStep
<1>2. CASE \/ TakeLock(o) \/ CheckUpload(o) \/ MakeFolder(o) \/ Move(o) \/ DeleteFile(o)
           \/ CheckDownload(o) \/ StreamEnds(o)
  BY <1>2, TakeLockStep, CheckUploadStep, MakeFolderStep, MoveStep, DeleteFileStep,
     CheckDownloadStep, StreamEndsStep
<1>3. CASE \/ RecheckNothing(o) \/ RecheckScans(o) \/ RecheckDecides(o) \/ Publish(o)
           \/ CleanUp(o) \/ Unlock(o)
  BY <1>3, RecheckNothingStep, RecheckScansStep, RecheckDecidesStep, PublishStep,
     CleanUpStep, UnlockStep
<1>4. CASE \/ TakeSlot(o) \/ SnapshotHeadroom(o) \/ Copy(o) \/ Respond(o) \/ GiveBack(o)
           \/ Abandon(o)
  BY <1>4, TakeSlotStep, SnapshotHeadroomStep, CopyStep, RespondStep, GiveBackStep, AbandonStep
<1> QED
  BY <1>1, <1>2, <1>3, <1>4 DEF OpStep

\* And so does a step that changes nothing.
LEMMA StutterStep ==
  ASSUME UserFilesInv, UNCHANGED requestVars
  PROVE  UserFilesInv'
<1>0. /\ FileTypes /\ DiskInv /\ \A o \in Ops : PlaceOf(o) /\ HoldsOf(o)
      /\ \A u \in Users : UserInv(u)
  BY DEF UserFilesInv
<1>1. UNCHANGED <<admissionVars, pc, kind, dir, size, hasSub, lock, temp, copy, freeSlots,
                  cancelled, leftover, ceiling, hidden, leaked, unbacked>>
  BY DEF requestVars, fileVars
<1>2. FileTypes'
  BY <1>0, <1>1 DEF FileTypes, admissionVars
<1>3. \A o \in Ops : PlaceOf(o)' /\ HoldsOf(o)'
  BY <1>0, <1>1 DEF PlaceOf, Locked, HoldsOf, SnapshotUnits, admissionVars
<1>4. UNCHANGED <<Pend, OwnedBy, Owed, Slots>>
  BY <1>1 DEF Pend, PendAt, OwnedBy, Owned, FirstDirectory, SecondDirectory, Owed, OwedAt,
     Slots, SlotAt, Holding, admissionVars
<1>5. \A u \in Users : UserInv(u)'
  BY <1>0, <1>1, <1>4 DEF UserInv, QuotaOf, PendOf, Owned, FirstDirectory, SecondDirectory,
     admissionVars
<1>6. DiskInv'
  BY <1>0, <1>1, <1>4 DEF DiskInv, AllOwned, AllPhysical, AllTemp, AllCopy, AllOwed, AllSlots,
     admissionVars
<1> QED
  BY <1>2, <1>3, <1>5, <1>6 DEF UserFilesInv

\* No step of a request, of the administrator or of the process breaks it.
LEMMA NextUserFilesInv ==
  ASSUME UserFilesInv, [FilesNext]_requestVars
  PROVE  UserFilesInv'
<1>1. ASSUME NEW o \in Ops, Begin(o) \/ OpStep(o) \/ Stream(o) \/ Cancel(o)
      PROVE  UserFilesInv'
  BY <1>1, BeginStep, OpStepStep, StreamStep, CancelStep
<1>2. ASSUME NEW u \in Users, ChangePolicy(u)
      PROVE  UserFilesInv'
  BY <1>2, ChangePolicyStep
<1> QED
  BY <1>1, <1>2, ProcessCrashesStep, ReconcileStep, StutterStep DEF FilesNext

\* The slots that are held are counted one by one.
LEMMA SlotsAreHeld ==
  ASSUME UserFilesInv
  PROVE  AllSlots = Cardinality({o \in Ops : Holding(o)})
<1> DEFINE H == {o \in Ops : Holding(o)}
           f == [o \in H |-> <<o, 1>>]
<1>1. Units(Slots, Ops) = H \X {1}
  <2>1. \A o \in Ops : Slots[o] = IF Holding(o) THEN 1 ELSE 0
    BY DEF Slots, SlotAt
  <2>2. \A o \in Ops : 1..Slots[o] = IF Holding(o) THEN {1} ELSE {}
    <3>1. 1..1 = {1} /\ 1..0 = {}
      OBVIOUS
    <3> QED
      BY <2>1, <3>1
  <2>3. \A o \in Ops : {o} \X (1..Slots[o]) = IF Holding(o) THEN {<<o, 1>>} ELSE {}
    <3> SUFFICES ASSUME NEW o \in Ops
                 PROVE  {o} \X (1..Slots[o]) = IF Holding(o) THEN {<<o, 1>>} ELSE {}
      OBVIOUS
    <3>1. CASE Holding(o)
      <4>1. {o} \X (1..Slots[o]) = {o} \X {1}
        BY <2>2, <3>1
      <4>2. {o} \X {1} = {<<o, 1>>}
        OBVIOUS
      <4> QED
        BY <3>1, <4>1, <4>2
    <3>2. CASE ~Holding(o)
      <4>1. 1..Slots[o] = {}
        BY <2>2, <3>2
      <4> QED
        BY <3>2, <4>1
    <3> QED
      BY <3>1, <3>2
  <2>4. ASSUME NEW w
        PROVE  w \in Units(Slots, Ops) <=> \E o \in H : w = <<o, 1>>
    BY <2>3 DEF Units
  <2> QED
    BY <2>4
<1>2. f \in Bijection(H, H \X {1})
  BY DEF Bijection, Injection, Surjection, IsInjective
<1>3. IsFiniteSet(Units(Slots, Ops))
  BY DEF UserFilesInv, DiskInv
<1>4. ExistsBijection(H \X {1}, H)
  <2>1. ExistsBijection(H, H \X {1})
    BY <1>2 DEF ExistsBijection
  <2> QED
    BY <2>1, Fun_ExistsBijSymmetric
<1> HIDE DEF H
<1>5. Cardinality(H) = Cardinality(H \X {1})
  BY <1>1, <1>3, <1>4, FS_Bijection
<1> QED
  BY <1>1, <1>5 DEF AllSlots, Sum, H

\* The invariant says that the accounts balance,
LEMMA AccountsAreBalanced ==
  ASSUME UserFilesInv
  PROVE  AccountsBalance
<1>0. /\ FileTypes /\ DiskInv /\ \A o \in Ops : PlaceOf(o) /\ HoldsOf(o)
      /\ \A u \in Users : UserInv(u)
  BY DEF UserFilesInv
<1>1. \A u \in Users : /\ reservedByUser[u] = Sum(quota, OpsOf(u)) + leaked[u]
                       /\ leaked[u] > 0 => \E o \in OpsOf(u) : o \in cancelled
  BY <1>0 DEF UserInv, QuotaOf
<1>2. reservedTotal = Sum(physical, Ops)
  BY <1>0 DEF DiskInv, AllPhysical
<1>3. freeSlots = MaxSnapshots - Cardinality({o \in Ops : Holding(o)})
  <2>1. freeSlots \in Nat /\ AllSlots \in Nat /\ freeSlots + AllSlots = MaxSnapshots
    BY <1>0, FS_CardinalityType DEF FileTypes, DiskInv, AllSlots, Sum
  <2>2. freeSlots = MaxSnapshots - AllSlots
    BY <2>1, Numbers
  <2> QED
    BY <2>2, SlotsAreHeld
<1>4. ASSUME NEW o \in Ops, pc[o] = "done"
      PROVE  /\ quota[o] = 0 /\ physical[o] = 0 /\ temp[o] = 0 /\ copy[o] = 0
             /\ lock[UserOf[o]] # o /\ quotaGate[UserOf[o]] # o
  <2>1. quota[o] = 0 /\ physical[o] = 0 /\ temp[o] = 0 /\ copy[o] = 0
    BY <1>0, <1>4 DEF HoldsOf, Unwritten, Writing, Streaming
  <2>2. lock[UserOf[o]] # o /\ quotaGate[UserOf[o]] # o
    BY <1>0, <1>4 DEF PlaceOf, Locked, Streaming
  <2> QED
    BY <2>1, <2>2
<1> QED
  BY <1>1, <1>2, <1>3, <1>4 DEF AccountsBalance

\* and that the limits hold.
LEMMA LimitsAreKept ==
  ASSUME UserFilesInv
  PROVE  LimitsHold
<1>0. FileTypes /\ DiskInv /\ \A u \in Users : UserInv(u)
  BY DEF UserFilesInv
<1>1. /\ {AllOwned, AllTemp, AllCopy, AllOwed, AllSlots} \subseteq Nat
      /\ {leftover, unbacked, freeSlots} \subseteq Nat
  BY <1>0, FS_CardinalityType DEF DiskInv, FileTypes, AllOwned, AllTemp, AllCopy, AllOwed,
     AllSlots, Sum
<1>2. FilesTypeOK
  <2>1. freeSlots \in 0..MaxSnapshots
    BY <1>0, <1>1, Numbers DEF DiskInv
  <2> QED
    BY <1>0, <2>1 DEF FileTypes, FilesTypeOK
<1>3. ASSUME NEW u \in Users, ceiling[u] # Unlimited
      PROVE  Owned(u) <= ceiling[u] + hidden[u]
  <2>1. /\ Owned(u) \in Nat /\ ceiling[u] \in Nat /\ hidden[u] \in Nat
        /\ Owned(u) + PendOf(u) <= ceiling[u] + hidden[u]
    BY <1>0, <1>3, OwnedIsNat DEF FileTypes, UserInv
  <2>2. PendOf(u) \in Nat
    BY <1>0, FS_CardinalityType DEF UserInv, PendOf, Sum
  <2> QED
    BY <2>1, <2>2
<1>4. Free + unbacked >= MinFree
  <2>1. Free = Disk - AllOwned - AllTemp - AllCopy - leftover
    BY DEF Free, AllOwned, AllTemp, AllCopy
  <2>2. AllOwned + AllTemp + AllCopy + AllOwed + leftover + MinFree <= Disk + unbacked
    BY <1>0 DEF DiskInv
  <2> QED
    BY <1>1, <2>1, <2>2, Numbers
<1> QED
  BY <1>2, <1>3, <1>4 DEF LimitsHold

\* The invariant of user files and of the admission of what is written.
THEOREM UserFilesInvariance == FilesSpec => []UserFilesInv
<1>1. FilesInit => UserFilesInv
  BY InitUserFilesInv
<1>2. UserFilesInv /\ [FilesNext]_requestVars => UserFilesInv'
  BY NextUserFilesInv
<1> QED
  BY <1>1, <1>2, PTL DEF FilesSpec

\* What a user owns stays within the largest quota the user has had, but for what a
\* scan missed, and the disk keeps its headroom, but for folders made without any:
\* however requests, cancellations, changes of quotas and crashes interleave.
THEOREM LimitsAlwaysHold == FilesSpec => []LimitsHold
<1>1. UserFilesInv => LimitsHold
  BY LimitsAreKept
<1> QED
  BY <1>1, UserFilesInvariance, PTL

\* What is reserved is what requests hold or a cancelled one has lost, every slot is
\* held by a snapshot, and a request that is over holds nothing.
THEOREM AccountsAlwaysBalance == FilesSpec => []AccountsBalance
<1>1. UserFilesInv => AccountsBalance
  BY AccountsAreBalanced
<1> QED
  BY <1>1, UserFilesInvariance, PTL

-----------------------------------------------------------------------------
(* Imports into the files of users.                                        *)

\* A step concerns one import, or is an event of the process that concerns
\* all of them alike.  So the invariant is a relation between the fields of
\* one import, said of each; for the others a step is no step at all
\* (AsideKeeps).

\* Where a submission stands before memory has its import.
Early == {"new", "acquired", "staged", "prepared", "persisted", "undoStage", "undoRecord"}
\* The steps that work in the stage, and those after which the work is left.
Working == {"launching", "executing", "result", "rechecking", "installing"}
Leaving == {"cleanup", "release", "finish", "ended"}

Untouched(i) ==
  /\ queue[i] = "none" /\ run[i] = "none" /\ outcome[i] = "none" /\ i \notin asked
  /\ user[i] = "none" /\ interrupt[i] = "none"
Clean(i) == ~staging[i] /\ ~reserved[i]

\* Before it is accepted only the submission touches an import, and after a
\* submission was taken back, or a restart, nothing but a deletion.
SubmitOf(i) ==
  /\ submit[i] # "accepted" => Untouched(i)
  /\ submit[i] \in Early => mem[i] = "none"
  /\ submit[i] \in {"new", "acquired", "staged", "prepared"} => disk[i] = "none"
  /\ submit[i] \in {"persisted", "registered"} => disk[i] = "queued"
  /\ submit[i] \in {"undoStage", "undoRecord"} => disk[i] \in {"none", "queued"}
  /\ submit[i] = "new" => Clean(i)
  /\ submit[i] \in {"acquired", "undoRecord"} => ~staging[i]
  /\ submit[i] = "acquired" => reserved[i]
  /\ submit[i] \in {"staged", "prepared", "persisted", "registered"} => staging[i] /\ reserved[i]
  /\ submit[i] = "registered" => mem[i] = "queued" /\ table[i]
  /\ submit[i] = "refused" =>
       /\ mem[i] \in Terminal \cup {"none"}
       /\ Alive /\ i \notin faulted => Clean(i) /\ mem[i] = disk[i]
       /\ disk[i] \in Terminal => mem[i] = disk[i] \/ ~Alive
  /\ ~Alive => submit[i] \in {"new", "refused"} /\ mem[i] = "none" /\ ~reserved[i]
  /\ proc[i] /\ submit[i] # "refused" =>
       run[i] \in {"executing", "terminating"} /\ KindOf[i] = "portal"

\* Who has the gate of an import, and what that says of the others.
GateOf(i) ==
  /\ queue[i] = "active" <=> run[i] # "none"
  /\ i \in asked => run[i] # "none"
  /\ i \in asked /\ run[i] \in GatedSteps => phase = "closing"
  /\ run[i] \in GatedSteps => user[i] = "none"
  /\ run[i] \in Cancellable \cup {"none"} => outcome[i] = "none"
  /\ run[i] = "terminating" => outcome[i] = "cancelled"
  /\ run[i] = "finish" => outcome[i] # "none"
  /\ user[i] \in {"cleaning", "saving"} =>
       /\ mem[i] = "queued" /\ queue[i] # "pending"
       /\ run[i] \in {"none", "dispatched"} \cup Leaving
  /\ user[i] = "saving" => Clean(i)
  /\ user[i] = "requesting" => mem[i] = "running"
  /\ interrupt[i] # "none" =>
       /\ phase \in {"draining", "closing"}
       /\ queue[i] = "none" /\ user[i] = "none" /\ mem[i] = "queued" /\ disk[i] = "queued"
  /\ interrupt[i] = "waiting" => table[i]
  /\ interrupt[i] \in {"cleaning", "saving"} => phase = "closing"
  /\ interrupt[i] = "saving" => Clean(i)

\* What runs, or waits to, has what was prepared for it.
RunOf(i) ==
  /\ \/ queue[i] = "pending"
     \/ run[i] = "dispatched" /\ i \notin asked
     \/ run[i] \in {"starting", "started"}
     => /\ mem[i] = "queued" /\ table[i] /\ staging[i] /\ reserved[i] /\ user[i] = "none"
        /\ disk[i] = IF run[i] = "started" THEN "running" ELSE "queued"
  /\ run[i] = "dispatched" => mem[i] \in {"queued", "cancelled", "none"}
  /\ run[i] = "launching" => KindOf[i] = "portal"
  /\ run[i] \in Working \cup {"terminating"} => staging[i] /\ reserved[i]
  /\ run[i] \in Working \cup {"installed", "saved", "terminating"} => mem[i] # "queued"
  /\ run[i] \in {"rechecking", "installing", "installed", "saved"} => mem[i] = "running"
  /\ run[i] \in {"installed", "saved"} => i \in installed
  /\ run[i] = "saved" => disk[i] = "succeeded"
  /\ run[i] \in Leaving /\ outcome[i] = "none" => mem[i] \in {"succeeded", "none"}

\* What memory says of an import and what is saved.
RecordOf(i) ==
  /\ "succeeded" \in {mem[i], disk[i]} => i \in installed
  /\ submit[i] = "accepted" =>
       /\ mem[i] = "none" => disk[i] = "none"
       /\ mem[i] = "queued" => disk[i] \in {"queued", "running"}
       /\ mem[i] \in Terminal => disk[i] = mem[i]
       /\ mem[i] = "running" =>
            \/ disk[i] = "running"
            \/ /\ disk[i] = "succeeded" /\ run[i] \in {"none", "saved"} \cup Leaving
               /\ run[i] = "saved" \/ phase = "closing"

\* Whoever ends an import has removed its stage and returned its room.
EndOf(i) ==
  submit[i] = "accepted" /\ i \notin faulted =>
    /\ run[i] = "release" => ~staging[i]
    /\ run[i] \in {"none", "dispatched", "finish", "ended"} /\ mem[i] # "queued" => Clean(i)
    /\ run[i] \in {"finish", "ended"} /\ outcome[i] = "failure" => Clean(i)
    /\ run[i] \in {"none", "ended"} => mem[i] # "running"
    /\ mem[i] = "queued" /\ queue[i] # "pending" /\ user[i] = "none" /\ interrupt[i] = "none"
         /\ \/ run[i] \in {"none", "ended"}
            \/ run[i] = "dispatched" /\ i \in asked
            \/ run[i] \in Leaving /\ outcome[i] = "cancelled"
       => phase = "closing"

Import(i) == SubmitOf(i) /\ GateOf(i) /\ RunOf(i) /\ RecordOf(i) /\ EndOf(i)

-----------------------------------------------------------------------------
\* Nothing of an import has changed.
Aside(i) ==
  /\ mem'[i] = mem[i] /\ creq'[i] = creq[i] /\ table'[i] = table[i] /\ queue'[i] = queue[i]
  /\ reserved'[i] = reserved[i] /\ submit'[i] = submit[i] /\ run'[i] = run[i]
  /\ outcome'[i] = outcome[i] /\ user'[i] = user[i] /\ interrupt'[i] = interrupt[i]
  /\ disk'[i] = disk[i] /\ staging'[i] = staging[i] /\ proc'[i] = proc[i]
  /\ phase' = phase /\ (i \in asked' <=> i \in asked)
  /\ (i \in faulted => i \in faulted') /\ (i \in installed => i \in installed')

\* Then what holds of it still holds.
LEMMA AsideKeeps ==
  ASSUME NEW i \in Imports, Import(i), Aside(i)
  PROVE  Import(i)'
<1>1. SubmitOf(i)'
  BY DEF Import, SubmitOf, Aside, Untouched, Clean, Alive
<1>2. GateOf(i)'
  BY DEF Import, GateOf, Aside, Clean
<1>3. RunOf(i)'
  BY DEF Import, RunOf, Aside
<1>4. RecordOf(i)'
  BY DEF Import, RecordOf, Aside
<1>5. EndOf(i)'
  BY DEF Import, EndOf, Aside, Clean
<1> QED
  BY <1>1, <1>2, <1>3, <1>4, <1>5 DEF Import

\* ImportsTypeOK, with every function typed by itself.
Types ==
  /\ mem \in [Imports -> Records] /\ disk \in [Imports -> Records]
  /\ creq \in [Imports -> BOOLEAN] /\ table \in [Imports -> BOOLEAN]
  /\ reserved \in [Imports -> BOOLEAN] /\ staging \in [Imports -> BOOLEAN]
  /\ proc \in [Imports -> BOOLEAN]
  /\ queue \in [Imports -> {"none", "pending", "active"}]
  /\ asked \subseteq Imports /\ faulted \subseteq Imports /\ installed \subseteq Imports
  /\ submit \in [Imports -> Early \cup {"registered", "accepted", "refused"}]
  /\ run \in [Imports -> RunSteps]
  /\ outcome \in [Imports -> {"none", "cancelled", "failure"}]
  /\ user \in [Imports -> {"none", "cleaning", "saving", "requesting"}]
  /\ interrupt \in [Imports -> {"none", "waiting", "cleaning", "saving"}]
  /\ phase \in {"serving", "draining", "closing", "down"}
  /\ owner \in [Dests -> Imports \cup {NoImport}]
  /\ faults \in 0..MaxFaults /\ restarts \in 0..MaxRestarts

\* The inductive invariant.
IInv == Types /\ \A i \in Imports : Import(i)

USE ImportsAssumption
USE DEF Alive, Set, Fault, LosesTrack, NoFault, SubmitUnchanged, RunUnchanged, UserUnchanged,
        InterruptUnchanged, Moves, Leaves, PrepareStage, RemoveStage, Refuse, memory,
        Terminal, GatedSteps, Cancellable, Clean, Untouched, Early, Working, Leaving, GateIsFree

-----------------------------------------------------------------------------
(* The submission and its way back.                                        *)

\* Acquire: an import that has its room has nothing else yet.
LEMMA AcquireStep ==
  ASSUME IInv, NEW i \in Imports, Acquire(i)
  PROVE  IInv'
<1>1. Types'
  BY DEF Acquire, IInv, Types, Records, RunSteps
<1>2. Import(i)'
  <2>1. Types /\ SubmitOf(i) /\ GateOf(i) /\ RunOf(i) /\ RecordOf(i) /\ EndOf(i)
    BY DEF IInv, Import
  <2>2. SubmitOf(i)'
    BY <2>1 DEF Acquire, Types, Records, RunSteps, SubmitOf, GateOf, RunOf
  <2>3. GateOf(i)'
    BY <2>1 DEF Acquire, Types, Records, RunSteps, SubmitOf, GateOf, RunOf
  <2>4. RunOf(i)'
    BY <2>1 DEF Acquire, Types, Records, RunSteps, SubmitOf, GateOf, RunOf, RecordOf
  <2>5. RecordOf(i)'
    BY <2>1 DEF Acquire, Types, Records, RunSteps, SubmitOf, GateOf, RunOf, RecordOf, EndOf
  <2>6. EndOf(i)'
    BY <2>1 DEF Acquire, Types, Records, RunSteps, SubmitOf, GateOf, RunOf, RecordOf, EndOf
  <2> QED
    BY <2>2, <2>3, <2>4, <2>5, <2>6 DEF Import
<1>3. \A j \in Imports \ {i} : Import(j)'
  <2>1. \A j \in Imports \ {i} : Aside(j)
    BY DEF Acquire, Aside, IInv, Types
  <2> QED
    BY <2>1, AsideKeeps DEF IInv
<1> QED
  BY <1>1, <1>2, <1>3 DEF IInv

\* PrepareSample: a refused sample returns its room and never had a stage.
LEMMA PrepareSampleStep ==
  ASSUME IInv, NEW i \in Imports, PrepareSample(i)
  PROVE  IInv'
<1>1. Types'
  <2>1. \/ reserved' = reserved
        \/ reserved' = [reserved EXCEPT ![i] = TRUE]
        \/ reserved' = [reserved EXCEPT ![i] = FALSE]
    BY DEF PrepareSample
  <2>2. \/ staging' = staging
        \/ staging' = [staging EXCEPT ![i] = TRUE]
        \/ staging' = [staging EXCEPT ![i] = FALSE]
    BY DEF PrepareSample
  <2>3. reserved' \in [Imports -> BOOLEAN] /\ staging' \in [Imports -> BOOLEAN]
    BY <2>1, <2>2, ZenonT(60) DEF IInv, Types
  <2> QED
    BY <2>3 DEF PrepareSample, IInv, Types, Records, RunSteps
<1>2. Import(i)'
  <2>1. Types /\ SubmitOf(i) /\ GateOf(i) /\ RunOf(i) /\ RecordOf(i) /\ EndOf(i)
    BY DEF IInv, Import
  <2>2. SubmitOf(i)'
    BY <2>1 DEF PrepareSample, Types, Records, RunSteps, SubmitOf, GateOf, RunOf
  <2>3. GateOf(i)'
    BY <2>1 DEF PrepareSample, Types, Records, RunSteps, SubmitOf, GateOf, RunOf
  <2>4. RunOf(i)'
    BY <2>1 DEF PrepareSample, Types, Records, RunSteps, SubmitOf, GateOf, RunOf, RecordOf
  <2>5. RecordOf(i)'
    BY <2>1 DEF PrepareSample, Types, Records, RunSteps, SubmitOf, GateOf, RunOf,
       RecordOf, EndOf
  <2>6. EndOf(i)'
    BY <2>1 DEF PrepareSample, Types, Records, RunSteps, SubmitOf, GateOf, RunOf,
       RecordOf, EndOf
  <2> QED
    BY <2>2, <2>3, <2>4, <2>5, <2>6 DEF Import
<1>3. \A j \in Imports \ {i} : Import(j)'
  <2>1. \A j \in Imports \ {i} : Aside(j)
    BY DEF PrepareSample, Aside, IInv, Types
  <2> QED
    BY <2>1, AsideKeeps DEF IInv
<1> QED
  BY <1>1, <1>2, <1>3 DEF IInv

\* PreparePortal: a portal import without a credential removes its stage, or
\* has lost track of it.
LEMMA PreparePortalStep ==
  ASSUME IInv, NEW i \in Imports, PreparePortal(i)
  PROVE  IInv'
<1>1. Types'
  <2>1. \/ reserved' = reserved
        \/ reserved' = [reserved EXCEPT ![i] = TRUE]
        \/ reserved' = [reserved EXCEPT ![i] = FALSE]
    BY DEF PreparePortal
  <2>2. \/ staging' = staging
        \/ staging' = [staging EXCEPT ![i] = TRUE]
        \/ staging' = [staging EXCEPT ![i] = FALSE]
    BY DEF PreparePortal
  <2>3. reserved' \in [Imports -> BOOLEAN] /\ staging' \in [Imports -> BOOLEAN]
    BY <2>1, <2>2, ZenonT(60) DEF IInv, Types
  <2> QED
    BY <2>3 DEF PreparePortal, IInv, Types, Records, RunSteps
<1>2. Import(i)'
  <2>1. Types /\ SubmitOf(i) /\ GateOf(i) /\ RunOf(i) /\ RecordOf(i) /\ EndOf(i)
    BY DEF IInv, Import
  <2>2. SubmitOf(i)'
    BY <2>1 DEF PreparePortal, Types, Records, RunSteps, SubmitOf, GateOf, RunOf
  <2>3. GateOf(i)'
    BY <2>1 DEF PreparePortal, Types, Records, RunSteps, SubmitOf, GateOf, RunOf
  <2>4. RunOf(i)'
    BY <2>1 DEF PreparePortal, Types, Records, RunSteps, SubmitOf, GateOf, RunOf, RecordOf
  <2>5. RecordOf(i)'
    BY <2>1 DEF PreparePortal, Types, Records, RunSteps, SubmitOf, GateOf, RunOf,
       RecordOf, EndOf
  <2>6. EndOf(i)'
    BY <2>1 DEF PreparePortal, Types, Records, RunSteps, SubmitOf, GateOf, RunOf,
       RecordOf, EndOf
  <2> QED
    BY <2>2, <2>3, <2>4, <2>5, <2>6 DEF Import
<1>3. \A j \in Imports \ {i} : Import(j)'
  <2>1. \A j \in Imports \ {i} : Aside(j)
    BY DEF PreparePortal, Aside, IInv, Types
  <2> QED
    BY <2>1, AsideKeeps DEF IInv
<1> QED
  BY <1>1, <1>2, <1>3 DEF IInv

\* SaveQueued: the queued record is on disk before memory has it.
LEMMA SaveQueuedStep ==
  ASSUME IInv, NEW i \in Imports, SaveQueued(i)
  PROVE  IInv'
<1>1. Types'
  BY DEF SaveQueued, IInv, Types, Records, RunSteps
<1>2. Import(i)'
  <2>1. Types /\ SubmitOf(i) /\ GateOf(i) /\ RunOf(i) /\ RecordOf(i) /\ EndOf(i)
    BY DEF IInv, Import
  <2>2. SubmitOf(i)'
    BY <2>1 DEF SaveQueued, Types, Records, RunSteps, SubmitOf, GateOf, RunOf
  <2>3. GateOf(i)'
    BY <2>1 DEF SaveQueued, Types, Records, RunSteps, SubmitOf, GateOf, RunOf
  <2>4. RunOf(i)'
    BY <2>1 DEF SaveQueued, Types, Records, RunSteps, SubmitOf, GateOf, RunOf, RecordOf
  <2>5. RecordOf(i)'
    BY <2>1 DEF SaveQueued, Types, Records, RunSteps, SubmitOf, GateOf, RunOf, RecordOf,
       EndOf
  <2>6. EndOf(i)'
    BY <2>1 DEF SaveQueued, Types, Records, RunSteps, SubmitOf, GateOf, RunOf, RecordOf,
       EndOf
  <2> QED
    BY <2>2, <2>3, <2>4, <2>5, <2>6 DEF Import
<1>3. \A j \in Imports \ {i} : Import(j)'
  <2>1. \A j \in Imports \ {i} : Aside(j)
    BY DEF SaveQueued, Aside, IInv, Types
  <2> QED
    BY <2>1, AsideKeeps DEF IInv
<1> QED
  BY <1>1, <1>2, <1>3 DEF IInv

\* Register: memory and the table of the prepared get the import together.
LEMMA RegisterStep ==
  ASSUME IInv, NEW i \in Imports, Register(i)
  PROVE  IInv'
<1>1. Types'
  BY DEF Register, IInv, Types, Records, RunSteps
<1>2. Import(i)'
  <2>1. Types /\ SubmitOf(i) /\ GateOf(i) /\ RunOf(i) /\ RecordOf(i) /\ EndOf(i)
    BY DEF IInv, Import
  <2>2. SubmitOf(i)'
    BY <2>1 DEF Register, Types, Records, RunSteps, SubmitOf, GateOf, RunOf
  <2>3. GateOf(i)'
    BY <2>1 DEF Register, Types, Records, RunSteps, SubmitOf, GateOf, RunOf
  <2>4. RunOf(i)'
    BY <2>1 DEF Register, Types, Records, RunSteps, SubmitOf, GateOf, RunOf, RecordOf
  <2>5. RecordOf(i)'
    BY <2>1 DEF Register, Types, Records, RunSteps, SubmitOf, GateOf, RunOf, RecordOf, EndOf
  <2>6. EndOf(i)'
    BY <2>1 DEF Register, Types, Records, RunSteps, SubmitOf, GateOf, RunOf, RecordOf, EndOf
  <2> QED
    BY <2>2, <2>3, <2>4, <2>5, <2>6 DEF Import
<1>3. \A j \in Imports \ {i} : Import(j)'
  <2>1. \A j \in Imports \ {i} : Aside(j)
    BY DEF Register, Aside, IInv, Types
  <2> QED
    BY <2>1, AsideKeeps DEF IInv
<1> QED
  BY <1>1, <1>2, <1>3 DEF IInv

\* Enqueue: a refused import leaves memory and the table together, and goes
\* the way back.
LEMMA EnqueueStep ==
  ASSUME IInv, NEW i \in Imports, Enqueue(i)
  PROVE  IInv'
<1>1. Types'
  <2>1. \/ table' = table
        \/ table' = [table EXCEPT ![i] = TRUE]
        \/ table' = [table EXCEPT ![i] = FALSE]
    BY DEF Enqueue
  <2>2. table' \in [Imports -> BOOLEAN]
    BY <2>1 DEF IInv, Types
  <2> QED
    BY <2>2 DEF Enqueue, IInv, Types, Records, RunSteps
<1>2. Import(i)'
  <2>1. Types /\ SubmitOf(i) /\ GateOf(i) /\ RunOf(i) /\ RecordOf(i) /\ EndOf(i)
    BY DEF IInv, Import
  <2>2. SubmitOf(i)'
    BY <2>1 DEF Enqueue, Types, Records, RunSteps, SubmitOf, GateOf, RunOf
  <2>3. GateOf(i)'
    BY <2>1 DEF Enqueue, Types, Records, RunSteps, SubmitOf, GateOf, RunOf
  <2>4. RunOf(i)'
    BY <2>1 DEF Enqueue, Types, Records, RunSteps, SubmitOf, GateOf, RunOf, RecordOf
  <2>5. RecordOf(i)'
    BY <2>1 DEF Enqueue, Types, Records, RunSteps, SubmitOf, GateOf, RunOf, RecordOf, EndOf
  <2>6. EndOf(i)'
    BY <2>1 DEF Enqueue, Types, Records, RunSteps, SubmitOf, GateOf, RunOf, RecordOf, EndOf
  <2> QED
    BY <2>2, <2>3, <2>4, <2>5, <2>6 DEF Import
<1>3. \A j \in Imports \ {i} : Import(j)'
  <2>1. \A j \in Imports \ {i} : Aside(j)
    BY DEF Enqueue, Aside, IInv, Types
  <2> QED
    BY <2>1, AsideKeeps DEF IInv
<1> QED
  BY <1>1, <1>2, <1>3 DEF IInv

\* UndoStage: the way back removes the stage before the record.
LEMMA UndoStageStep ==
  ASSUME IInv, NEW i \in Imports, UndoStage(i)
  PROVE  IInv'
<1>1. Types'
  <2>1. \/ staging' = staging
        \/ staging' = [staging EXCEPT ![i] = TRUE]
        \/ staging' = [staging EXCEPT ![i] = FALSE]
    BY DEF UndoStage
  <2>2. staging' \in [Imports -> BOOLEAN]
    BY <2>1 DEF IInv, Types
  <2> QED
    BY <2>2 DEF UndoStage, IInv, Types, Records, RunSteps
<1>2. Import(i)'
  <2>1. Types /\ SubmitOf(i) /\ GateOf(i) /\ RunOf(i) /\ RecordOf(i) /\ EndOf(i)
    BY DEF IInv, Import
  <2>2. SubmitOf(i)'
    BY <2>1 DEF UndoStage, Types, Records, RunSteps, SubmitOf, GateOf, RunOf
  <2>3. GateOf(i)'
    BY <2>1 DEF UndoStage, Types, Records, RunSteps, SubmitOf, GateOf, RunOf
  <2>4. RunOf(i)'
    BY <2>1 DEF UndoStage, Types, Records, RunSteps, SubmitOf, GateOf, RunOf, RecordOf
  <2>5. RecordOf(i)'
    BY <2>1 DEF UndoStage, Types, Records, RunSteps, SubmitOf, GateOf, RunOf, RecordOf,
       EndOf
  <2>6. EndOf(i)'
    BY <2>1 DEF UndoStage, Types, Records, RunSteps, SubmitOf, GateOf, RunOf, RecordOf,
       EndOf
  <2> QED
    BY <2>2, <2>3, <2>4, <2>5, <2>6 DEF Import
<1>3. \A j \in Imports \ {i} : Import(j)'
  <2>1. \A j \in Imports \ {i} : Aside(j)
    BY DEF UndoStage, Aside, IInv, Types
  <2> QED
    BY <2>1, AsideKeeps DEF IInv
<1> QED
  BY <1>1, <1>2, <1>3 DEF IInv

\* UndoRecord: then the record and the reservation: nothing is left of a
\* refused import.
LEMMA UndoRecordStep ==
  ASSUME IInv, NEW i \in Imports, UndoRecord(i)
  PROVE  IInv'
<1>1. Types'
  <2>1. \/ reserved' = reserved
        \/ reserved' = [reserved EXCEPT ![i] = TRUE]
        \/ reserved' = [reserved EXCEPT ![i] = FALSE]
    BY DEF UndoRecord
  <2>2. reserved' \in [Imports -> BOOLEAN]
    BY <2>1 DEF IInv, Types
  <2>3. disk' \in [Imports -> Records] /\ faults' \in 0..MaxFaults /\ faulted' \subseteq Imports
    BY DEF UndoRecord, IInv, Types, Records, RunSteps
  <2> QED
    BY <2>2, <2>3 DEF UndoRecord, IInv, Types
<1>2. Import(i)'
  <2>1. Types /\ SubmitOf(i) /\ GateOf(i) /\ RunOf(i) /\ RecordOf(i) /\ EndOf(i)
    BY DEF IInv, Import
  <2>2. SubmitOf(i)'
    BY <2>1 DEF UndoRecord, Types, Records, RunSteps, SubmitOf, GateOf, RunOf
  <2>3. GateOf(i)'
    BY <2>1 DEF UndoRecord, Types, Records, RunSteps, SubmitOf, GateOf, RunOf
  <2>4. RunOf(i)'
    BY <2>1 DEF UndoRecord, Types, Records, RunSteps, SubmitOf, GateOf, RunOf, RecordOf
  <2>5. RecordOf(i)'
    BY <2>1 DEF UndoRecord, Types, Records, RunSteps, SubmitOf, GateOf, RunOf, RecordOf,
       EndOf
  <2>6. EndOf(i)'
    BY <2>1 DEF UndoRecord, Types, Records, RunSteps, SubmitOf, GateOf, RunOf, RecordOf,
       EndOf
  <2> QED
    BY <2>2, <2>3, <2>4, <2>5, <2>6 DEF Import
<1>3. \A j \in Imports \ {i} : Import(j)'
  <2>1. \A j \in Imports \ {i} : Aside(j)
    BY DEF UndoRecord, Aside, IInv, Types
  <2> QED
    BY <2>1, AsideKeeps DEF IInv
<1> QED
  BY <1>1, <1>2, <1>3 DEF IInv

\* Dispatch: an import that waits still has what was prepared for it when it
\* is dispatched.
LEMMA DispatchStep ==
  ASSUME IInv, NEW i \in Imports, Dispatch(i)
  PROVE  IInv'
<1>1. Types'
  BY DEF Dispatch, IInv, Types, Records, RunSteps
<1>2. Import(i)'
  <2>1. Types /\ SubmitOf(i) /\ GateOf(i) /\ RunOf(i) /\ RecordOf(i) /\ EndOf(i)
    BY DEF IInv, Import
  <2>2. SubmitOf(i)'
    BY <2>1 DEF Dispatch, Types, Records, RunSteps, SubmitOf, GateOf, RunOf
  <2>3. GateOf(i)'
    BY <2>1 DEF Dispatch, Types, Records, RunSteps, SubmitOf, GateOf, RunOf
  <2>4. RunOf(i)'
    BY <2>1 DEF Dispatch, Types, Records, RunSteps, SubmitOf, GateOf, RunOf, RecordOf
  <2>5. RecordOf(i)'
    BY <2>1 DEF Dispatch, Types, Records, RunSteps, SubmitOf, GateOf, RunOf, RecordOf, EndOf
  <2>6. EndOf(i)'
    BY <2>1 DEF Dispatch, Types, Records, RunSteps, SubmitOf, GateOf, RunOf, RecordOf, EndOf
  <2> QED
    BY <2>2, <2>3, <2>4, <2>5, <2>6 DEF Import
<1>3. \A j \in Imports \ {i} : Import(j)'
  <2>1. \A j \in Imports \ {i} : Aside(j)
    BY DEF Dispatch, Aside, IInv, Types
  <2> QED
    BY <2>1, AsideKeeps DEF IInv
<1> QED
  BY <1>1, <1>2, <1>3 DEF IInv

-----------------------------------------------------------------------------
(* The runner.                                                             *)

\* RunEnters: a runner enters only with a queued record and what was prepared.
LEMMA RunEntersStep ==
  ASSUME IInv, NEW i \in Imports, RunEnters(i)
  PROVE  IInv'
<1>1. Types'
  BY DEF RunEnters, IInv, Types, Records, RunSteps
<1>2. Import(i)'
  <2>1. Types /\ SubmitOf(i) /\ GateOf(i) /\ RunOf(i) /\ RecordOf(i) /\ EndOf(i)
    BY DEF IInv, Import
  <2>2. SubmitOf(i)'
    BY <2>1 DEF RunEnters, Types, Records, RunSteps, SubmitOf, GateOf, RunOf
  <2>3. GateOf(i)'
    BY <2>1 DEF RunEnters, Types, Records, RunSteps, SubmitOf, GateOf, RunOf
  <2>4. RunOf(i)'
    BY <2>1 DEF RunEnters, Types, Records, RunSteps, SubmitOf, GateOf, RunOf, RecordOf
  <2>5. RecordOf(i)'
    BY <2>1 DEF RunEnters, Types, Records, RunSteps, SubmitOf, GateOf, RunOf, RecordOf,
       EndOf
  <2>6. EndOf(i)'
    BY <2>1 DEF RunEnters, Types, Records, RunSteps, SubmitOf, GateOf, RunOf, RecordOf,
       EndOf
  <2> QED
    BY <2>2, <2>3, <2>4, <2>5, <2>6 DEF Import
<1>3. \A j \in Imports \ {i} : Import(j)'
  <2>1. \A j \in Imports \ {i} : Aside(j)
    BY DEF RunEnters, Aside, IInv, Types
  <2> QED
    BY <2>1, AsideKeeps DEF IInv
<1> QED
  BY <1>1, <1>2, <1>3 DEF IInv

\* RunSaves: the running record is on disk before memory has it.
LEMMA RunSavesStep ==
  ASSUME IInv, NEW i \in Imports, RunSaves(i)
  PROVE  IInv'
<1>1. Types'
  BY DEF RunSaves, IInv, Types, Records, RunSteps
<1>2. Import(i)'
  <2>1. Types /\ SubmitOf(i) /\ GateOf(i) /\ RunOf(i) /\ RecordOf(i) /\ EndOf(i)
    BY DEF IInv, Import
  <2>2. SubmitOf(i)'
    BY <2>1 DEF RunSaves, Types, Records, RunSteps, SubmitOf, GateOf, RunOf
  <2>3. GateOf(i)'
    BY <2>1 DEF RunSaves, Types, Records, RunSteps, SubmitOf, GateOf, RunOf
  <2>4. RunOf(i)'
    BY <2>1 DEF RunSaves, Types, Records, RunSteps, SubmitOf, GateOf, RunOf, RecordOf
  <2>5. RecordOf(i)'
    BY <2>1 DEF RunSaves, Types, Records, RunSteps, SubmitOf, GateOf, RunOf, RecordOf, EndOf
  <2>6. EndOf(i)'
    BY <2>1 DEF RunSaves, Types, Records, RunSteps, SubmitOf, GateOf, RunOf, RecordOf, EndOf
  <2> QED
    BY <2>2, <2>3, <2>4, <2>5, <2>6 DEF Import
<1>3. \A j \in Imports \ {i} : Import(j)'
  <2>1. \A j \in Imports \ {i} : Aside(j)
    BY DEF RunSaves, Aside, IInv, Types
  <2> QED
    BY <2>1, AsideKeeps DEF IInv
<1> QED
  BY <1>1, <1>2, <1>3 DEF IInv

\* RunStarts: a running import is no longer in the table of the prepared.
LEMMA RunStartsStep ==
  ASSUME IInv, NEW i \in Imports, RunStarts(i)
  PROVE  IInv'
<1>1. Types'
  BY DEF RunStarts, IInv, Types, Records, RunSteps
<1>2. Import(i)'
  <2>1. Types /\ SubmitOf(i) /\ GateOf(i) /\ RunOf(i) /\ RecordOf(i) /\ EndOf(i)
    BY DEF IInv, Import
  <2>2. SubmitOf(i)'
    BY <2>1 DEF RunStarts, Types, Records, RunSteps, SubmitOf, GateOf, RunOf
  <2>3. GateOf(i)'
    BY <2>1 DEF RunStarts, Types, Records, RunSteps, SubmitOf, GateOf, RunOf
  <2>4. RunOf(i)'
    BY <2>1 DEF RunStarts, Types, Records, RunSteps, SubmitOf, GateOf, RunOf, RecordOf
  <2>5. RecordOf(i)'
    BY <2>1 DEF RunStarts, Types, Records, RunSteps, SubmitOf, GateOf, RunOf, RecordOf,
       EndOf
  <2>6. EndOf(i)'
    BY <2>1 DEF RunStarts, Types, Records, RunSteps, SubmitOf, GateOf, RunOf, RecordOf,
       EndOf
  <2> QED
    BY <2>2, <2>3, <2>4, <2>5, <2>6 DEF Import
<1>3. \A j \in Imports \ {i} : Import(j)'
  <2>1. \A j \in Imports \ {i} : Aside(j)
    BY DEF RunStarts, Aside, IInv, Types
  <2> QED
    BY <2>1, AsideKeeps DEF IInv
<1> QED
  BY <1>1, <1>2, <1>3 DEF IInv

\* Launch: a child works in a stage that is there.
LEMMA LaunchStep ==
  ASSUME IInv, NEW i \in Imports, Launch(i)
  PROVE  IInv'
<1>1. Types'
  BY DEF Launch, IInv, Types, Records, RunSteps
<1>2. Import(i)'
  <2>1. Types /\ SubmitOf(i) /\ GateOf(i) /\ RunOf(i) /\ RecordOf(i) /\ EndOf(i)
    BY DEF IInv, Import
  <2>2. SubmitOf(i)'
    BY <2>1 DEF Launch, Types, Records, RunSteps, SubmitOf, GateOf, RunOf
  <2>3. GateOf(i)'
    BY <2>1 DEF Launch, Types, Records, RunSteps, SubmitOf, GateOf, RunOf
  <2>4. RunOf(i)'
    BY <2>1 DEF Launch, Types, Records, RunSteps, SubmitOf, GateOf, RunOf, RecordOf
  <2>5. RecordOf(i)'
    BY <2>1 DEF Launch, Types, Records, RunSteps, SubmitOf, GateOf, RunOf, RecordOf, EndOf
  <2>6. EndOf(i)'
    BY <2>1 DEF Launch, Types, Records, RunSteps, SubmitOf, GateOf, RunOf, RecordOf, EndOf
  <2> QED
    BY <2>2, <2>3, <2>4, <2>5, <2>6 DEF Import
<1>3. \A j \in Imports \ {i} : Import(j)'
  <2>1. \A j \in Imports \ {i} : Aside(j)
    BY DEF Launch, Aside, IInv, Types
  <2> QED
    BY <2>1, AsideKeeps DEF IInv
<1> QED
  BY <1>1, <1>2, <1>3 DEF IInv

\* ExecuteEnds: a result leaves no child behind.
LEMMA ExecuteEndsStep ==
  ASSUME IInv, NEW i \in Imports, ExecuteEnds(i)
  PROVE  IInv'
<1>1. Types'
  <2>1. \/ proc' = proc
        \/ proc' = [proc EXCEPT ![i] = TRUE]
        \/ proc' = [proc EXCEPT ![i] = FALSE]
    BY DEF ExecuteEnds, DownloadEnds, ProcessEnds
  <2>2. proc' \in [Imports -> BOOLEAN]
    BY <2>1 DEF IInv, Types
  <2> QED
    BY <2>2 DEF ExecuteEnds, IInv, Types, Records, RunSteps, DownloadEnds, ProcessEnds
<1>2. Import(i)'
  <2>1. Types /\ SubmitOf(i) /\ GateOf(i) /\ RunOf(i) /\ RecordOf(i) /\ EndOf(i)
    BY DEF IInv, Import
  <2>2. SubmitOf(i)'
    BY <2>1 DEF ExecuteEnds, Types, Records, RunSteps, SubmitOf, GateOf, RunOf,
       DownloadEnds, ProcessEnds
  <2>3. GateOf(i)'
    BY <2>1 DEF ExecuteEnds, Types, Records, RunSteps, SubmitOf, GateOf, RunOf,
       DownloadEnds, ProcessEnds
  <2>4. RunOf(i)'
    BY <2>1 DEF ExecuteEnds, Types, Records, RunSteps, SubmitOf, GateOf, RunOf, RecordOf,
       DownloadEnds, ProcessEnds
  <2>5. RecordOf(i)'
    BY <2>1 DEF ExecuteEnds, Types, Records, RunSteps, SubmitOf, GateOf, RunOf, RecordOf,
       EndOf, DownloadEnds, ProcessEnds
  <2>6. EndOf(i)'
    BY <2>1 DEF ExecuteEnds, Types, Records, RunSteps, SubmitOf, GateOf, RunOf, RecordOf,
       EndOf, DownloadEnds, ProcessEnds
  <2> QED
    BY <2>2, <2>3, <2>4, <2>5, <2>6 DEF Import
<1>3. \A j \in Imports \ {i} : Import(j)'
  <2>1. \A j \in Imports \ {i} : Aside(j)
    BY DEF ExecuteEnds, Aside, IInv, Types, DownloadEnds, ProcessEnds
  <2> QED
    BY <2>1, AsideKeeps DEF IInv
<1> QED
  BY <1>1, <1>2, <1>3 DEF IInv

\* ReportInvalid: an import that is failed by its report is asked to stop in
\* the same step.
LEMMA ReportInvalidStep ==
  ASSUME IInv, NEW i \in Imports, ReportInvalid(i)
  PROVE  IInv'
<1>1. Types'
  BY DEF ReportInvalid, IInv, Types, Records, RunSteps
<1>2. Import(i)'
  <2>1. Types /\ SubmitOf(i) /\ GateOf(i) /\ RunOf(i) /\ RecordOf(i) /\ EndOf(i)
    BY DEF IInv, Import
  <2>2. SubmitOf(i)'
    BY <2>1 DEF ReportInvalid, Types, Records, RunSteps, SubmitOf, GateOf, RunOf
  <2>3. GateOf(i)'
    BY <2>1 DEF ReportInvalid, Types, Records, RunSteps, SubmitOf, GateOf, RunOf
  <2>4. RunOf(i)'
    BY <2>1 DEF ReportInvalid, Types, Records, RunSteps, SubmitOf, GateOf, RunOf, RecordOf
  <2>5. RecordOf(i)'
    BY <2>1 DEF ReportInvalid, Types, Records, RunSteps, SubmitOf, GateOf, RunOf,
       RecordOf, EndOf
  <2>6. EndOf(i)'
    BY <2>1 DEF ReportInvalid, Types, Records, RunSteps, SubmitOf, GateOf, RunOf,
       RecordOf, EndOf
  <2> QED
    BY <2>2, <2>3, <2>4, <2>5, <2>6 DEF Import
<1>3. \A j \in Imports \ {i} : Import(j)'
  <2>1. \A j \in Imports \ {i} : Aside(j)
    BY DEF ReportInvalid, Aside, IInv, Types
  <2> QED
    BY <2>1, AsideKeeps DEF IInv
<1> QED
  BY <1>1, <1>2, <1>3 DEF IInv

\* CompleteEnters: nobody has ended an import whose runner completes it.
LEMMA CompleteEntersStep ==
  ASSUME IInv, NEW i \in Imports, CompleteEnters(i)
  PROVE  IInv'
<1>1. Types'
  BY DEF CompleteEnters, IInv, Types, Records, RunSteps
<1>2. Import(i)'
  <2>1. Types /\ SubmitOf(i) /\ GateOf(i) /\ RunOf(i) /\ RecordOf(i) /\ EndOf(i)
    BY DEF IInv, Import
  <2>2. SubmitOf(i)'
    BY <2>1 DEF CompleteEnters, Types, Records, RunSteps, SubmitOf, GateOf, RunOf
  <2>3. GateOf(i)'
    BY <2>1 DEF CompleteEnters, Types, Records, RunSteps, SubmitOf, GateOf, RunOf
  <2>4. RunOf(i)'
    BY <2>1 DEF CompleteEnters, Types, Records, RunSteps, SubmitOf, GateOf, RunOf, RecordOf
  <2>5. RecordOf(i)'
    BY <2>1 DEF CompleteEnters, Types, Records, RunSteps, SubmitOf, GateOf, RunOf,
       RecordOf, EndOf
  <2>6. EndOf(i)'
    BY <2>1 DEF CompleteEnters, Types, Records, RunSteps, SubmitOf, GateOf, RunOf,
       RecordOf, EndOf
  <2> QED
    BY <2>2, <2>3, <2>4, <2>5, <2>6 DEF Import
<1>3. \A j \in Imports \ {i} : Import(j)'
  <2>1. \A j \in Imports \ {i} : Aside(j)
    BY DEF CompleteEnters, Aside, IInv, Types
  <2> QED
    BY <2>1, AsideKeeps DEF IInv
<1> QED
  BY <1>1, <1>2, <1>3 DEF IInv

\* Recheck: the stage is still there when the quota is checked again.
LEMMA RecheckStep ==
  ASSUME IInv, NEW i \in Imports, Recheck(i)
  PROVE  IInv'
<1>1. Types'
  BY DEF Recheck, IInv, Types, Records, RunSteps
<1>2. Import(i)'
  <2>1. Types /\ SubmitOf(i) /\ GateOf(i) /\ RunOf(i) /\ RecordOf(i) /\ EndOf(i)
    BY DEF IInv, Import
  <2>2. SubmitOf(i)'
    BY <2>1 DEF Recheck, Types, Records, RunSteps, SubmitOf, GateOf, RunOf
  <2>3. GateOf(i)'
    BY <2>1 DEF Recheck, Types, Records, RunSteps, SubmitOf, GateOf, RunOf
  <2>4. RunOf(i)'
    BY <2>1 DEF Recheck, Types, Records, RunSteps, SubmitOf, GateOf, RunOf, RecordOf
  <2>5. RecordOf(i)'
    BY <2>1 DEF Recheck, Types, Records, RunSteps, SubmitOf, GateOf, RunOf, RecordOf, EndOf
  <2>6. EndOf(i)'
    BY <2>1 DEF Recheck, Types, Records, RunSteps, SubmitOf, GateOf, RunOf, RecordOf, EndOf
  <2> QED
    BY <2>2, <2>3, <2>4, <2>5, <2>6 DEF Import
<1>3. \A j \in Imports \ {i} : Import(j)'
  <2>1. \A j \in Imports \ {i} : Aside(j)
    BY DEF Recheck, Aside, IInv, Types
  <2> QED
    BY <2>1, AsideKeeps DEF IInv
<1> QED
  BY <1>1, <1>2, <1>3 DEF IInv

\* Install: what is installed is so for good.
LEMMA InstallStep ==
  ASSUME IInv, NEW i \in Imports, Install(i)
  PROVE  IInv'
<1>1. Types'
  <2>1. \/ staging' = staging
        \/ staging' = [staging EXCEPT ![i] = TRUE]
        \/ staging' = [staging EXCEPT ![i] = FALSE]
    BY DEF Install, Publishes, Dests
  <2>2. staging' \in [Imports -> BOOLEAN]
    BY <2>1 DEF IInv, Types
  <2> QED
    BY <2>2 DEF Install, IInv, Types, Records, RunSteps, Publishes, Dests
<1>2. Import(i)'
  <2>1. Types /\ SubmitOf(i) /\ GateOf(i) /\ RunOf(i) /\ RecordOf(i) /\ EndOf(i)
    BY DEF IInv, Import
  <2>2. SubmitOf(i)'
    BY <2>1 DEF Install, Types, Records, RunSteps, SubmitOf, GateOf, RunOf, Publishes, Dests
  <2>3. GateOf(i)'
    BY <2>1 DEF Install, Types, Records, RunSteps, SubmitOf, GateOf, RunOf, Publishes, Dests
  <2>4. RunOf(i)'
    BY <2>1 DEF Install, Types, Records, RunSteps, SubmitOf, GateOf, RunOf, RecordOf,
       Publishes, Dests
  <2>5. RecordOf(i)'
    BY <2>1 DEF Install, Types, Records, RunSteps, SubmitOf, GateOf, RunOf, RecordOf,
       EndOf, Publishes, Dests
  <2>6. EndOf(i)'
    BY <2>1 DEF Install, Types, Records, RunSteps, SubmitOf, GateOf, RunOf, RecordOf,
       EndOf, Publishes, Dests
  <2> QED
    BY <2>2, <2>3, <2>4, <2>5, <2>6 DEF Import
<1>3. \A j \in Imports \ {i} : Import(j)'
  <2>1. \A j \in Imports \ {i} : Aside(j)
    BY DEF Install, Aside, IInv, Types, Publishes, Dests
  <2> QED
    BY <2>1, AsideKeeps DEF IInv
<1> QED
  BY <1>1, <1>2, <1>3 DEF IInv

\* SaveSucceeded: success is saved after the files were published.
LEMMA SaveSucceededStep ==
  ASSUME IInv, NEW i \in Imports, SaveSucceeded(i)
  PROVE  IInv'
<1>1. Types'
  BY DEF SaveSucceeded, IInv, Types, Records, RunSteps
<1>2. Import(i)'
  <2>1. Types /\ SubmitOf(i) /\ GateOf(i) /\ RunOf(i) /\ RecordOf(i) /\ EndOf(i)
    BY DEF IInv, Import
  <2>2. SubmitOf(i)'
    BY <2>1 DEF SaveSucceeded, Types, Records, RunSteps, SubmitOf, GateOf, RunOf
  <2>3. GateOf(i)'
    BY <2>1 DEF SaveSucceeded, Types, Records, RunSteps, SubmitOf, GateOf, RunOf
  <2>4. RunOf(i)'
    BY <2>1 DEF SaveSucceeded, Types, Records, RunSteps, SubmitOf, GateOf, RunOf, RecordOf
  <2>5. RecordOf(i)'
    BY <2>1 DEF SaveSucceeded, Types, Records, RunSteps, SubmitOf, GateOf, RunOf,
       RecordOf, EndOf
  <2>6. EndOf(i)'
    BY <2>1 DEF SaveSucceeded, Types, Records, RunSteps, SubmitOf, GateOf, RunOf,
       RecordOf, EndOf
  <2> QED
    BY <2>2, <2>3, <2>4, <2>5, <2>6 DEF Import
<1>3. \A j \in Imports \ {i} : Import(j)'
  <2>1. \A j \in Imports \ {i} : Aside(j)
    BY DEF SaveSucceeded, Aside, IInv, Types
  <2> QED
    BY <2>1, AsideKeeps DEF IInv
<1> QED
  BY <1>1, <1>2, <1>3 DEF IInv

\* MarkSucceeded: memory says succeeded after the disk does.
LEMMA MarkSucceededStep ==
  ASSUME IInv, NEW i \in Imports, MarkSucceeded(i)
  PROVE  IInv'
<1>1. Types'
  BY DEF MarkSucceeded, IInv, Types, Records, RunSteps
<1>2. Import(i)'
  <2>1. Types /\ SubmitOf(i) /\ GateOf(i) /\ RunOf(i) /\ RecordOf(i) /\ EndOf(i)
    BY DEF IInv, Import
  <2>2. SubmitOf(i)'
    BY <2>1 DEF MarkSucceeded, Types, Records, RunSteps, SubmitOf, GateOf, RunOf
  <2>3. GateOf(i)'
    BY <2>1 DEF MarkSucceeded, Types, Records, RunSteps, SubmitOf, GateOf, RunOf
  <2>4. RunOf(i)'
    BY <2>1 DEF MarkSucceeded, Types, Records, RunSteps, SubmitOf, GateOf, RunOf, RecordOf
  <2>5. RecordOf(i)'
    BY <2>1 DEF MarkSucceeded, Types, Records, RunSteps, SubmitOf, GateOf, RunOf,
       RecordOf, EndOf
  <2>6. EndOf(i)'
    BY <2>1 DEF MarkSucceeded, Types, Records, RunSteps, SubmitOf, GateOf, RunOf,
       RecordOf, EndOf
  <2> QED
    BY <2>2, <2>3, <2>4, <2>5, <2>6 DEF Import
<1>3. \A j \in Imports \ {i} : Import(j)'
  <2>1. \A j \in Imports \ {i} : Aside(j)
    BY DEF MarkSucceeded, Aside, IInv, Types
  <2> QED
    BY <2>1, AsideKeeps DEF IInv
<1> QED
  BY <1>1, <1>2, <1>3 DEF IInv

\* RunnerCancelled: only a runner that was asked stops, and its child stops
\* first.
LEMMA RunnerCancelledStep ==
  ASSUME IInv, NEW i \in Imports, RunnerCancelled(i)
  PROVE  IInv'
<1>1. Types'
  BY DEF RunnerCancelled, IInv, Types, Records, RunSteps
<1>2. Import(i)'
  <2>1. Types /\ SubmitOf(i) /\ GateOf(i) /\ RunOf(i) /\ RecordOf(i) /\ EndOf(i)
    BY DEF IInv, Import
  <2>2. SubmitOf(i)'
    BY <2>1 DEF RunnerCancelled, Types, Records, RunSteps, SubmitOf, GateOf, RunOf
  <2>3. GateOf(i)'
    BY <2>1 DEF RunnerCancelled, Types, Records, RunSteps, SubmitOf, GateOf, RunOf
  <2>4. RunOf(i)'
    BY <2>1 DEF RunnerCancelled, Types, Records, RunSteps, SubmitOf, GateOf, RunOf, RecordOf
  <2>5. RecordOf(i)'
    BY <2>1 DEF RunnerCancelled, Types, Records, RunSteps, SubmitOf, GateOf, RunOf,
       RecordOf, EndOf
  <2>6. EndOf(i)'
    BY <2>1 DEF RunnerCancelled, Types, Records, RunSteps, SubmitOf, GateOf, RunOf,
       RecordOf, EndOf
  <2> QED
    BY <2>2, <2>3, <2>4, <2>5, <2>6 DEF Import
<1>3. \A j \in Imports \ {i} : Import(j)'
  <2>1. \A j \in Imports \ {i} : Aside(j)
    BY DEF RunnerCancelled, Aside, IInv, Types
  <2> QED
    BY <2>1, AsideKeeps DEF IInv
<1> QED
  BY <1>1, <1>2, <1>3 DEF IInv

\* Terminate: a runner cleans up after its child has ended.
LEMMA TerminateStep ==
  ASSUME IInv, NEW i \in Imports, Terminate(i)
  PROVE  IInv'
<1>1. Types'
  BY DEF Terminate, IInv, Types, Records, RunSteps
<1>2. Import(i)'
  <2>1. Types /\ SubmitOf(i) /\ GateOf(i) /\ RunOf(i) /\ RecordOf(i) /\ EndOf(i)
    BY DEF IInv, Import
  <2>2. SubmitOf(i)'
    BY <2>1 DEF Terminate, Types, Records, RunSteps, SubmitOf, GateOf, RunOf
  <2>3. GateOf(i)'
    BY <2>1 DEF Terminate, Types, Records, RunSteps, SubmitOf, GateOf, RunOf
  <2>4. RunOf(i)'
    BY <2>1 DEF Terminate, Types, Records, RunSteps, SubmitOf, GateOf, RunOf, RecordOf
  <2>5. RecordOf(i)'
    BY <2>1 DEF Terminate, Types, Records, RunSteps, SubmitOf, GateOf, RunOf, RecordOf,
       EndOf
  <2>6. EndOf(i)'
    BY <2>1 DEF Terminate, Types, Records, RunSteps, SubmitOf, GateOf, RunOf, RecordOf,
       EndOf
  <2> QED
    BY <2>2, <2>3, <2>4, <2>5, <2>6 DEF Import
<1>3. \A j \in Imports \ {i} : Import(j)'
  <2>1. \A j \in Imports \ {i} : Aside(j)
    BY DEF Terminate, Aside, IInv, Types
  <2> QED
    BY <2>1, AsideKeeps DEF IInv
<1> QED
  BY <1>1, <1>2, <1>3 DEF IInv

\* RunCleans: the runner removes the stage before it returns the room.
LEMMA RunCleansStep ==
  ASSUME IInv, NEW i \in Imports, RunCleans(i)
  PROVE  IInv'
<1>1. Types'
  <2>1. \/ staging' = staging
        \/ staging' = [staging EXCEPT ![i] = TRUE]
        \/ staging' = [staging EXCEPT ![i] = FALSE]
    BY DEF RunCleans
  <2>2. staging' \in [Imports -> BOOLEAN]
    BY <2>1 DEF IInv, Types
  <2>3. run' \in [Imports -> RunSteps]
    BY DEF RunCleans, IInv, Types, Records, RunSteps
  <2> QED
    BY <2>2, <2>3 DEF RunCleans, IInv, Types
<1>2. Import(i)'
  <2>1. Types /\ SubmitOf(i) /\ GateOf(i) /\ RunOf(i) /\ RecordOf(i) /\ EndOf(i)
    BY DEF IInv, Import
  <2>2. SubmitOf(i)'
    BY <2>1 DEF RunCleans, Types, Records, RunSteps, SubmitOf, GateOf, RunOf
  <2>3. GateOf(i)'
    BY <2>1 DEF RunCleans, Types, Records, RunSteps, SubmitOf, GateOf, RunOf
  <2>4. RunOf(i)'
    BY <2>1 DEF RunCleans, Types, Records, RunSteps, SubmitOf, GateOf, RunOf, RecordOf
  <2>5. RecordOf(i)'
    BY <2>1 DEF RunCleans, Types, Records, RunSteps, SubmitOf, GateOf, RunOf, RecordOf,
       EndOf
  <2>6. EndOf(i)'
    BY <2>1 DEF RunCleans, Types, Records, RunSteps, SubmitOf, GateOf, RunOf, RecordOf,
       EndOf
  <2> QED
    BY <2>2, <2>3, <2>4, <2>5, <2>6 DEF Import
<1>3. \A j \in Imports \ {i} : Import(j)'
  <2>1. \A j \in Imports \ {i} : Aside(j)
    BY DEF RunCleans, Aside, IInv, Types
  <2> QED
    BY <2>1, AsideKeeps DEF IInv
<1> QED
  BY <1>1, <1>2, <1>3 DEF IInv

\* RunReleases: whoever released the room had removed the stage.
LEMMA RunReleasesStep ==
  ASSUME IInv, NEW i \in Imports, RunReleases(i)
  PROVE  IInv'
<1>1. Types'
  BY DEF RunReleases, IInv, Types, Records, RunSteps
<1>2. Import(i)'
  <2>1. Types /\ SubmitOf(i) /\ GateOf(i) /\ RunOf(i) /\ RecordOf(i) /\ EndOf(i)
    BY DEF IInv, Import
  <2>2. SubmitOf(i)'
    BY <2>1 DEF RunReleases, Types, Records, RunSteps, SubmitOf, GateOf, RunOf
  <2>3. GateOf(i)'
    BY <2>1 DEF RunReleases, Types, Records, RunSteps, SubmitOf, GateOf, RunOf
  <2>4. RunOf(i)'
    BY <2>1 DEF RunReleases, Types, Records, RunSteps, SubmitOf, GateOf, RunOf, RecordOf
  <2>5. RecordOf(i)'
    BY <2>1 DEF RunReleases, Types, Records, RunSteps, SubmitOf, GateOf, RunOf, RecordOf,
       EndOf
  <2>6. EndOf(i)'
    BY <2>1 DEF RunReleases, Types, Records, RunSteps, SubmitOf, GateOf, RunOf, RecordOf,
       EndOf
  <2> QED
    BY <2>2, <2>3, <2>4, <2>5, <2>6 DEF Import
<1>3. \A j \in Imports \ {i} : Import(j)'
  <2>1. \A j \in Imports \ {i} : Aside(j)
    BY DEF RunReleases, Aside, IInv, Types
  <2> QED
    BY <2>1, AsideKeeps DEF IInv
<1> QED
  BY <1>1, <1>2, <1>3 DEF IInv

\* RunFinishes: the runner ends the record after it has cleaned up.
LEMMA RunFinishesStep ==
  ASSUME IInv, NEW i \in Imports, RunFinishes(i)
  PROVE  IInv'
<1>1. Types'
  BY DEF RunFinishes, IInv, Types, Records, RunSteps, FinalRecord
<1>2. Import(i)'
  <2>1. Types /\ SubmitOf(i) /\ GateOf(i) /\ RunOf(i) /\ RecordOf(i) /\ EndOf(i)
    BY DEF IInv, Import
  <2>2. SubmitOf(i)'
    BY <2>1 DEF RunFinishes, Types, Records, RunSteps, SubmitOf, GateOf, RunOf, FinalRecord
  <2>3. GateOf(i)'
    BY <2>1 DEF RunFinishes, Types, Records, RunSteps, SubmitOf, GateOf, RunOf, FinalRecord
  <2>4. RunOf(i)'
    BY <2>1 DEF RunFinishes, Types, Records, RunSteps, SubmitOf, GateOf, RunOf, RecordOf,
       FinalRecord
  <2>5. RecordOf(i)'
    BY <2>1 DEF RunFinishes, Types, Records, RunSteps, SubmitOf, GateOf, RunOf, RecordOf,
       EndOf, FinalRecord
  <2>6. EndOf(i)'
    BY <2>1 DEF RunFinishes, Types, Records, RunSteps, SubmitOf, GateOf, RunOf, RecordOf,
       EndOf, FinalRecord
  <2> QED
    BY <2>2, <2>3, <2>4, <2>5, <2>6 DEF Import
<1>3. \A j \in Imports \ {i} : Import(j)'
  <2>1. \A j \in Imports \ {i} : Aside(j)
    BY DEF RunFinishes, Aside, IInv, Types, FinalRecord
  <2> QED
    BY <2>1, AsideKeeps DEF IInv
<1> QED
  BY <1>1, <1>2, <1>3 DEF IInv

\* RunnerEnds: the runner leaves an ended record, or a queued one another
\* request ends.
LEMMA RunnerEndsStep ==
  ASSUME IInv, NEW i \in Imports, RunnerEnds(i)
  PROVE  IInv'
<1>1. Types'
  BY DEF RunnerEnds, IInv, Types, Records, RunSteps
<1>2. Import(i)'
  <2>1. Types /\ SubmitOf(i) /\ GateOf(i) /\ RunOf(i) /\ RecordOf(i) /\ EndOf(i)
    BY DEF IInv, Import
  <2>2. SubmitOf(i)'
    BY <2>1 DEF RunnerEnds, Types, Records, RunSteps, SubmitOf, GateOf, RunOf
  <2>3. GateOf(i)'
    BY <2>1 DEF RunnerEnds, Types, Records, RunSteps, SubmitOf, GateOf, RunOf
  <2>4. RunOf(i)'
    BY <2>1 DEF RunnerEnds, Types, Records, RunSteps, SubmitOf, GateOf, RunOf, RecordOf
  <2>5. RecordOf(i)'
    BY <2>1 DEF RunnerEnds, Types, Records, RunSteps, SubmitOf, GateOf, RunOf, RecordOf,
       EndOf
  <2>6. EndOf(i)'
    BY <2>1 DEF RunnerEnds, Types, Records, RunSteps, SubmitOf, GateOf, RunOf, RecordOf,
       EndOf
  <2> QED
    BY <2>2, <2>3, <2>4, <2>5, <2>6 DEF Import
<1>3. \A j \in Imports \ {i} : Import(j)'
  <2>1. \A j \in Imports \ {i} : Aside(j)
    BY DEF RunnerEnds, Aside, IInv, Types
  <2> QED
    BY <2>1, AsideKeeps DEF IInv
<1> QED
  BY <1>1, <1>2, <1>3 DEF IInv

-----------------------------------------------------------------------------
(* Cancelling and deleting.                                                *)

\* CancelQueued: the request that takes what was prepared is the one that
\* returns it.
LEMMA CancelQueuedStep ==
  ASSUME IInv, NEW i \in Imports, CancelQueued(i)
  PROVE  IInv'
<1>1. Types'
  BY DEF CancelQueued, IInv, Types, Records, RunSteps
<1>2. Import(i)'
  <2>1. Types /\ SubmitOf(i) /\ GateOf(i) /\ RunOf(i) /\ RecordOf(i) /\ EndOf(i)
    BY DEF IInv, Import
  <2>2. SubmitOf(i)'
    BY <2>1 DEF CancelQueued, Types, Records, RunSteps, SubmitOf, GateOf, RunOf
  <2>3. GateOf(i)'
    BY <2>1 DEF CancelQueued, Types, Records, RunSteps, SubmitOf, GateOf, RunOf
  <2>4. RunOf(i)'
    BY <2>1 DEF CancelQueued, Types, Records, RunSteps, SubmitOf, GateOf, RunOf, RecordOf
  <2>5. RecordOf(i)'
    BY <2>1 DEF CancelQueued, Types, Records, RunSteps, SubmitOf, GateOf, RunOf,
       RecordOf, EndOf
  <2>6. EndOf(i)'
    BY <2>1 DEF CancelQueued, Types, Records, RunSteps, SubmitOf, GateOf, RunOf,
       RecordOf, EndOf
  <2> QED
    BY <2>2, <2>3, <2>4, <2>5, <2>6 DEF Import
<1>3. \A j \in Imports \ {i} : Import(j)'
  <2>1. \A j \in Imports \ {i} : Aside(j)
    BY DEF CancelQueued, Aside, IInv, Types
  <2> QED
    BY <2>1, AsideKeeps DEF IInv
<1> QED
  BY <1>1, <1>2, <1>3 DEF IInv

\* CancelCleans: the stage and the room go before the record ends.
LEMMA CancelCleansStep ==
  ASSUME IInv, NEW i \in Imports, CancelCleans(i)
  PROVE  IInv'
<1>1. Types'
  <2>1. \/ staging' = staging
        \/ staging' = [staging EXCEPT ![i] = TRUE]
        \/ staging' = [staging EXCEPT ![i] = FALSE]
    BY DEF CancelCleans
  <2>2. \/ reserved' = reserved
        \/ reserved' = [reserved EXCEPT ![i] = TRUE]
        \/ reserved' = [reserved EXCEPT ![i] = FALSE]
    BY DEF CancelCleans
  <2>3. staging' \in [Imports -> BOOLEAN] /\ reserved' \in [Imports -> BOOLEAN]
    BY <2>1, <2>2, ZenonT(60) DEF IInv, Types
  <2> QED
    BY <2>3 DEF CancelCleans, IInv, Types, Records, RunSteps
<1>2. Import(i)'
  <2>1. Types /\ SubmitOf(i) /\ GateOf(i) /\ RunOf(i) /\ RecordOf(i) /\ EndOf(i)
    BY DEF IInv, Import
  <2>2. SubmitOf(i)'
    BY <2>1 DEF CancelCleans, Types, Records, RunSteps, SubmitOf, GateOf, RunOf
  <2>3. GateOf(i)'
    BY <2>1 DEF CancelCleans, Types, Records, RunSteps, SubmitOf, GateOf, RunOf
  <2>4. RunOf(i)'
    BY <2>1 DEF CancelCleans, Types, Records, RunSteps, SubmitOf, GateOf, RunOf, RecordOf
  <2>5. RecordOf(i)'
    BY <2>1 DEF CancelCleans, Types, Records, RunSteps, SubmitOf, GateOf, RunOf,
       RecordOf, EndOf
  <2>6. EndOf(i)'
    BY <2>1 DEF CancelCleans, Types, Records, RunSteps, SubmitOf, GateOf, RunOf,
       RecordOf, EndOf
  <2> QED
    BY <2>2, <2>3, <2>4, <2>5, <2>6 DEF Import
<1>3. \A j \in Imports \ {i} : Import(j)'
  <2>1. \A j \in Imports \ {i} : Aside(j)
    BY DEF CancelCleans, Aside, IInv, Types
  <2> QED
    BY <2>1, AsideKeeps DEF IInv
<1> QED
  BY <1>1, <1>2, <1>3 DEF IInv

\* CancelSaves: disk and memory say cancelled together.
LEMMA CancelSavesStep ==
  ASSUME IInv, NEW i \in Imports, CancelSaves(i)
  PROVE  IInv'
<1>1. Types'
  BY DEF CancelSaves, IInv, Types, Records, RunSteps
<1>2. Import(i)'
  <2>1. Types /\ SubmitOf(i) /\ GateOf(i) /\ RunOf(i) /\ RecordOf(i) /\ EndOf(i)
    BY DEF IInv, Import
  <2>2. SubmitOf(i)'
    BY <2>1 DEF CancelSaves, Types, Records, RunSteps, SubmitOf, GateOf, RunOf
  <2>3. GateOf(i)'
    BY <2>1 DEF CancelSaves, Types, Records, RunSteps, SubmitOf, GateOf, RunOf
  <2>4. RunOf(i)'
    BY <2>1 DEF CancelSaves, Types, Records, RunSteps, SubmitOf, GateOf, RunOf, RecordOf
  <2>5. RecordOf(i)'
    BY <2>1 DEF CancelSaves, Types, Records, RunSteps, SubmitOf, GateOf, RunOf, RecordOf,
       EndOf
  <2>6. EndOf(i)'
    BY <2>1 DEF CancelSaves, Types, Records, RunSteps, SubmitOf, GateOf, RunOf, RecordOf,
       EndOf
  <2> QED
    BY <2>2, <2>3, <2>4, <2>5, <2>6 DEF Import
<1>3. \A j \in Imports \ {i} : Import(j)'
  <2>1. \A j \in Imports \ {i} : Aside(j)
    BY DEF CancelSaves, Aside, IInv, Types
  <2> QED
    BY <2>1, AsideKeeps DEF IInv
<1> QED
  BY <1>1, <1>2, <1>3 DEF IInv

\* CancelRunning: a request to stop a running import waits for its runner.
LEMMA CancelRunningStep ==
  ASSUME IInv, NEW i \in Imports, CancelRunning(i)
  PROVE  IInv'
<1>1. Types'
  BY DEF CancelRunning, IInv, Types, Records, RunSteps
<1>2. Import(i)'
  <2>1. Types /\ SubmitOf(i) /\ GateOf(i) /\ RunOf(i) /\ RecordOf(i) /\ EndOf(i)
    BY DEF IInv, Import
  <2>2. SubmitOf(i)'
    BY <2>1 DEF CancelRunning, Types, Records, RunSteps, SubmitOf, GateOf, RunOf
  <2>3. GateOf(i)'
    BY <2>1 DEF CancelRunning, Types, Records, RunSteps, SubmitOf, GateOf, RunOf
  <2>4. RunOf(i)'
    BY <2>1 DEF CancelRunning, Types, Records, RunSteps, SubmitOf, GateOf, RunOf, RecordOf
  <2>5. RecordOf(i)'
    BY <2>1 DEF CancelRunning, Types, Records, RunSteps, SubmitOf, GateOf, RunOf,
       RecordOf, EndOf
  <2>6. EndOf(i)'
    BY <2>1 DEF CancelRunning, Types, Records, RunSteps, SubmitOf, GateOf, RunOf,
       RecordOf, EndOf
  <2> QED
    BY <2>2, <2>3, <2>4, <2>5, <2>6 DEF Import
<1>3. \A j \in Imports \ {i} : Import(j)'
  <2>1. \A j \in Imports \ {i} : Aside(j)
    BY DEF CancelRunning, Aside, IInv, Types
  <2> QED
    BY <2>1, AsideKeeps DEF IInv
<1> QED
  BY <1>1, <1>2, <1>3 DEF IInv

\* CancelRequested: a saved request leaves the state of the record as it was.
LEMMA CancelRequestedStep ==
  ASSUME IInv, NEW i \in Imports, CancelRequested(i)
  PROVE  IInv'
<1>1. Types'
  <2>1. \/ creq' = creq
        \/ creq' = [creq EXCEPT ![i] = TRUE]
        \/ creq' = [creq EXCEPT ![i] = FALSE]
    BY DEF CancelRequested
  <2>2. creq' \in [Imports -> BOOLEAN]
    BY <2>1 DEF IInv, Types
  <2>3. disk' \in [Imports -> Records] /\ faults' \in 0..MaxFaults /\ faulted' \subseteq Imports
    BY DEF CancelRequested, IInv, Types, Records, RunSteps
  <2> QED
    BY <2>2, <2>3 DEF CancelRequested, IInv, Types
<1>2. Import(i)'
  <2>1. Types /\ SubmitOf(i) /\ GateOf(i) /\ RunOf(i) /\ RecordOf(i) /\ EndOf(i)
    BY DEF IInv, Import
  <2>2. SubmitOf(i)'
    BY <2>1 DEF CancelRequested, Types, Records, RunSteps, SubmitOf, GateOf, RunOf
  <2>3. GateOf(i)'
    BY <2>1 DEF CancelRequested, Types, Records, RunSteps, SubmitOf, GateOf, RunOf
  <2>4. RunOf(i)'
    BY <2>1 DEF CancelRequested, Types, Records, RunSteps, SubmitOf, GateOf, RunOf, RecordOf
  <2>5. RecordOf(i)'
    BY <2>1 DEF CancelRequested, Types, Records, RunSteps, SubmitOf, GateOf, RunOf,
       RecordOf, EndOf
  <2>6. EndOf(i)'
    BY <2>1 DEF CancelRequested, Types, Records, RunSteps, SubmitOf, GateOf, RunOf,
       RecordOf, EndOf
  <2> QED
    BY <2>2, <2>3, <2>4, <2>5, <2>6 DEF Import
<1>3. \A j \in Imports \ {i} : Import(j)'
  <2>1. \A j \in Imports \ {i} : Aside(j)
    BY DEF CancelRequested, Aside, IInv, Types
  <2> QED
    BY <2>1, AsideKeeps DEF IInv
<1> QED
  BY <1>1, <1>2, <1>3 DEF IInv

\* Delete: only a record that ended is deleted, from disk and memory together.
LEMMA DeleteStep ==
  ASSUME IInv, NEW i \in Imports, Delete(i)
  PROVE  IInv'
<1>1. Types'
  BY DEF Delete, IInv, Types, Records, RunSteps
<1>2. Import(i)'
  <2>1. Types /\ SubmitOf(i) /\ GateOf(i) /\ RunOf(i) /\ RecordOf(i) /\ EndOf(i)
    BY DEF IInv, Import
  <2>2. SubmitOf(i)'
    BY <2>1 DEF Delete, Types, Records, RunSteps, SubmitOf, GateOf, RunOf
  <2>3. GateOf(i)'
    BY <2>1 DEF Delete, Types, Records, RunSteps, SubmitOf, GateOf, RunOf
  <2>4. RunOf(i)'
    BY <2>1 DEF Delete, Types, Records, RunSteps, SubmitOf, GateOf, RunOf, RecordOf
  <2>5. RecordOf(i)'
    BY <2>1 DEF Delete, Types, Records, RunSteps, SubmitOf, GateOf, RunOf, RecordOf, EndOf
  <2>6. EndOf(i)'
    BY <2>1 DEF Delete, Types, Records, RunSteps, SubmitOf, GateOf, RunOf, RecordOf, EndOf
  <2> QED
    BY <2>2, <2>3, <2>4, <2>5, <2>6 DEF Import
<1>3. \A j \in Imports \ {i} : Import(j)'
  <2>1. \A j \in Imports \ {i} : Aside(j)
    BY DEF Delete, Aside, IInv, Types
  <2> QED
    BY <2>1, AsideKeeps DEF IInv
<1> QED
  BY <1>1, <1>2, <1>3 DEF IInv

-----------------------------------------------------------------------------
(* The end of one import at shutdown, and of a child left over.            *)

\* ExecutorTerminates: shutdown stops a child; its runner, asked already,
\* cleans up.
LEMMA ExecutorTerminatesStep ==
  ASSUME IInv, NEW i \in Imports, ExecutorTerminates(i)
  PROVE  IInv'
<1>1. Types'
  BY DEF ExecutorTerminates, IInv, Types, Records, RunSteps
<1>2. Import(i)'
  <2>1. Types /\ SubmitOf(i) /\ GateOf(i) /\ RunOf(i) /\ RecordOf(i) /\ EndOf(i)
    BY DEF IInv, Import
  <2>2. SubmitOf(i)'
    BY <2>1 DEF ExecutorTerminates, Types, Records, RunSteps, SubmitOf, GateOf, RunOf
  <2>3. GateOf(i)'
    BY <2>1 DEF ExecutorTerminates, Types, Records, RunSteps, SubmitOf, GateOf, RunOf
  <2>4. RunOf(i)'
    BY <2>1 DEF ExecutorTerminates, Types, Records, RunSteps, SubmitOf, GateOf, RunOf,
       RecordOf
  <2>5. RecordOf(i)'
    BY <2>1 DEF ExecutorTerminates, Types, Records, RunSteps, SubmitOf, GateOf, RunOf,
       RecordOf, EndOf
  <2>6. EndOf(i)'
    BY <2>1 DEF ExecutorTerminates, Types, Records, RunSteps, SubmitOf, GateOf, RunOf,
       RecordOf, EndOf
  <2> QED
    BY <2>2, <2>3, <2>4, <2>5, <2>6 DEF Import
<1>3. \A j \in Imports \ {i} : Import(j)'
  <2>1. \A j \in Imports \ {i} : Aside(j)
    BY DEF ExecutorTerminates, Aside, IInv, Types
  <2> QED
    BY <2>1, AsideKeeps DEF IInv
<1> QED
  BY <1>1, <1>2, <1>3 DEF IInv

\* InterruptEnters: shutdown interrupts only what waited when dispatch
\* stopped.
LEMMA InterruptEntersStep ==
  ASSUME IInv, NEW i \in Imports, InterruptEnters(i)
  PROVE  IInv'
<1>1. Types'
  BY DEF InterruptEnters, IInv, Types, Records, RunSteps
<1>2. Import(i)'
  <2>1. Types /\ SubmitOf(i) /\ GateOf(i) /\ RunOf(i) /\ RecordOf(i) /\ EndOf(i)
    BY DEF IInv, Import
  <2>2. SubmitOf(i)'
    BY <2>1 DEF InterruptEnters, Types, Records, RunSteps, SubmitOf, GateOf, RunOf
  <2>3. GateOf(i)'
    BY <2>1 DEF InterruptEnters, Types, Records, RunSteps, SubmitOf, GateOf, RunOf
  <2>4. RunOf(i)'
    BY <2>1 DEF InterruptEnters, Types, Records, RunSteps, SubmitOf, GateOf, RunOf, RecordOf
  <2>5. RecordOf(i)'
    BY <2>1 DEF InterruptEnters, Types, Records, RunSteps, SubmitOf, GateOf, RunOf,
       RecordOf, EndOf
  <2>6. EndOf(i)'
    BY <2>1 DEF InterruptEnters, Types, Records, RunSteps, SubmitOf, GateOf, RunOf,
       RecordOf, EndOf
  <2> QED
    BY <2>2, <2>3, <2>4, <2>5, <2>6 DEF Import
<1>3. \A j \in Imports \ {i} : Import(j)'
  <2>1. \A j \in Imports \ {i} : Aside(j)
    BY DEF InterruptEnters, Aside, IInv, Types
  <2> QED
    BY <2>1, AsideKeeps DEF IInv
<1> QED
  BY <1>1, <1>2, <1>3 DEF IInv

\* InterruptCleans: the stage and the room go before the record fails.
LEMMA InterruptCleansStep ==
  ASSUME IInv, NEW i \in Imports, InterruptCleans(i)
  PROVE  IInv'
<1>1. Types'
  <2>1. \/ staging' = staging
        \/ staging' = [staging EXCEPT ![i] = TRUE]
        \/ staging' = [staging EXCEPT ![i] = FALSE]
    BY DEF InterruptCleans
  <2>2. \/ reserved' = reserved
        \/ reserved' = [reserved EXCEPT ![i] = TRUE]
        \/ reserved' = [reserved EXCEPT ![i] = FALSE]
    BY DEF InterruptCleans
  <2>3. staging' \in [Imports -> BOOLEAN] /\ reserved' \in [Imports -> BOOLEAN]
    BY <2>1, <2>2, ZenonT(60) DEF IInv, Types
  <2> QED
    BY <2>3 DEF InterruptCleans, IInv, Types, Records, RunSteps
<1>2. Import(i)'
  <2>1. Types /\ SubmitOf(i) /\ GateOf(i) /\ RunOf(i) /\ RecordOf(i) /\ EndOf(i)
    BY DEF IInv, Import
  <2>2. SubmitOf(i)'
    BY <2>1 DEF InterruptCleans, Types, Records, RunSteps, SubmitOf, GateOf, RunOf
  <2>3. GateOf(i)'
    BY <2>1 DEF InterruptCleans, Types, Records, RunSteps, SubmitOf, GateOf, RunOf
  <2>4. RunOf(i)'
    BY <2>1 DEF InterruptCleans, Types, Records, RunSteps, SubmitOf, GateOf, RunOf, RecordOf
  <2>5. RecordOf(i)'
    BY <2>1 DEF InterruptCleans, Types, Records, RunSteps, SubmitOf, GateOf, RunOf,
       RecordOf, EndOf
  <2>6. EndOf(i)'
    BY <2>1 DEF InterruptCleans, Types, Records, RunSteps, SubmitOf, GateOf, RunOf,
       RecordOf, EndOf
  <2> QED
    BY <2>2, <2>3, <2>4, <2>5, <2>6 DEF Import
<1>3. \A j \in Imports \ {i} : Import(j)'
  <2>1. \A j \in Imports \ {i} : Aside(j)
    BY DEF InterruptCleans, Aside, IInv, Types
  <2> QED
    BY <2>1, AsideKeeps DEF IInv
<1> QED
  BY <1>1, <1>2, <1>3 DEF IInv

\* InterruptSaves: disk and memory say failed together.
LEMMA InterruptSavesStep ==
  ASSUME IInv, NEW i \in Imports, InterruptSaves(i)
  PROVE  IInv'
<1>1. Types'
  BY DEF InterruptSaves, IInv, Types, Records, RunSteps
<1>2. Import(i)'
  <2>1. Types /\ SubmitOf(i) /\ GateOf(i) /\ RunOf(i) /\ RecordOf(i) /\ EndOf(i)
    BY DEF IInv, Import
  <2>2. SubmitOf(i)'
    BY <2>1 DEF InterruptSaves, Types, Records, RunSteps, SubmitOf, GateOf, RunOf
  <2>3. GateOf(i)'
    BY <2>1 DEF InterruptSaves, Types, Records, RunSteps, SubmitOf, GateOf, RunOf
  <2>4. RunOf(i)'
    BY <2>1 DEF InterruptSaves, Types, Records, RunSteps, SubmitOf, GateOf, RunOf, RecordOf
  <2>5. RecordOf(i)'
    BY <2>1 DEF InterruptSaves, Types, Records, RunSteps, SubmitOf, GateOf, RunOf,
       RecordOf, EndOf
  <2>6. EndOf(i)'
    BY <2>1 DEF InterruptSaves, Types, Records, RunSteps, SubmitOf, GateOf, RunOf,
       RecordOf, EndOf
  <2> QED
    BY <2>2, <2>3, <2>4, <2>5, <2>6 DEF Import
<1>3. \A j \in Imports \ {i} : Import(j)'
  <2>1. \A j \in Imports \ {i} : Aside(j)
    BY DEF InterruptSaves, Aside, IInv, Types
  <2> QED
    BY <2>1, AsideKeeps DEF IInv
<1> QED
  BY <1>1, <1>2, <1>3 DEF IInv

\* OrphanEnds: a child without a runner ends by itself.
LEMMA OrphanEndsStep ==
  ASSUME IInv, NEW i \in Imports, OrphanEnds(i)
  PROVE  IInv'
<1>1. Types'
  BY DEF OrphanEnds, IInv, Types, Records, RunSteps
<1>2. Import(i)'
  <2>1. Types /\ SubmitOf(i) /\ GateOf(i) /\ RunOf(i) /\ RecordOf(i) /\ EndOf(i)
    BY DEF IInv, Import
  <2>2. SubmitOf(i)'
    BY <2>1 DEF OrphanEnds, Types, Records, RunSteps, SubmitOf, GateOf, RunOf
  <2>3. GateOf(i)'
    BY <2>1 DEF OrphanEnds, Types, Records, RunSteps, SubmitOf, GateOf, RunOf
  <2>4. RunOf(i)'
    BY <2>1 DEF OrphanEnds, Types, Records, RunSteps, SubmitOf, GateOf, RunOf, RecordOf
  <2>5. RecordOf(i)'
    BY <2>1 DEF OrphanEnds, Types, Records, RunSteps, SubmitOf, GateOf, RunOf, RecordOf,
       EndOf
  <2>6. EndOf(i)'
    BY <2>1 DEF OrphanEnds, Types, Records, RunSteps, SubmitOf, GateOf, RunOf, RecordOf,
       EndOf
  <2> QED
    BY <2>2, <2>3, <2>4, <2>5, <2>6 DEF Import
<1>3. \A j \in Imports \ {i} : Import(j)'
  <2>1. \A j \in Imports \ {i} : Aside(j)
    BY DEF OrphanEnds, Aside, IInv, Types
  <2> QED
    BY <2>1, AsideKeeps DEF IInv
<1> QED
  BY <1>1, <1>2, <1>3 DEF IInv

-----------------------------------------------------------------------------
(* Shutdown, crashes and starts concern every import.                      *)

\* StopDispatch: when dispatch stops, what waited still has all that was
\* prepared for it.
LEMMA StopDispatchStep ==
  ASSUME IInv, StopDispatch
  PROVE  IInv'
<1>1. Types'
  BY DEF StopDispatch, IInv, Types
<1>2. ASSUME NEW j \in Imports
      PROVE  Import(j)'
  <2>1. Types /\ SubmitOf(j) /\ GateOf(j) /\ RunOf(j) /\ RecordOf(j) /\ EndOf(j)
    BY DEF IInv, Import
  <2>2. SubmitOf(j)'
    BY <2>1 DEF StopDispatch, Types, SubmitOf, GateOf, RunOf
  <2>3. GateOf(j)'
    BY <2>1 DEF StopDispatch, Types, SubmitOf, GateOf, RunOf
  <2>4. RunOf(j)'
    BY <2>1 DEF StopDispatch, Types, GateOf, RunOf
  <2>5. RecordOf(j)'
    BY <2>1 DEF StopDispatch, Types, RecordOf
  <2>6. EndOf(j)'
    BY <2>1 DEF StopDispatch, Types, GateOf, RunOf, EndOf
  <2> QED
    BY <2>2, <2>3, <2>4, <2>5, <2>6 DEF Import
<1> QED
  BY <1>1, <1>2 DEF IInv

\* CancelActive: only runners of active imports are asked to stop.
LEMMA CancelActiveStep ==
  ASSUME IInv, CancelActive
  PROVE  IInv'
<1>1. Types'
  BY DEF CancelActive, IInv, Types
<1>2. ASSUME NEW j \in Imports
      PROVE  Import(j)'
  <2>1. Types /\ SubmitOf(j) /\ GateOf(j) /\ RunOf(j) /\ RecordOf(j) /\ EndOf(j)
    BY DEF IInv, Import
  <2>2. SubmitOf(j)'
    BY <2>1 DEF CancelActive, Types, SubmitOf, GateOf, RunOf
  <2>3. GateOf(j)'
    BY <2>1 DEF CancelActive, Types, SubmitOf, GateOf, RunOf
  <2>4. RunOf(j)'
    BY <2>1 DEF CancelActive, Types, GateOf, RunOf
  <2>5. RecordOf(j)'
    BY <2>1 DEF CancelActive, Types, RecordOf
  <2>6. EndOf(j)'
    BY <2>1 DEF CancelActive, Types, GateOf, RunOf, EndOf
  <2> QED
    BY <2>2, <2>3, <2>4, <2>5, <2>6 DEF Import
<1> QED
  BY <1>1, <1>2 DEF IInv

\* Nothing in memory survives the end of a process.
LEMMA ForgetStep ==
  ASSUME IInv, Forget, restarts < MaxRestarts, phase # "down"
  PROVE  IInv'
<1>1. Types'
  BY DEF Forget, IInv, Types, Records, RunSteps
<1>2. ASSUME NEW j \in Imports
      PROVE  Import(j)'
  <2>1. Types /\ SubmitOf(j) /\ GateOf(j) /\ RunOf(j) /\ RecordOf(j) /\ EndOf(j)
    BY DEF IInv, Import
  <2>2. SubmitOf(j)'
    BY <2>1 DEF Forget, Types, SubmitOf, GateOf
  <2>3. GateOf(j)'
    BY <2>1 DEF Forget, Types, GateOf
  <2>4. RunOf(j)'
    BY <2>1 DEF Forget, Types, RunOf
  <2>5. RecordOf(j)'
    BY <2>1 DEF Forget, Types, RecordOf
  <2>6. EndOf(j)'
    BY <2>1 DEF Forget, Types, EndOf
  <2> QED
    BY <2>2, <2>3, <2>4, <2>5, <2>6 DEF Import
<1> QED
  BY <1>1, <1>2 DEF IInv

\* Every stage is removed, and what was lost has failed unless it could not be
\* saved.
LEMMA BootStep ==
  ASSUME IInv, Boot
  PROVE  IInv'
<1> DEFINE lost == {i \in Imports : disk[i] \in {"queued", "running"}}
<1>1. PICK unsaved \in SUBSET lost :
        /\ faults' = faults \/ (faults < MaxFaults /\ faults' = faults + 1)
        /\ faulted' = unsaved
        /\ disk' = [i \in Imports |-> IF i \in lost \ unsaved THEN "failed" ELSE disk[i]]
        /\ mem' = [i \in Imports |-> IF i \in unsaved THEN "none" ELSE disk'[i]]
  BY DEF Boot
<1>2. Types'
  <2>1. disk' \in [Imports -> Records]
    BY <1>1 DEF IInv, Types, Records
  <2>2. mem' \in [Imports -> Records]
    BY <1>1, <2>1 DEF Records
  <2> QED
    BY <1>1, <2>1, <2>2 DEF Boot, ReconcileStages, IInv, Types
<1>3. ASSUME NEW j \in Imports
      PROVE  Import(j)'
  <2>1. Types /\ SubmitOf(j) /\ GateOf(j) /\ RunOf(j) /\ RecordOf(j) /\ EndOf(j)
    BY DEF IInv, Import
  <2>2. /\ submit[j] \in {"new", "refused"} /\ submit' = submit
        /\ Untouched(j) /\ Untouched(j)'
        /\ phase' = "serving" /\ ~reserved'[j] /\ ~staging'[j] /\ proc' = proc /\ table' = table
    BY <2>1 DEF Boot, ReconcileStages, SubmitOf, Types
  <2>3. \/ j \in faulted' /\ mem'[j] = "none" /\ disk'[j] = disk[j]
             /\ disk[j] \in {"queued", "running"}
        \/ mem'[j] = disk'[j] /\ disk'[j] \in {"failed", disk[j]}
             /\ disk'[j] \notin {"queued", "running"}
    BY <1>1
  <2>4. disk[j] \in Records /\ (submit[j] = "new" => disk[j] = "none" /\ disk'[j] = "none")
    BY <1>1, <2>1 DEF SubmitOf, Types
  <2>5. SubmitOf(j)'
    BY <2>1, <2>2, <2>3, <2>4 DEF SubmitOf, Records
  <2>6. GateOf(j)'
    BY <2>2 DEF GateOf
  <2>7. RunOf(j)'
    BY <2>2 DEF RunOf
  <2>8. RecordOf(j)'
    BY <2>1, <2>2, <2>3 DEF Boot, RecordOf
  <2>9. EndOf(j)'
    BY <2>2 DEF EndOf
  <2> QED
    BY <2>5, <2>6, <2>7, <2>8, <2>9 DEF Import
<1> QED
  BY <1>2, <1>3 DEF IInv

\* Before anything was asked of it an import is nowhere.
LEMMA InitIInv ==
  ASSUME ImportsInit
  PROVE  IInv
<1>1. Types
  BY DEF ImportsInit, Types, Records, RunSteps
<1>2. \A i \in Imports : Import(i)
  BY DEF ImportsInit, Import, SubmitOf, GateOf, RunOf, RecordOf, EndOf
<1> QED
  BY <1>1, <1>2 DEF IInv

\* IInv is inductive.
LEMMA NextIInv ==
  ASSUME IInv, [ImportsNext]_importVars
  PROVE  IInv'
<1>1. ASSUME NEW i \in Imports, Acquire(i) \/ SubmitStep(i) \/ Dispatch(i)
      PROVE  IInv'
  BY <1>1, AcquireStep, PrepareSampleStep, PreparePortalStep, SaveQueuedStep, RegisterStep,
     EnqueueStep, UndoStageStep, UndoRecordStep, DispatchStep DEF SubmitStep
<1>2. ASSUME NEW i \in Imports, RunnerStep(i)
      PROVE  IInv'
  BY <1>2, RunEntersStep, RunSavesStep, RunStartsStep, LaunchStep, ExecuteEndsStep,
     CompleteEntersStep, RecheckStep, InstallStep, SaveSucceededStep, MarkSucceededStep,
     RunnerCancelledStep, TerminateStep, RunCleansStep, RunReleasesStep, RunFinishesStep,
     RunnerEndsStep DEF RunnerStep
<1>3. ASSUME NEW i \in Imports,
             ReportInvalid(i) \/ CancelQueued(i) \/ CancelRunning(i) \/ UserStep(i) \/ Delete(i)
      PROVE  IInv'
  BY <1>3, ReportInvalidStep, CancelQueuedStep, CancelRunningStep, CancelCleansStep,
     CancelSavesStep, CancelRequestedStep, DeleteStep DEF UserStep
<1>4. ASSUME NEW i \in Imports,
             \/ OrphanEnds(i) \/ ExecutorTerminates(i) \/ InterruptEnters(i)
             \/ InterruptCleans(i) \/ InterruptSaves(i)
      PROVE  IInv'
  BY <1>4, OrphanEndsStep, ExecutorTerminatesStep, InterruptEntersStep, InterruptCleansStep,
     InterruptSavesStep
<1>5. CASE Crash \/ Closed
  BY <1>5, ForgetStep DEF Crash, Closed
<1>6. CASE UNCHANGED importVars
  BY <1>6 DEF importVars, IInv, Types, Import, SubmitOf, GateOf, RunOf, RecordOf, EndOf
<1> QED
  BY <1>1, <1>2, <1>3, <1>4, <1>5, <1>6, StopDispatchStep, CancelActiveStep, BootStep
     DEF ImportsNext, CloseStep

\* In every reachable state what is said of a submission, a runner, a request
\* and the two records of an import is true of each of them.
THEOREM ImportsInvariance == ImportsSpec => []IInv
<1>1. ImportsInit => IInv
  BY InitIInv
<1>2. IInv /\ [ImportsNext]_importVars => IInv'
  BY NextIInv
<1> QED
  BY <1>1, <1>2, PTL DEF ImportsSpec

\* An import that is over, or was refused, holds neither stage nor room, whoever
\* ended it; and whatever works in a stage has it, and its room.
THEOREM StageLasts == ImportsSpec => []StageLastsAsLongAsItsWork
<1>1. ASSUME IInv
      PROVE  StageLastsAsLongAsItsWork
  <2>1. ImportsTypeOK
    <3>1. {creq, table, reserved, staging, proc} \subseteq [Imports -> BOOLEAN]
      BY <1>1 DEF IInv, Types
    <3> QED
      BY <1>1, <3>1 DEF IInv, Types, ImportsTypeOK
  <2>2. ASSUME NEW i \in Imports
        PROVE  /\ Quiet(i) /\ mem[i] \in Terminal \cup {"none"} => ~staging[i] /\ ~reserved[i]
               /\ \/ proc[i] /\ run[i] # "none"
                  \/ run[i] \in {"launching", "executing", "result", "rechecking", "installing"}
                  => staging[i] /\ reserved[i]
    <3>1. Types /\ SubmitOf(i) /\ GateOf(i) /\ RunOf(i) /\ EndOf(i)
      BY <1>1 DEF IInv, Import
    <3> QED
      BY <3>1 DEF Types, Quiet, SubmitOf, GateOf, RunOf, EndOf
  <2> QED
    BY <2>1, <2>2 DEF StageLastsAsLongAsItsWork
<1>2. IInv => StageLastsAsLongAsItsWork
  BY <1>1
<1> QED
  BY <1>2, ImportsInvariance, PTL

\* The history in memory is the one on disk, and says succeeded only of an
\* import whose files were published.
THEOREM HistoryTruthful == ImportsSpec => []HistoryIsTruthful
<1>1. ASSUME IInv, NEW i \in Imports
      PROVE  /\ phase = "serving" /\ Quiet(i) => mem[i] = disk[i]
             /\ "succeeded" \in {mem[i], disk[i]} => i \in installed
  <2>1. Types /\ SubmitOf(i) /\ GateOf(i) /\ RunOf(i) /\ RecordOf(i) /\ EndOf(i)
    BY <1>1 DEF IInv, Import
  <2> QED
    BY <2>1 DEF Types, Records, Quiet, SubmitOf, GateOf, RunOf, RecordOf, EndOf
<1>2. IInv => HistoryIsTruthful
  BY <1>1 DEF HistoryIsTruthful
<1> QED
  BY <1>2, ImportsInvariance, PTL

\* What EndedRecordsLast says of one import.
Lasts(i) == disk[i] \in Terminal =>
              \/ disk'[i] \in {disk[i], "none"}
              \/ disk[i] = "succeeded" /\ mem[i] = "running" /\ phase # "serving"

\* No step undoes the saved end of an import.
LEMMA StepLasts ==
  ASSUME IInv, [ImportsNext]_importVars, NEW i \in Imports
  PROVE  Lasts(i)
<1>1. Types /\ SubmitOf(i) /\ GateOf(i) /\ RunOf(i) /\ RecordOf(i) /\ EndOf(i)
  BY DEF IInv, Import
<1>2. ASSUME NEW j \in Imports, Acquire(j) \/ SubmitStep(j) \/ Dispatch(j)
      PROVE  Lasts(i)
  <2>1. SubmitOf(j)
    BY DEF IInv, Import
  <2> QED
    BY <1>1, <1>2, <2>1 DEF SubmitStep, Acquire, PrepareSample, PreparePortal,
       SaveQueued, Register,
         Enqueue, UndoStage, UndoRecord, Dispatch, Lasts, SubmitOf, Types
<1>3. ASSUME NEW j \in Imports, RunnerStep(j)
      PROVE  Lasts(i)
  <2>1. CASE j # i
    <3>1. disk'[i] = disk[i]
      BY <1>1, <1>3, <2>1 DEF RunnerStep, RunEnters, RunSaves, RunStarts, Launch,
         ExecuteEnds,
           CompleteEnters, Recheck, Install, SaveSucceeded, MarkSucceeded, RunnerCancelled,
           Terminate, RunCleans, RunReleases, RunFinishes, RunnerEnds, Types
    <3> QED
      BY <3>1 DEF Lasts
  <2>2. CASE j = i
    <3>1. CASE RunSaves(i) \/ SaveSucceeded(i)
      BY <1>1, <3>1 DEF RunSaves, SaveSucceeded, RunOf, RecordOf, SubmitOf, Lasts
    <3>2. CASE RunFinishes(i)
      BY <1>1, <3>2 DEF RunFinishes, FinalRecord, RecordOf, SubmitOf, Lasts, Types
    <3>3. CASE disk' = disk
      BY <3>3 DEF Lasts
    <3> QED
      BY <1>3, <2>2, <3>1, <3>2, <3>3 DEF RunnerStep, RunEnters, RunStarts, Launch,
         ExecuteEnds,
           CompleteEnters, Recheck, Install, MarkSucceeded, RunnerCancelled, Terminate,
           RunCleans, RunReleases, RunnerEnds
  <2> QED
    BY <2>1, <2>2
<1>4. ASSUME NEW j \in Imports,
             ReportInvalid(j) \/ CancelQueued(j) \/ CancelRunning(j) \/ UserStep(j) \/ Delete(j)
      PROVE  Lasts(i)
  <2>1. SubmitOf(j) /\ GateOf(j) /\ RecordOf(j)
    BY DEF IInv, Import
  <2> QED
    BY <1>1, <1>4, <2>1 DEF ReportInvalid, CancelQueued, CancelRunning, UserStep,
       CancelCleans,
         CancelSaves, CancelRequested, Delete, Lasts, SubmitOf, GateOf, RecordOf, Types
<1>5. ASSUME NEW j \in Imports,
             \/ OrphanEnds(j) \/ ExecutorTerminates(j) \/ InterruptEnters(j)
             \/ InterruptCleans(j) \/ InterruptSaves(j)
      PROVE  Lasts(i)
  <2>1. GateOf(j)
    BY DEF IInv, Import
  <2> QED
    BY <1>1, <1>5, <2>1 DEF OrphanEnds, ExecutorTerminates, InterruptEnters,
       InterruptCleans,
         InterruptSaves, GateOf, Lasts, Types
<1>6. CASE StopDispatch \/ CancelActive \/ Crash \/ Closed \/ UNCHANGED importVars
  BY <1>6 DEF StopDispatch, CancelActive, Crash, Closed, Forget, importVars, Lasts
<1>7. CASE Boot
  BY <1>1, <1>7 DEF Boot, Lasts, Types
<1> QED
  BY <1>2, <1>3, <1>4, <1>5, <1>6, <1>7 DEF ImportsNext, CloseStep

\* A saved end changes by deletion only, but for a success that shutdown caught
\* before memory had it.
THEOREM EndedLast == ImportsSpec => EndedRecordsLast
<1>1. IInv /\ [ImportsNext]_importVars => [\A i \in Imports : Lasts(i)]_importVars
  BY StepLasts
<1>2. [][\A i \in Imports : Lasts(i)]_importVars <=> EndedRecordsLast
  BY DEF Lasts, EndedRecordsLast
<1> QED
  BY <1>1, <1>2, ImportsInvariance, PTL DEF ImportsSpec

=============================================================================
