----------------------------- MODULE UserFiles ------------------------------
(***************************************************************************)
(* The files of the users (services/user_files.py over safe_paths.py) and  *)
(* the snapshots that downloads and exports are served from                *)
(* (services/response_snapshots.py), over StorageAdmission.                *)
(*                                                                         *)
(* An operation is one request.  It goes through its steps (pc): admission,*)
(* the lock of its user, the checks, the write, and the way back.  The tree*)
(* of a user is its root and one folder, and a name in each: uploads, moves*)
(* and deletions all meet there.  Sizes are in allocation units.           *)
(***************************************************************************)
EXTENDS StorageAdmission, Sums

CONSTANTS
  KindsOf,           \* the kinds of request every operation may be
  FirstPolicy,       \* the quotas at first
  HaveFolder,        \* the users who have the folder at first, and maybe a file in it
  Policies,          \* quotas an administrator may set
  MaxUpload,         \* max_upload_bytes
  MaxSnapshots,      \* max_concurrent_snapshots
  Disk,              \* the size of the shared disk
  MaxDisturbances    \* bounds cancellations, changes of a policy and crashes

Dirs == {"root", "sub"}
OtherDir(d) == IF d = "root" THEN "sub" ELSE "root"

ASSUME UserFilesAssumption ==
  /\ KindsOf \in [Ops -> SUBSET {"upload", "folder", "move", "delete",
                                  "download", "export"}]
  /\ Policies \subseteq Nat \cup {Unlimited}
  /\ FirstPolicy \in [Users -> Policies]
  /\ HaveFolder \subseteq Users /\ IsFiniteSet(HaveFolder)
  /\ {MaxUpload, MaxSnapshots, Disk} \subseteq Nat \ {0}
  /\ MaxDisturbances \in Nat
  /\ Disk >= MinFree + 2 * Cardinality(HaveFolder)

VARIABLES
  pc, kind, dir,   \* of every operation: its step, what it is and where
  size,            \* of the file in either directory of a user, 0 without one
  hasSub,          \* does the user have the folder?
  lock,            \* who holds UserFileStore._lock_for
  temp,            \* units of an upload's temporary file, 0 without one
  copy,            \* units of a response snapshot, 0 without one
  freeSlots,       \* ResponseSnapshotService._slots
  cancelled,       \* operations whose task has been cancelled
  leftover,        \* units of temporary files and snapshots of an ended process
  disturbances,
  ceiling,         \* history: the largest policy of a user so far
  hidden,          \* history: units moved behind the back of a scan
  leaked,          \* history: reservations no operation holds any more
  unbacked         \* history: folders made without headroom

fileVars == <<pc, kind, dir, size, hasSub, lock, temp, copy, freeSlots,
              cancelled, leftover, disturbances,
              ceiling, hidden, leaked, unbacked>>
requestVars == <<admissionVars, fileVars>>

Steps == {"idle", "reserve", "reserving", "headroom", "lock", "check", "stream",
          "recheck", "rechecking", "publish", "cleanup", "slot", "snapshot",
          "copying", "giveBack", "unlock", "respond", "release", "released",
          "lost", "done"}

\* What a scan counts: files and folders, without temporary files.
FirstDirectory(u) == size[u]["root"]
SecondDirectory(u) == (IF hasSub[u] THEN 1 ELSE 0) + size[u]["sub"]
Owned(u) == FirstDirectory(u) + SecondDirectory(u)

OwnedBy == [u \in Users |-> Owned(u)]
Free == Disk - Sum(OwnedBy, Users) - Sum(temp, Ops) - Sum(copy, Ops) - leftover

Larger(a, b) == IF a = Unlimited \/ b = Unlimited THEN Unlimited
                ELSE IF a > b THEN a ELSE b

\* Content asked for: an upload reserves the largest it may become.
Content(o) == IF kind[o] = "upload" THEN MaxUpload ELSE 0
Request(o) == ReservationUnits(Content(o), 1)

Goto(o, step) == pc' = [pc EXCEPT ![o] = step]

\* After the lock: a reservation is released, or the request is over.
AfterLock(o) == IF kind[o] \in {"upload", "folder"} THEN "release" ELSE "done"

-----------------------------------------------------------------------------
FilesInit ==
  /\ AdmissionInit
  /\ policy = FirstPolicy
  /\ pc = [o \in Ops |-> "idle"]
  /\ kind = [o \in Ops |-> "none"]
  /\ dir = [o \in Ops |-> "root"]
  /\ hasSub = [u \in Users |-> u \in HaveFolder]
  /\ \E n \in 0 .. 1 :
       size = [u \in Users |-> [d \in Dirs |-> IF d = "sub" /\ hasSub[u] THEN n ELSE 0]]
  /\ lock = [u \in Users |-> NoOp]
  /\ temp = [o \in Ops |-> 0]
  /\ copy = [o \in Ops |-> 0]
  /\ freeSlots = MaxSnapshots
  /\ cancelled = {}
  /\ leftover = 0 /\ disturbances = 0
  /\ ceiling = [u \in Users |-> Larger(policy[u], Owned(u))]
  /\ hidden = [u \in Users |-> 0]
  /\ leaked = [u \in Users |-> 0]
  /\ unbacked = 0

Begin(o) ==
  /\ pc[o] = "idle"
  /\ \E k \in KindsOf[o], d \in Dirs :
       /\ k \in {"folder", "export"} => d = "root"
       /\ kind' = [kind EXCEPT ![o] = k]
       /\ dir' = [dir EXCEPT ![o] = d]
       /\ Goto(o, CASE k \in {"upload", "folder"} -> "reserve"
                    [] k \in {"move", "delete", "download"} -> "lock"
                    [] k = "export" -> "slot")
  /\ UNCHANGED <<admissionVars, size, hasSub, lock, temp, copy,
                 freeSlots, cancelled, leftover, disturbances, ceiling,
                 hidden, leaked, unbacked>>

-----------------------------------------------------------------------------
(* Admission.                                                              *)

FilesUnchanged ==
  UNCHANGED <<kind, dir, size, hasSub, lock, temp, copy, freeSlots, cancelled,
              leftover, disturbances, ceiling, hidden, unbacked>>

\* A user without a quota gets an empty reservation.
ReserveNothing(o) ==
  /\ pc[o] = "reserve" /\ o \notin cancelled
  /\ QuotaGateIsFree(o) /\ policy[UserOf[o]] = Unlimited
  /\ Goto(o, "headroom")
  /\ FilesUnchanged /\ UNCHANGED <<admissionVars, leaked>>

ReserveScans(o) ==
  /\ pc[o] = "reserve" /\ o \notin cancelled
  /\ policy[UserOf[o]] # Unlimited
  /\ EnterGate(o, FirstDirectory(UserOf[o]))
  /\ Goto(o, "reserving")
  /\ FilesUnchanged
  /\ UNCHANGED <<policy, reservedByUser, quota, reservedTotal, physical, leaked>>

\* The second directory has been counted.  A cancellation that came during
\* the scan is noticed as the gate is left, after the sum has grown.
ReserveDecides(o) ==
  LET u == UserOf[o]
      used == scanned[o] + SecondDirectory(u)
  IN /\ pc[o] = "reserving"
     /\ LeaveGate(o)
     /\ IF ~Fits(o, used, Request(o))
        THEN Goto(o, "done") /\ KeepQuota /\ UNCHANGED leaked
        ELSE IF o \in cancelled
        THEN /\ Goto(o, "done")
             /\ LoseQuota(o, Request(o))
             /\ leaked' = [leaked EXCEPT ![u] = @ + Request(o)]
        ELSE Goto(o, "headroom") /\ SetQuota(o, Request(o)) /\ UNCHANGED leaked
     /\ FilesUnchanged
     /\ UNCHANGED <<policy, reservedTotal, physical>>

\* Mutant: a refusal keeps the quota.
RefuseHeadroom(o) ==
  LET units == PhysicalUnits(o, Content(o))
  IN /\ pc[o] = "headroom" /\ o \notin cancelled
     /\ IF HasHeadroom(Free, units)
        THEN Goto(o, "lock") /\ TakeHeadroom(o, units)
        ELSE Goto(o, "done") /\ UNCHANGED <<reservedTotal, physical>>
     /\ FilesUnchanged
     /\ UNCHANGED <<policy, reservedByUser, quotaGate, limitSeen, scanned, quota, leaked>>

\* The disk after the quota; a refusal returns the quota.
ReserveHeadroom(o) ==
  LET units == PhysicalUnits(o, Content(o))
  IN /\ pc[o] = "headroom" /\ o \notin cancelled
     /\ IF HasHeadroom(Free, units)
        THEN Goto(o, "lock") /\ TakeHeadroom(o, units)
        ELSE Goto(o, "release") /\ UNCHANGED <<reservedTotal, physical>>
     /\ FilesUnchanged
     /\ UNCHANGED <<policy, reservedByUser, quotaGate, limitSeen, scanned, quota,
                    leaked>>

\* The release is shielded from cancellation.
ReleaseQuota(o) ==
  /\ pc[o] = "release"
  /\ ReturnQuota(o)
  /\ Goto(o, "released")
  /\ FilesUnchanged /\ UNCHANGED leaked

ReleaseHeadroom(o) ==
  /\ pc[o] = "released"
  /\ ReturnHeadroom(o)
  /\ Goto(o, "done")
  /\ FilesUnchanged
  /\ UNCHANGED <<policy, reservedByUser, quotaGate, limitSeen, scanned, quota,
                 leaked>>

-----------------------------------------------------------------------------
(* The lock of the user and what happens under it.                         *)

TakeLock(o) ==
  /\ pc[o] = "lock" /\ o \notin cancelled
  /\ lock[UserOf[o]] = NoOp
  /\ lock' = [lock EXCEPT ![UserOf[o]] = o]
  /\ Goto(o, "check")
  /\ UNCHANGED <<admissionVars, kind, dir, size, hasSub, temp, copy, freeSlots,
                 cancelled, leftover, disturbances, ceiling, hidden, leaked,
                 unbacked>>

DirExists(u, d) == d = "root" \/ hasSub[u]

TreeUnchanged == UNCHANGED <<size, hasSub, hidden, unbacked>>

LockedUnchanged ==
  UNCHANGED <<admissionVars, kind, dir, lock, copy, freeSlots, cancelled, leftover,
              disturbances, ceiling, leaked>>

\* _upload_admitted: the destination must be new, in a folder that exists.
CheckUpload(o) ==
  LET u == UserOf[o]
  IN /\ pc[o] = "check" /\ kind[o] = "upload"
     /\ IF DirExists(u, dir[o]) /\ size[u][dir[o]] = 0 /\ o \notin cancelled
        THEN Goto(o, "stream") /\ temp' = [temp EXCEPT ![o] = 1]
        ELSE Goto(o, "unlock") /\ UNCHANGED temp
     /\ TreeUnchanged /\ LockedUnchanged

MakeFolder(o) ==
  LET u == UserOf[o]
  IN /\ pc[o] = "check" /\ kind[o] = "folder"
     /\ Goto(o, "unlock")
     /\ IF ~hasSub[u] /\ o \notin cancelled
        THEN /\ hasSub' = [hasSub EXCEPT ![u] = TRUE]
             /\ unbacked' = unbacked + (IF physical[o] = 0 THEN 1 ELSE 0)
        ELSE UNCHANGED <<hasSub, unbacked>>
     /\ UNCHANGED <<size, temp, hidden>> /\ LockedUnchanged

\* Has a scan of the user counted the root, but not the folder?
BeingScanned(u) == quotaGate[u] # NoOp

\* The file is linked at its new place before it leaves the old one; a scan
\* that is between the two directories misses one moved up, and counts one
\* moved down twice.
Move(o) ==
  LET u == UserOf[o]
      to == OtherDir(dir[o])
      n == size[u][dir[o]]
  IN /\ pc[o] = "check" /\ kind[o] = "move"
     /\ Goto(o, "unlock")
     /\ IF n > 0 /\ DirExists(u, to) /\ size[u][to] = 0 /\ o \notin cancelled
        THEN /\ size' = [size EXCEPT ![u][to] = n, ![u][dir[o]] = 0]
             /\ hidden' = [hidden EXCEPT ![u] =
                  @ + (IF to = "root" /\ BeingScanned(u) THEN n ELSE 0)]
        ELSE UNCHANGED <<size, hidden>>
     /\ UNCHANGED <<hasSub, temp, unbacked>> /\ LockedUnchanged

\* One file, or the folder with everything in it.
DeleteFile(o) ==
  LET u == UserOf[o]
  IN /\ pc[o] = "check" /\ kind[o] = "delete"
     /\ Goto(o, "unlock")
     /\ \/ /\ size[u][dir[o]] > 0 /\ o \notin cancelled
           /\ size' = [size EXCEPT ![u][dir[o]] = 0]
           /\ UNCHANGED hasSub
        \/ /\ dir[o] = "sub" /\ hasSub[u] /\ o \notin cancelled
           /\ size' = [size EXCEPT ![u]["sub"] = 0]
           /\ hasSub' = [hasSub EXCEPT ![u] = FALSE]
        \/ /\ size[u][dir[o]] = 0 \/ o \in cancelled
           /\ UNCHANGED <<size, hasSub>>
     /\ UNCHANGED <<temp, hidden, unbacked>> /\ LockedUnchanged

CheckDownload(o) ==
  /\ pc[o] = "check" /\ kind[o] = "download"
  /\ Goto(o, IF size[UserOf[o]][dir[o]] > 0 /\ o \notin cancelled
             THEN "slot" ELSE "unlock")
  /\ UNCHANGED temp /\ TreeUnchanged /\ LockedUnchanged

\* A chunk of the request body is appended to the temporary file.
Stream(o) ==
  /\ pc[o] = "stream" /\ o \notin cancelled
  /\ temp[o] < MaxUpload
  /\ temp' = [temp EXCEPT ![o] = @ + 1]
  /\ UNCHANGED pc /\ TreeUnchanged /\ LockedUnchanged

\* The body ends, or it is too large or breaks off.
StreamEnds(o) ==
  /\ pc[o] = "stream"
  /\ \/ o \notin cancelled /\ Goto(o, "recheck")
     \/ Goto(o, "cleanup")
  /\ UNCHANGED temp /\ TreeUnchanged /\ LockedUnchanged

\* recheck_path with the latest policy; without one nothing stays reserved.
RecheckNothing(o) ==
  /\ pc[o] = "recheck" /\ o \notin cancelled
  /\ QuotaGateIsFree(o) /\ policy[UserOf[o]] = Unlimited
  /\ SetQuota(o, 0)
  /\ Goto(o, "publish")
  /\ FilesUnchanged
  /\ UNCHANGED <<policy, quotaGate, limitSeen, scanned, reservedTotal, physical,
                 leaked>>

RecheckScans(o) ==
  /\ pc[o] = "recheck" /\ o \notin cancelled
  /\ policy[UserOf[o]] # Unlimited
  /\ EnterGate(o, FirstDirectory(UserOf[o]))
  /\ Goto(o, "rechecking")
  /\ FilesUnchanged
  /\ UNCHANGED <<policy, reservedByUser, quota, reservedTotal, physical, leaked>>

RecheckDecides(o) ==
  LET used == scanned[o] + SecondDirectory(UserOf[o])
  IN /\ pc[o] = "rechecking"
     /\ LeaveGate(o)
     /\ IF Fits(o, used, temp[o])
        THEN Goto(o, IF o \in cancelled THEN "cleanup" ELSE "publish")
             /\ SetQuota(o, temp[o])
        ELSE Goto(o, "cleanup") /\ KeepQuota
     /\ FilesUnchanged /\ UNCHANGED <<policy, reservedTotal, physical, leaked>>

\* publish_file: link the temporary file at its destination, then unlink it.
Publish(o) ==
  LET u == UserOf[o]
  IN /\ pc[o] = "publish" /\ o \notin cancelled
     /\ Goto(o, "cleanup")
     /\ IF size[u][dir[o]] = 0
        THEN /\ size' = [size EXCEPT ![u][dir[o]] = temp[o]]
             /\ temp' = [temp EXCEPT ![o] = 0]
        ELSE UNCHANGED <<size, temp>>
     /\ UNCHANGED <<hasSub, hidden, unbacked>> /\ LockedUnchanged

\* The shielded end of an upload: no temporary file survives it.
CleanUp(o) ==
  /\ pc[o] = "cleanup"
  /\ temp' = [temp EXCEPT ![o] = 0]
  /\ Goto(o, "unlock")
  /\ TreeUnchanged /\ LockedUnchanged

\* Leaving the lock of the user awaits the lock of the registry: a cancelled
\* download raises there, and nobody has the snapshot it made.
Unlock(o) ==
  /\ pc[o] = "unlock"
  /\ lock' = [lock EXCEPT ![UserOf[o]] = NoOp]
  /\ Goto(o, IF copy[o] = 0 THEN AfterLock(o)
             ELSE IF o \in cancelled THEN "lost" ELSE "respond")
  /\ UNCHANGED <<admissionVars, kind, dir, size, hasSub, temp, copy, freeSlots,
                 cancelled, leftover, disturbances, ceiling, hidden, leaked,
                 unbacked>>

-----------------------------------------------------------------------------
(* Response snapshots.  A download is still under the lock of its user.    *)

AfterSnapshot(o) == IF kind[o] = "download" THEN "unlock" ELSE "respond"
WithoutSnapshot(o) == IF kind[o] = "download" THEN "unlock" ELSE "done"

TakeSlot(o) ==
  /\ pc[o] = "slot" /\ o \notin cancelled
  /\ freeSlots > 0
  /\ freeSlots' = freeSlots - 1
  /\ Goto(o, "snapshot")
  /\ UNCHANGED <<admissionVars, kind, dir, size, hasSub, lock, temp, copy,
                 cancelled, leftover, disturbances, ceiling, hidden, leaked,
                 unbacked>>

\* The bytes of the source, or the most the producer of an export may write.
SnapshotUnits(o) == IF kind[o] = "download" THEN size[UserOf[o]][dir[o]] ELSE MaxUpload

SnapshotHeadroom(o) ==
  /\ pc[o] = "snapshot"
  /\ IF o \notin cancelled /\ HasHeadroom(Free, SnapshotUnits(o))
     THEN TakeHeadroom(o, SnapshotUnits(o)) /\ Goto(o, "copying")
     ELSE UNCHANGED <<reservedTotal, physical>> /\ Goto(o, "giveBack")
  /\ FilesUnchanged
  /\ UNCHANGED <<policy, reservedByUser, quotaGate, limitSeen, scanned, quota,
                 leaked>>

\* The copy is made in a thread that a cancellation waits for, or it fails.
Copy(o) ==
  /\ pc[o] = "copying"
  /\ \/ /\ o \notin cancelled
        /\ \E n \in 1 .. SnapshotUnits(o) :
             /\ kind[o] = "download" => n = SnapshotUnits(o)
             /\ copy' = [copy EXCEPT ![o] = n]
        /\ Goto(o, AfterSnapshot(o))
     \/ UNCHANGED copy /\ Goto(o, "giveBack")
  /\ UNCHANGED <<admissionVars, kind, dir, size, hasSub, lock, temp, freeSlots,
                 cancelled, leftover, disturbances, ceiling, hidden, leaked,
                 unbacked>>

\* The response is over, sent or broken off: its cleanup runs after it.
Respond(o) ==
  /\ pc[o] = "respond"
  /\ copy' = [copy EXCEPT ![o] = 0]
  /\ Goto(o, "giveBack")
  /\ UNCHANGED <<admissionVars, kind, dir, size, hasSub, lock, temp, freeSlots,
                 cancelled, leftover, disturbances, ceiling, hidden, leaked,
                 unbacked>>

\* Mutant: the slot is not given back.
GiveBackHeadroom(o) ==
  /\ pc[o] = "giveBack"
  /\ ReturnHeadroom(o)
  /\ Goto(o, IF lock[UserOf[o]] = o THEN "unlock" ELSE "done")
  /\ UNCHANGED <<policy, reservedByUser, quotaGate, limitSeen, scanned, quota,
                 kind, dir, size, hasSub, lock, temp, copy, freeSlots, cancelled,
                 leftover, disturbances, ceiling, hidden, leaked, unbacked>>

\* The headroom and then the slot, after a response or a failed snapshot.
GiveBack(o) ==
  /\ pc[o] = "giveBack"
  /\ ReturnHeadroom(o)
  /\ freeSlots' = freeSlots + 1
  /\ Goto(o, IF lock[UserOf[o]] = o THEN "unlock" ELSE "done")
  /\ UNCHANGED <<policy, reservedByUser, quotaGate, limitSeen, scanned, quota,
                 kind, dir, size, hasSub, lock, temp, copy, cancelled, leftover,
                 disturbances, ceiling, hidden, leaked, unbacked>>

-----------------------------------------------------------------------------
(* Cancellation, the administrator, and the end of the process.            *)

Disturb == disturbances < MaxDisturbances /\ disturbances' = disturbances + 1

Cancel(o) ==
  /\ Disturb
  /\ o \notin cancelled /\ pc[o] \notin {"idle", "done", "lost"}
  /\ cancelled' = cancelled \cup {o}
  /\ UNCHANGED <<admissionVars, pc, kind, dir, size, hasSub, lock, temp, copy,
                 freeSlots, leftover, ceiling, hidden, leaked,
                 unbacked>>

\* What a cancelled operation does at its next await.
Abandon(o) ==
  /\ o \in cancelled
  /\ \/ pc[o] = "reserve" /\ Goto(o, "done")
     \/ pc[o] = "headroom" /\ Goto(o, "release")
     \/ pc[o] = "lock" /\ Goto(o, AfterLock(o))
     \/ pc[o] = "slot" /\ Goto(o, WithoutSnapshot(o))
     \/ pc[o] \in {"recheck", "publish"} /\ Goto(o, "cleanup")
  /\ UNCHANGED <<admissionVars, kind, dir, size, hasSub, lock, temp, copy,
                 freeSlots, cancelled, leftover, disturbances, ceiling, hidden,
                 leaked, unbacked>>

ChangePolicy(u) ==
  /\ Disturb
  /\ \E p \in Policies \ {policy[u]} :
       /\ policy' = [policy EXCEPT ![u] = p]
       /\ ceiling' = [ceiling EXCEPT ![u] = Larger(@, p)]
  /\ UNCHANGED <<reservedByUser, quotaGate, limitSeen, scanned, quota,
                 reservedTotal, physical, pc, kind, dir, size, hasSub, lock, temp,
                 copy, freeSlots, cancelled, leftover, hidden, leaked,
                 unbacked>>

\* The process ends; requests under way are gone, what they had written stays.
ProcessCrashes ==
  /\ Disturb
  /\ ForgetReservations
  /\ leftover' = leftover + Sum(temp, Ops) + Sum(copy, Ops)
  /\ pc' = [o \in Ops |-> IF pc[o] = "idle" THEN "idle" ELSE "done"]
  /\ lock' = [u \in Users |-> NoOp]
  /\ temp' = [o \in Ops |-> 0]
  /\ copy' = [o \in Ops |-> 0]
  /\ freeSlots' = MaxSnapshots
  /\ cancelled' = {}
  /\ leaked' = [u \in Users |-> 0]
  /\ UNCHANGED <<kind, dir, size, hasSub, ceiling, hidden, unbacked>>

\* The next process removes what is left over before it takes requests.
Reconcile ==
  /\ leftover > 0
  /\ leftover' = 0
  /\ UNCHANGED <<admissionVars, pc, kind, dir, size, hasSub, lock, temp, copy,
                 freeSlots, cancelled, disturbances, ceiling, hidden, leaked,
                 unbacked>>

OpStep(o) ==
  \/ ReserveNothing(o) \/ ReserveScans(o) \/ ReserveDecides(o)
  \/ ReserveHeadroom(o) \/ ReleaseQuota(o) \/ ReleaseHeadroom(o)
  \/ TakeLock(o) \/ CheckUpload(o) \/ MakeFolder(o) \/ Move(o) \/ DeleteFile(o)
  \/ CheckDownload(o) \/ StreamEnds(o)
  \/ RecheckNothing(o) \/ RecheckScans(o) \/ RecheckDecides(o) \/ Publish(o)
  \/ CleanUp(o) \/ Unlock(o)
  \/ TakeSlot(o) \/ SnapshotHeadroom(o) \/ Copy(o) \/ Respond(o) \/ GiveBack(o)
  \/ Abandon(o)

FilesNext ==
  \/ /\ leftover = 0
     /\ \/ \E o \in Ops : Begin(o) \/ OpStep(o) \/ Stream(o) \/ Cancel(o)
        \/ \E u \in Users : ChangePolicy(u)
        \/ ProcessCrashes
  \/ Reconcile

FilesSpec == FilesInit /\ [][FilesNext]_requestVars

\* Some request can always go on, or all are waiting for each other: every
\* request has finitely many steps, so this is all the fairness it takes.
FilesFairSpec ==
  /\ FilesSpec
  /\ WF_requestVars(Reconcile)
  /\ WF_requestVars(leftover = 0 /\ \E o \in Ops : OpStep(o))

-----------------------------------------------------------------------------
(* Properties.                                                             *)

FilesTypeOK ==
  /\ policy \in [Users -> Policies]
  /\ quotaGate \in [Users -> Ops \cup {NoOp}]
  /\ lock \in [Users -> Ops \cup {NoOp}]
  /\ pc \in [Ops -> Steps]
  /\ size \in [Users -> [Dirs -> 0 .. MaxUpload]]
  /\ freeSlots \in 0 .. MaxSnapshots
  /\ temp \in [Ops -> 0 .. MaxUpload] /\ copy \in [Ops -> 0 .. MaxUpload]

\* What a user owns stays within the largest quota the user has had, and
\* writers together never take the disk below min_free_disk_bytes, however
\* uploads, folders, deletions, cancellations and changes of the policy
\* interleave.  Only a file moved up while a scan is on its way escapes the
\* quota, and only a folder of a user without a quota is made without headroom
\* (QuotaService.reserve and _recheck_path, StorageAdmissionService).
LimitsHold ==
  /\ FilesTypeOK
  /\ \A u \in Users : ceiling[u] = Unlimited \/ Owned(u) <= ceiling[u] + hidden[u]
  /\ Free + unbacked >= MinFree

\* The sums equal what the operations hold, each slot is held by a snapshot,
\* and an operation that is over holds nothing; only a cancelled one may have
\* left a reservation or a snapshot behind.
Holding(o) == pc[o] \in {"snapshot", "copying", "giveBack", "respond", "lost"}
              \/ copy[o] > 0
AccountsBalance ==
  /\ \A u \in Users : reservedByUser[u] = Sum(quota, OpsOf(u)) + leaked[u]
  /\ reservedTotal = Sum(physical, Ops)
  /\ freeSlots = MaxSnapshots - Cardinality({o \in Ops : Holding(o)})
  /\ \A o \in Ops : pc[o] = "done" =>
       /\ quota[o] = 0 /\ physical[o] = 0 /\ temp[o] = 0 /\ copy[o] = 0
       /\ lock[UserOf[o]] # o /\ quotaGate[UserOf[o]] # o
  /\ \A u \in Users : leaked[u] > 0 => \E o \in OpsOf(u) : o \in cancelled

\* Every request ends, although downloads wait for a slot under the lock of
\* their user; unless a cancelled download has lost its slot for good.
Settled(o) == pc[o] \in {"idle", "done"}
EveryRequestEnds ==
  <>[]((\A o \in Ops : Settled(o)) \/ (\E o \in Ops : pc[o] = "lost"))
=============================================================================
