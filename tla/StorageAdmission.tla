-------------------------- MODULE StorageAdmission --------------------------
(***************************************************************************)
(* The admission of durable and temporary writes: services/quota.py and    *)
(* services/storage_admission.py.  A writer first reserves growth against  *)
(* its user's quota, under a gate per user, and then headroom of the shared*)
(* disk, under one lock; both are returned when the write is over.         *)
(*                                                                         *)
(* Sizes are in allocation units.  What a user owns is found by scanning   *)
(* its directories, one after the other, while other operations go on: the *)
(* scan is a step that counts the first directory (scanned) and a second   *)
(* step that counts the other one and decides.                             *)
(*                                                                         *)
(* The module has the state and the steps of the admission; the operations *)
(* that take them, and the files they are about, are in UserFiles.         *)
(***************************************************************************)
EXTENDS Integers, FiniteSets

CONSTANTS
  Ops,        \* operations, each of them one request of one user
  Users,
  UserOf,     \* the user of every operation
  Unlimited,  \* the policy of a user who has no quota
  NoOp,
  MinFree     \* min_free_disk_bytes

ASSUME AdmissionAssumption ==
  /\ UserOf \in [Ops -> Users]
  /\ NoOp \notin Ops
  /\ Unlimited \notin Nat
  /\ MinFree \in Nat

VARIABLES
  policy,          \* the quota of every user, as the database has it
  reservedByUser,  \* QuotaService._reserved_by_user
  quotaGate,       \* who is inside QuotaService._user_gate
  limitSeen,       \* the policy an operation read when it entered the gate
  scanned,         \* what its scan has counted so far
  quota,           \* QuotaReservation.reserved_bytes
  reservedTotal,   \* StorageAdmissionService._reserved_total
  physical         \* StorageReservation.physical_bytes

admissionVars == <<policy, reservedByUser, quotaGate, limitSeen, scanned,
                   quota, reservedTotal, physical>>

AdmissionInit ==
  /\ reservedByUser = [u \in Users |-> 0]
  /\ quotaGate = [u \in Users |-> NoOp]
  /\ limitSeen = [o \in Ops |-> Unlimited]
  /\ scanned = [o \in Ops |-> 0]
  /\ quota = [o \in Ops |-> 0]
  /\ reservedTotal = 0
  /\ physical = [o \in Ops |-> 0]

OpsOf(u) == {o \in Ops : UserOf[o] = u}

\* Content and directory entries are both rounded to allocation units.
ReservationUnits(content, entries) == content + entries

-----------------------------------------------------------------------------
(* The gate of a user.                                                     *)

QuotaGateIsFree(o) == quotaGate[UserOf[o]] = NoOp

\* Enter the gate, read the policy and count the first directory.
EnterGate(o, firstDirectory) ==
  /\ QuotaGateIsFree(o)
  /\ quotaGate' = [quotaGate EXCEPT ![UserOf[o]] = o]
  /\ limitSeen' = [limitSeen EXCEPT ![o] = policy[UserOf[o]]]
  /\ scanned' = [scanned EXCEPT ![o] = firstDirectory]

LeaveGate(o) ==
  /\ quotaGate' = [quotaGate EXCEPT ![UserOf[o]] = NoOp]
  /\ limitSeen' = [limitSeen EXCEPT ![o] = Unlimited]
  /\ scanned' = [scanned EXCEPT ![o] = 0]

\* What the other operations of the user have reserved.
Others(o) == reservedByUser[UserOf[o]] - quota[o]

\* Would used, what the others reserved and growth stay within the policy?
Fits(o, used, growth) == used + Others(o) + growth <= limitSeen[o]

\* Replace the reservation of o by one of n units.
SetQuota(o, n) ==
  /\ quota' = [quota EXCEPT ![o] = n]
  /\ reservedByUser' = [reservedByUser EXCEPT ![UserOf[o]] = Others(o) + n]

KeepQuota == UNCHANGED <<quota, reservedByUser>>

\* reserve was cancelled while it scanned: the sum of the user has grown, and
\* leaving the gate raises before the caller has the reservation.
LoseQuota(o, n) ==
  /\ reservedByUser' = [reservedByUser EXCEPT ![UserOf[o]] = @ + n]
  /\ UNCHANGED quota

\* release enters the gate only when there is something to return.
ReturnQuota(o) ==
  /\ quota[o] # 0 => QuotaGateIsFree(o)
  /\ SetQuota(o, 0)
  /\ UNCHANGED <<policy, quotaGate, limitSeen, scanned, reservedTotal, physical>>

-----------------------------------------------------------------------------
(* The headroom of the disk.                                               *)

\* Mutant: what others have reserved is not counted.
HasHeadroomAlone(free, n) == free - n >= MinFree

HasHeadroom(free, n) == free - reservedTotal - n >= MinFree

TakeHeadroom(o, n) ==
  /\ reservedTotal' = reservedTotal + n
  /\ physical' = [physical EXCEPT ![o] = n]

ReturnHeadroom(o) ==
  /\ reservedTotal' = IF physical[o] > reservedTotal THEN 0
                      ELSE reservedTotal - physical[o]
  /\ physical' = [physical EXCEPT ![o] = 0]

\* A reservation of the quota is at least what the disk must have, and a user
\* without one reserves the content it asked for.
PhysicalUnits(o, content) == IF quota[o] > content THEN quota[o] ELSE content

\* The process ends: every reservation was in its memory.
ForgetReservations ==
  /\ reservedByUser' = [u \in Users |-> 0]
  /\ quotaGate' = [u \in Users |-> NoOp]
  /\ limitSeen' = [o \in Ops |-> Unlimited]
  /\ scanned' = [o \in Ops |-> 0]
  /\ quota' = [o \in Ops |-> 0]
  /\ reservedTotal' = 0
  /\ physical' = [o \in Ops |-> 0]
  /\ UNCHANGED policy
=============================================================================
