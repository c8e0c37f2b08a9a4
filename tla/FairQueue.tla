----------------------------- MODULE FairQueue -----------------------------
(***************************************************************************)
(* FairUserQueue (services/fair_queue.py): the runtime-only selector that  *)
(* both schedulers share.  Each user owns a list of waiting items kept     *)
(* sorted by its order key; a deque of users decides whose item goes next. *)
(*                                                                         *)
(* An item is a natural number: its rank in the schedulers' order key, the *)
(* pair (created_at, id), which is unique.  A list that is re-sorted after *)
(* every append is therefore the set of its items, and its head is the     *)
(* least of them.                                                          *)
(***************************************************************************)
EXTENDS Naturals, Sequences

CONSTANTS
  Users,      \* user ids
  Items,      \* ranks of the work items in the order key
  NoUser      \* _last_user before the first selection

ASSUME ItemsAreRanks == Items \subseteq Nat
ASSUME NoUserIsNoUser == NoUser \notin Users

VARIABLES
  items,      \* _items: user -> the waiting items, {} when the key is absent
  order,      \* _user_order: the deque of users that have waiting items
  lastUser,   \* _last_user
  passed      \* history: who was selected since this user began to wait

queueVars == <<items, order, lastUser, passed>>

----------------------------------------------------------------------------
\* Operators on the deque

InOrder(u) == \E k \in 1..Len(order) : order[k] = u

Position(s, u) == CHOOSE k \in 1..Len(s) : s[k] = u

\* A user occurs once in the deque, so dropping all its occurrences is
\* dropping the one at its position.
Without(s, u) ==
  [k \in 1..(Len(s) - 1) |-> IF k < Position(s, u) THEN s[k] ELSE s[k + 1]]

\* pop first turns the deque by one when the user at its head was the last
\* one served and someone else is waiting.
Rotated ==
  IF Len(order) > 1 /\ Head(order) = lastUser
    THEN Append(Tail(order), Head(order))
    ELSE order

First(S) == CHOOSE i \in S : \A j \in S : i <= j

----------------------------------------------------------------------------
\* Operations

QueueInit ==
  /\ items = [u \in Users |-> {}]
  /\ order = <<>>
  /\ lastUser = NoUser
  /\ passed = [u \in Users |-> {}]

Add(u, i) ==
  /\ items' = [items EXCEPT ![u] = @ \union {i}]
  /\ order' = IF InOrder(u) THEN order ELSE Append(order, u)
  /\ UNCHANGED <<lastUser, passed>>

\* The user that pop serves and the item it returns.
NextUser == Head(Rotated)
NextItem == First(items[NextUser])

\* Mutant of Pop: a user with more work stays at the head.
PopKeepsTurn ==
  /\ order # <<>>
  /\ items' = [items EXCEPT ![NextUser] = @ \ {NextItem}]
  /\ order' = IF items[NextUser] = {NextItem} THEN Tail(Rotated) ELSE Rotated
  /\ lastUser' = NoUser
  /\ passed' = [v \in Users |->
                  IF v = NextUser \/ items[v] = {} THEN {} ELSE passed[v] \union {NextUser}]

Pop ==
  /\ order # <<>>
  /\ items' = [items EXCEPT ![NextUser] = @ \ {NextItem}]
  /\ order' = IF items[NextUser] = {NextItem}
                THEN Tail(Rotated)
                ELSE Append(Tail(Rotated), NextUser)
  /\ lastUser' = NextUser
  /\ passed' = [v \in Users |->
                  IF v = NextUser \/ items[v] = {}
                    THEN {}
                    ELSE passed[v] \union {NextUser}]

\* S is the set of items the caller's predicate accepts.
Remove(u, S) ==
  /\ items' = [items EXCEPT ![u] = @ \ S]
  /\ order' = IF items[u] # {} /\ items[u] \subseteq S
                THEN Without(order, u)
                ELSE order
  /\ passed' = IF items[u] \subseteq S
                 THEN [passed EXCEPT ![u] = {}]
                 ELSE passed
  /\ UNCHANGED lastUser

\* clear keeps _last_user.
Clear ==
  /\ items' = [u \in Users |-> {}]
  /\ order' = <<>>
  /\ passed' = [u \in Users |-> {}]
  /\ UNCHANGED lastUser

----------------------------------------------------------------------------
\* The queue under an arbitrary caller.  Callers add an item once
\* (AnalysisScheduler.enqueue refuses a key that is pending or active).

QueueNext ==
  \/ \E u \in Users, i \in Items :
       /\ \A v \in Users : i \notin items[v]
       /\ Add(u, i)
  \/ Pop
  \/ \E u \in Users, S \in SUBSET Items : Remove(u, S)
  \/ Clear

QueueSpec == QueueInit /\ [][QueueNext]_queueVars

----------------------------------------------------------------------------
\* Properties

QueueTypeOK ==
  /\ items \in [Users -> SUBSET Items]
  /\ order \in Seq(Users)
  /\ lastUser \in Users \union {NoUser}
  /\ passed \in [Users -> SUBSET Users]

\* The deque lists exactly the users that have waiting items, each once:
\* otherwise pop reads a missing dictionary key, or a user with work is
\* never served (fair_queue.py:33-34, 42-45, 57-65).
OrderMatchesItems ==
  /\ \A j, k \in 1..Len(order) : order[j] = order[k] => j = k
  /\ \A u \in Users : InOrder(u) <=> items[u] # {}

\* While a user waits, nobody is served twice before it: the users served
\* since it began to wait that still have work all stand behind it.  This is
\* the "rotating users under contention" of the class, across removals,
\* users that leave and come back, and the extra rotation of pop.
WaitersComeFirst ==
  \A u \in Users, w \in Users :
    w \in passed[u] /\ items[u] # {} /\ items[w] # {}
      => \A j, k \in 1..Len(order) : order[j] = u /\ order[k] = w => j < k

\* A step that selects a user never selects one that was already served
\* while some other user was kept waiting.
NoUserIsServedTwiceAheadOfAWaiter ==
  [][\A u, w \in Users :
       (/\ items[u] # {}
        /\ w \in passed[u]
        /\ Pop) => NextUser # w]_queueVars

=============================================================================
