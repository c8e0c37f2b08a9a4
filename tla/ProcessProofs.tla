--------------------------- MODULE ProcessProofs ----------------------------
(***************************************************************************)
(* Proofs about one backend process: the scheduler that dispatches its     *)
(* Analyses (FairScheduler, with FairQueue) and its life from start-up to  *)
(* exit (Server).                                                          *)
(***************************************************************************)
EXTENDS FairScheduler, Server, WellFoundedInduction, FiniteSetTheorems, TLAPS

-----------------------------------------------------------------------------
(***************************************************************************)
(* What the scheduler and its queue promise for any users, items and       *)
(* capacity.  The queue: the deque and the dictionary agree, and no user   *)
(* is served twice while another waits.  The scheduler: it uses its queue  *)
(* as FairQueue allows, so the queue's promises hold of it; no wake-up is  *)
(* lost; the capacity is kept; and a shutdown that found it idle finds it  *)
(* idle for good.                                                          *)
(***************************************************************************)

(***************************************************************************)
(* The queue.  The deque alone is not inductive: pop turns it by one user. *)
(* It may do so because that user is the one served last, and nobody was   *)
(* served since (LastServedWaitsForNobody).                                *)
(***************************************************************************)

Distinct(s) == \A j, k \in 1..Len(s) : s[j] = s[k] => j = k

\* The deque s lists the users that have waiting items.
Lists(s) == \A u \in Users : (\E k \in 1..Len(s) : s[k] = u) <=> items[u] # {}

\* In s every user stands before those served since it began to wait.
InTurn(s) ==
  \A u, w \in Users : w \in passed[u] =>
    \A j, k \in 1..Len(s) : s[j] = u /\ s[k] = w => j < k

LastServedWaitsForNobody == lastUser \in Users => passed[lastUser] = {}

WaitingBeginsWithItems == \A u \in Users : items[u] = {} => passed[u] = {}

QInv ==
  /\ QueueTypeOK
  /\ Distinct(order)
  /\ Lists(order)
  /\ InTurn(order)
  /\ LastServedWaitsForNobody
  /\ WaitingBeginsWithItems

\* The turn that pop may give the deque keeps the users' turns.
LEMMA RotatedInTurn ==
  ASSUME QInv, order # <<>>
  PROVE  /\ Rotated \in Seq(Users) /\ Rotated # <<>>
         /\ Distinct(Rotated) /\ Lists(Rotated) /\ InTurn(Rotated)
<1> USE DEF QInv, QueueTypeOK
<1>1. CASE ~(Len(order) > 1 /\ Head(order) = lastUser)
  BY <1>1 DEF Rotated
<1>2. CASE Len(order) > 1 /\ Head(order) = lastUser
  <2> DEFINE n == Len(order)
             R == Append(Tail(order), Head(order))
  <2>1. Rotated = R
    BY <1>2 DEF Rotated
  <2>2. /\ n \in Nat /\ n > 1
        /\ R \in Seq(Users) /\ Len(R) = n
        /\ R[n] = order[1] /\ order[1] = lastUser
        /\ \A k \in 1..(n - 1) : R[k] = order[k + 1]
    BY <1>2
  <2> HIDE DEF R
  <2>3. Distinct(R)
    <3> SUFFICES ASSUME NEW j \in 1..n, NEW k \in 1..n, R[j] = R[k]
                 PROVE  j = k
      BY <2>2 DEF Distinct
    <3>1. \A i, l \in 1..n : order[i] = order[l] => i = l
      BY DEF Distinct
    <3>2. CASE j = n /\ k = n
      BY <3>2
    <3>3. CASE j = n /\ k # n
      BY <2>2, <3>1, <3>3
    <3>4. CASE j # n /\ k = n
      BY <2>2, <3>1, <3>4
    <3>5. CASE j # n /\ k # n
      <4>1. j + 1 \in 1..n /\ k + 1 \in 1..n
        BY <2>2, <3>5
      <4> QED
        BY <2>2, <3>1, <3>5, <4>1
    <3> QED
      BY <3>2, <3>3, <3>4, <3>5
  <2>4. \A u : (\E k \in 1..n : R[k] = u) <=> (\E k \in 1..n : order[k] = u)
    <3> TAKE u
    <3>1. ASSUME NEW k \in 1..n, R[k] = u
          PROVE  \E i \in 1..n : order[i] = u
      <4>1. CASE k = n
        BY <2>2, <3>1, <4>1
      <4>2. CASE k # n
        <5>1. k + 1 \in 1..n /\ order[k + 1] = u
          BY <2>2, <3>1, <4>2
        <5> QED
          BY <5>1
      <4> QED
        BY <4>1, <4>2
    <3>2. ASSUME NEW k \in 1..n, order[k] = u
          PROVE  \E i \in 1..n : R[i] = u
      <4>1. CASE k = 1
        <5>1. n \in 1..n /\ R[n] = u
          BY <2>2, <3>2, <4>1
        <5> QED
          BY <5>1
      <4>2. CASE k # 1
        <5>1. k - 1 \in 1..(n - 1) /\ (k - 1) + 1 = k
          BY <2>2, <4>2
        <5>2. R[k - 1] = u
          BY <2>2, <3>2, <5>1
        <5>3. k - 1 \in 1..n
          BY <2>2, <5>1
        <5> QED
          BY <5>2, <5>3
      <4> QED
        BY <4>1, <4>2
    <3> QED
      BY <3>1, <3>2
  <2>5. Lists(R)
    BY <2>2, <2>4 DEF Lists
  <2>6. InTurn(R)
    <3> SUFFICES ASSUME NEW u \in Users, NEW w \in Users, w \in passed[u],
                        NEW j \in 1..n, NEW k \in 1..n, R[j] = u, R[k] = w
                 PROVE  j < k
      BY <2>2 DEF InTurn
    <3>1. \A i, l \in 1..n : order[i] = u /\ order[l] = w => i < l
      BY DEF InTurn
    <3>2. u # lastUser
      BY DEF LastServedWaitsForNobody
    <3>3. j # n
      BY <2>2, <3>2
    <3>4. CASE k = n
      BY <2>2, <3>3, <3>4
    <3>5. CASE k # n
      <4>1. /\ j + 1 \in 1..n /\ order[j + 1] = u
            /\ k + 1 \in 1..n /\ order[k + 1] = w
        BY <2>2, <3>3, <3>5
      <4>2. j + 1 < k + 1
        BY <3>1, <4>1
      <4> QED
        BY <2>2, <4>2
    <3> QED
      BY <3>4, <3>5
  <2> QED
    BY <2>1, <2>2, <2>3, <2>5, <2>6
<1> QED
  BY <1>1, <1>2

\* Every set of ranks has a first one.
LEMMA LeastItem ==
  ASSUME NEW S \in SUBSET Nat, S # {}
  PROVE  \E i \in S : \A j \in S : i <= j
<1>1. PICK i \in S : \A j \in S : ~(<<j, i>> \in OpToRel(<, Nat))
  BY WFMin, NatLessThanWellFounded
<1>2. \A j \in S : ~(j < i)
  BY <1>1 DEF OpToRel
<1> QED
  BY <1>2

\* pop finds an item: the user at the head has waiting items, and they have a
\* first one.
LEMMA NextItemWaits ==
  ASSUME QInv, order # <<>>
  PROVE  NextUser \in Users /\ NextItem \in items[NextUser]
<1> DEFINE R == Rotated
           x == NextUser
<1>1. R \in Seq(Users) /\ R # <<>> /\ Lists(R)
  BY RotatedInTurn
<1>2. x \in Users /\ 1 \in 1..Len(R) /\ R[1] = x
  BY <1>1 DEF NextUser
<1> HIDE DEF R, x
<1>3. items[x] # {}
  BY <1>1, <1>2 DEF Lists
<1>4. items[x] \in SUBSET Nat
  BY <1>2, ItemsAreRanks DEF QInv, QueueTypeOK
<1>5. \E i \in items[x] : \A j \in items[x] : i <= j
  BY <1>3, <1>4, LeastItem
<1> QED
  BY <1>2, <1>5 DEF NextItem, First, x

\* An empty queue satisfies the invariant.
LEMMA InitInv ==
  ASSUME QueueInit
  PROVE  QInv
BY NoUserIsNoUser
   DEF QueueInit, QInv, QueueTypeOK, Distinct, Lists, InTurn,
       LastServedWaitsForNobody, WaitingBeginsWithItems

\* add keeps it.
LEMMA AddInv ==
  ASSUME QInv, NEW u \in Users, NEW i \in Items, Add(u, i)
  PROVE  QInv'
<1> USE DEF QInv, QueueTypeOK
<1>1. QueueTypeOK'
  BY DEF Add
<1>2. /\ \A v \in Users \ {u} : items'[v] = items[v]
      /\ items'[u] # {} /\ passed' = passed /\ lastUser' = lastUser
  BY DEF Add
<1>3. WaitingBeginsWithItems' /\ LastServedWaitsForNobody'
  BY <1>2 DEF WaitingBeginsWithItems, LastServedWaitsForNobody
<1>4. CASE InOrder(u)
  <2>1. order' = order
    BY <1>4 DEF Add
  <2>2. Lists(order)'
    BY <1>2, <1>4, <2>1 DEF Lists, InOrder
  <2> QED
    BY <1>1, <1>2, <1>3, <2>1, <2>2 DEF Distinct, InTurn
<1>5. CASE ~InOrder(u)
  <2> DEFINE n == Len(order)
  <2>1. /\ n \in Nat /\ Len(order') = n + 1
        /\ order'[n + 1] = u
        /\ \A k \in 1..n : order'[k] = order[k] /\ order[k] # u
    BY <1>5 DEF Add, InOrder
  <2>2. Distinct(order)'
    BY <2>1 DEF Distinct
  <2>3. Lists(order)'
    <3> SUFFICES ASSUME NEW v \in Users
                 PROVE  (\E k \in 1..(n + 1) : order'[k] = v) <=> items'[v] # {}
      BY <2>1 DEF Lists
    <3>1. CASE v = u
      <4>1. n + 1 \in 1..(n + 1)
        BY <2>1
      <4> QED
        BY <1>2, <2>1, <3>1, <4>1
    <3>2. CASE v # u
      <4>1. items'[v] = items[v]
        BY <1>2, <3>2
      <4>2. (\E k \in 1..n : order[k] = v) <=> items[v] # {}
        BY DEF Lists
      <4>3. ASSUME NEW k \in 1..(n + 1), order'[k] = v
            PROVE  k \in 1..n /\ order[k] = v
        BY <2>1, <3>2, <4>3
      <4>4. \A k \in 1..n : k \in 1..(n + 1)
        BY <2>1
      <4> QED
        BY <2>1, <4>1, <4>2, <4>3, <4>4
    <3> QED
      BY <3>1, <3>2
  <2>4. passed[u] = {}
    <3>1. items[u] = {}
      BY <1>5 DEF Lists, InOrder
    <3> QED
      BY <3>1 DEF WaitingBeginsWithItems
  <2>5. InTurn(order)'
    <3> SUFFICES ASSUME NEW v \in Users, NEW w \in Users, w \in passed[v],
                        NEW j \in 1..(n + 1), NEW k \in 1..(n + 1),
                        order'[j] = v, order'[k] = w
                 PROVE  j < k
      BY <1>2, <2>1 DEF InTurn
    <3>1. j # n + 1
      BY <2>1, <2>4
    <3>2. CASE k = n + 1
      BY <2>1, <3>1, <3>2
    <3>3. CASE k # n + 1
      <4>1. j \in 1..n /\ k \in 1..n /\ order[j] = v /\ order[k] = w
        BY <2>1, <3>1, <3>3
      <4> QED
        BY <4>1 DEF InTurn
    <3> QED
      BY <3>2, <3>3
  <2> QED
    BY <1>1, <1>3, <2>2, <2>3, <2>5
<1> QED
  BY <1>4, <1>5

\* Pop serves the head of the turned deque; a user that has more work goes to
\* its end.
LEMMA PopInv ==
  ASSUME QInv, Pop
  PROVE  QInv'
<1> DEFINE R == Rotated
           n == Len(R)
           x == NextUser
<1>0. order # <<>>
  BY DEF Pop
<1>1. /\ R \in Seq(Users) /\ R # <<>>
      /\ Distinct(R) /\ Lists(R) /\ InTurn(R)
  BY <1>0, RotatedInTurn
<1>2. /\ n \in Nat /\ n > 0 /\ x \in Users /\ x = R[1]
      /\ Tail(R) \in Seq(Users) /\ Len(Tail(R)) = n - 1
      /\ \A k \in 1..(n - 1) : Tail(R)[k] = R[k + 1]
  BY <1>1 DEF NextUser
<1> HIDE DEF R, x
<1>3. /\ items' = [items EXCEPT ![x] = @ \ {NextItem}]
      /\ order' = IF items[x] = {NextItem} THEN Tail(R) ELSE Append(Tail(R), x)
      /\ lastUser' = x
      /\ passed' = [v \in Users |->
                      IF v = x \/ items[v] = {} THEN {} ELSE passed[v] \union {x}]
  BY DEF Pop, R, x
<1>4. NextItem \in items[x]
  BY <1>0, NextItemWaits DEF x
<1>5. QueueTypeOK'
  BY <1>1, <1>2, <1>3 DEF QInv, QueueTypeOK
<1>6. /\ \A v \in Users : v # x => items'[v] = items[v]
      /\ items'[x] = {} <=> items[x] = {NextItem}
      /\ \A v \in Users : v = x \/ items[v] = {} => passed'[v] = {}
      /\ \A v \in Users : passed'[v] \subseteq passed[v] \union {x}
  BY <1>2, <1>3, <1>4 DEF QInv, QueueTypeOK
<1>7. LastServedWaitsForNobody' /\ WaitingBeginsWithItems'
  BY <1>2, <1>3, <1>6 DEF LastServedWaitsForNobody, WaitingBeginsWithItems
\* The new deque, element by element.
<1> DEFINE m == Len(order')
<1>8. /\ m = IF items[x] = {NextItem} THEN n - 1 ELSE n
      /\ \A k \in 1..(n - 1) : k \in 1..m /\ order'[k] = R[k + 1]
      /\ items[x] # {NextItem} => order'[n] = x
  BY <1>2, <1>3
<1>9. \A k \in 1..(n - 1) : k + 1 \in 1..n /\ R[k + 1] # x
  <2> TAKE k \in 1..(n - 1)
  <2>1. k + 1 \in 1..n /\ 1 \in 1..n /\ k + 1 # 1
    BY <1>2
  <2> QED
    BY <1>1, <1>2, <2>1 DEF Distinct
<1> HIDE DEF n, m
<1>10. \A k \in 1..m : k \in 1..(n - 1) \/ (k = n /\ items[x] # {NextItem})
  <2>1. CASE items[x] = {NextItem}
    BY <1>2, <1>8, <2>1
  <2>2. CASE items[x] # {NextItem}
    BY <1>2, <1>8, <2>2
  <2> QED
    BY <2>1, <2>2
<1>11. Distinct(order)'
  <2> SUFFICES ASSUME NEW j \in 1..m, NEW k \in 1..m, order'[j] = order'[k]
               PROVE  j = k
    BY DEF Distinct, m
  <2>1. CASE j \in 1..(n - 1) /\ k \in 1..(n - 1)
    <3>1. j + 1 = k + 1
      BY <1>1, <1>8, <1>9, <2>1 DEF Distinct, n
    <3> QED
      BY <1>2, <2>1, <3>1
  <2>2. CASE j \notin 1..(n - 1) \/ k \notin 1..(n - 1)
    BY <1>8, <1>9, <1>10, <2>2
  <2> QED
    BY <2>1, <2>2
<1>12. Lists(order)'
  <2> SUFFICES ASSUME NEW v \in Users
               PROVE  (\E k \in 1..m : order'[k] = v) <=> items'[v] # {}
    BY DEF Lists, m
  <2>1. CASE v = x
    <3>1. CASE items[x] = {NextItem}
      <4>1. \A k \in 1..m : order'[k] # x
        BY <1>8, <1>9, <1>10, <3>1
      <4> QED
        BY <1>6, <2>1, <3>1, <4>1
    <3>2. CASE items[x] # {NextItem}
      <4>1. n \in 1..m /\ order'[n] = x
        BY <1>2, <1>8, <3>2
      <4> QED
        BY <1>6, <2>1, <3>2, <4>1
    <3> QED
      BY <3>1, <3>2
  <2>2. CASE v # x
    <3>1. items'[v] = items[v] /\ ((\E k \in 1..n : R[k] = v) <=> items[v] # {})
      BY <1>1, <1>6, <2>2 DEF Lists, n
    <3>2. ASSUME NEW k \in 1..m, order'[k] = v
          PROVE  \E l \in 1..n : R[l] = v
      <4>1. k \in 1..(n - 1)
        BY <1>8, <1>10, <2>2, <3>2
      <4>2. k + 1 \in 1..n /\ R[k + 1] = v
        BY <1>8, <1>9, <3>2, <4>1
      <4> QED
        BY <4>2
    <3>3. ASSUME NEW l \in 1..n, R[l] = v
          PROVE  \E k \in 1..m : order'[k] = v
      <4>1. l # 1
        BY <1>2, <2>2, <3>3
      <4>2. l - 1 \in 1..(n - 1) /\ (l - 1) + 1 = l
        BY <1>2, <4>1
      <4>3. l - 1 \in 1..m /\ order'[l - 1] = v
        BY <1>8, <3>3, <4>2
      <4> QED
        BY <4>3
    <3> QED
      BY <3>1, <3>2, <3>3
  <2> QED
    BY <2>1, <2>2
<1>13. InTurn(order)'
  <2> SUFFICES ASSUME NEW u \in Users, NEW w \in Users, w \in passed'[u],
                      NEW j \in 1..m, NEW k \in 1..m, order'[j] = u, order'[k] = w
               PROVE  j < k
    BY DEF InTurn, m
  <2>1. u # x
    BY <1>6
  <2>2. j \in 1..(n - 1)
    BY <1>8, <1>10, <2>1
  <2>3. CASE k \in 1..(n - 1)
    <3>1. w # x
      BY <1>8, <1>9, <2>3
    <3>2. w \in passed[u]
      BY <1>6, <3>1
    <3>3. /\ j + 1 \in 1..n /\ R[j + 1] = u
          /\ k + 1 \in 1..n /\ R[k + 1] = w
      BY <1>8, <1>9, <2>2, <2>3
    <3>4. j + 1 < k + 1
      BY <1>1, <3>2, <3>3 DEF InTurn, n
    <3> QED
      BY <1>2, <2>2, <2>3, <3>4
  <2>4. CASE k \notin 1..(n - 1)
    BY <1>2, <1>10, <2>2, <2>4
  <2> QED
    BY <2>3, <2>4
<1> QED
  BY <1>5, <1>7, <1>11, <1>12, <1>13 DEF QInv

\* Removing a user's last item closes the gap it leaves in the deque.
LEMMA RemoveInv ==
  ASSUME QInv, NEW u \in Users, NEW S \in SUBSET Items, Remove(u, S)
  PROVE  QInv'
<1> DEFINE n == Len(order)
<1> USE DEF QInv, QueueTypeOK
<1>1. /\ items' = [items EXCEPT ![u] = @ \ S]
      /\ lastUser' = lastUser
      /\ \A v \in Users : passed'[v] \subseteq passed[v]
      /\ items[u] \subseteq S => passed'[u] = {}
      /\ passed' \in [Users -> SUBSET Users]
  BY DEF Remove
<1>2. /\ items' \in [Users -> SUBSET Items]
      /\ \A v \in Users : v # u => items'[v] = items[v]
      /\ items'[u] = {} <=> items[u] \subseteq S
  BY <1>1
<1>3. LastServedWaitsForNobody' /\ WaitingBeginsWithItems'
  BY <1>1, <1>2 DEF LastServedWaitsForNobody, WaitingBeginsWithItems
<1>4. CASE ~(items[u] # {} /\ items[u] \subseteq S)
  <2>1. order' = order
    BY <1>4 DEF Remove
  <2>2. \A v \in Users : items'[v] # {} <=> items[v] # {}
    BY <1>2, <1>4
  <2>3. Lists(order)'
    BY <2>1, <2>2 DEF Lists
  <2>4. InTurn(order)'
    BY <1>1, <2>1 DEF InTurn
  <2> QED
    BY <1>1, <1>2, <1>3, <2>1, <2>3, <2>4 DEF Distinct
<1>5. CASE items[u] # {} /\ items[u] \subseteq S
  <2> DEFINE p == Position(order, u)
             At(k) == IF k < p THEN k ELSE k + 1
             m == Len(order')
  <2>1. n \in Nat /\ p \in 1..n /\ order[p] = u
    <3>1. \E k \in 1..n : order[k] = u
      BY <1>5 DEF Lists
    <3> QED
      BY <3>1 DEF Position
  <2>2. order' = [k \in 1..(n - 1) |-> IF k < p THEN order[k] ELSE order[k + 1]]
    BY <1>5 DEF Remove, Without
  <2>3. /\ order' \in Seq(Users) /\ m = n - 1
        /\ \A k \in 1..m : At(k) \in 1..n /\ At(k) # p /\ order'[k] = order[At(k)]
    <3>1. \A k \in 1..(n - 1) : At(k) \in 1..n /\ At(k) # p
      BY <2>1
    <3>2. order' \in Seq(Users) /\ m = n - 1
      BY <2>1, <2>2
    <3>3. \A k \in 1..m : order'[k] = order[At(k)]
      BY <2>1, <2>2, <3>2
    <3> QED
      BY <3>1, <3>2, <3>3
  <2>4. \A j, k \in 1..m : (At(j) = At(k) => j = k) /\ (At(j) < At(k) => j < k)
    BY <2>1, <2>3
  <2>5. \A k \in 1..n : k # p => \E l \in 1..m : At(l) = k
    <3> SUFFICES ASSUME NEW k \in 1..n, k # p
                 PROVE  \E l \in 1..m : At(l) = k
      OBVIOUS
    <3>1. CASE k < p
      <4>1. k \in 1..m /\ At(k) = k
        BY <2>1, <2>3, <3>1
      <4> QED
        BY <4>1
    <3>2. CASE k > p
      <4>1. k - 1 \in 1..m /\ At(k - 1) = k
        BY <2>1, <2>3, <3>2
      <4> QED
        BY <4>1
    <3> QED
      BY <2>1, <3>1, <3>2
  <2> HIDE DEF p, At, m
  <2>6. \A k \in 1..n : order[k] = u => k = p
    BY <2>1 DEF Distinct
  <2>7. Distinct(order)'
    <3> SUFFICES ASSUME NEW j \in 1..m, NEW k \in 1..m, order'[j] = order'[k]
                 PROVE  j = k
      BY DEF Distinct, m
    <3>1. At(j) = At(k)
      BY <2>3 DEF Distinct
    <3> QED
      BY <2>4, <3>1
  <2>8. Lists(order)'
    <3> SUFFICES ASSUME NEW v \in Users
                 PROVE  (\E k \in 1..m : order'[k] = v) <=> items'[v] # {}
      BY DEF Lists, m
    <3>1. CASE v = u
      <4>1. \A k \in 1..m : order'[k] # u
        BY <2>3, <2>6
      <4> QED
        BY <1>2, <1>5, <3>1, <4>1
    <3>2. CASE v # u
      <4>1. items'[v] = items[v] /\ ((\E k \in 1..n : order[k] = v) <=> items[v] # {})
        BY <1>2, <3>2 DEF Lists
      <4>2. ASSUME NEW k \in 1..m, order'[k] = v
            PROVE  \E l \in 1..n : order[l] = v
        BY <2>3, <4>2
      <4>3. ASSUME NEW l \in 1..n, order[l] = v
            PROVE  \E k \in 1..m : order'[k] = v
        <5>1. l # p
          BY <2>1, <3>2, <4>3
        <5>2. PICK k \in 1..m : At(k) = l
          BY <2>5, <5>1
        <5> QED
          BY <2>3, <4>3, <5>2
      <4> QED
        BY <4>1, <4>2, <4>3
    <3> QED
      BY <3>1, <3>2
  <2>9. InTurn(order)'
    <3> SUFFICES ASSUME NEW v \in Users, NEW w \in Users, w \in passed'[v],
                        NEW j \in 1..m, NEW k \in 1..m, order'[j] = v, order'[k] = w
                 PROVE  j < k
      BY DEF InTurn, m
    <3>1. w \in passed[v] /\ order[At(j)] = v /\ order[At(k)] = w
      BY <1>1, <2>3
    <3>2. At(j) < At(k)
      BY <2>3, <3>1 DEF InTurn
    <3> QED
      BY <2>4, <3>2
  <2> QED
    BY <1>1, <1>2, <1>3, <2>3, <2>7, <2>8, <2>9
<1> QED
  BY <1>4, <1>5

\* clear keeps it.
LEMMA ClearInv ==
  ASSUME QInv, Clear
  PROVE  QInv'
<1>1. /\ order' = <<>> /\ lastUser' = lastUser
      /\ items' = [u \in Users |-> {}] /\ passed' = [u \in Users |-> {}]
  BY DEF Clear
<1>2. QueueTypeOK'
  BY <1>1 DEF QInv, QueueTypeOK
<1> QED
  BY <1>1, <1>2 DEF QInv, QueueTypeOK, Distinct, Lists, InTurn,
                    LastServedWaitsForNobody, WaitingBeginsWithItems

\* Whoever leaves the queue alone keeps it.
LEMMA StutterInv ==
  ASSUME QInv, UNCHANGED queueVars
  PROVE  QInv'
<1>1. items' = items /\ order' = order /\ lastUser' = lastUser /\ passed' = passed
  BY DEF queueVars
<1>2. QueueTypeOK'
  BY <1>1 DEF QInv, QueueTypeOK
<1>3. Distinct(order)' /\ Lists(order)' /\ InTurn(order)'
  <2>1. Distinct(order)'
    BY <1>1 DEF QInv, Distinct
  <2>2. Lists(order)'
    BY <1>1 DEF QInv, Lists
  <2>3. InTurn(order)'
    BY <1>1 DEF QInv, InTurn
  <2> QED
    BY <2>1, <2>2, <2>3
<1>4. LastServedWaitsForNobody' /\ WaitingBeginsWithItems'
  BY <1>1 DEF QInv, LastServedWaitsForNobody, WaitingBeginsWithItems
<1> QED
  BY <1>2, <1>3, <1>4 DEF QInv

\* Whoever uses the queue, a step of it keeps the inductive invariant.
LEMMA NextInv ==
  ASSUME QInv, [QueueNext]_queueVars
  PROVE  QInv'
<1>1. ASSUME NEW u \in Users, NEW i \in Items, Add(u, i)
      PROVE  QInv'
  BY <1>1, AddInv
<1>2. CASE Pop
  BY <1>2, PopInv
<1>3. ASSUME NEW u \in Users, NEW S \in SUBSET Items, Remove(u, S)
      PROVE  QInv'
  BY <1>3, RemoveInv
<1>4. CASE Clear
  BY <1>4, ClearInv
<1>5. CASE UNCHANGED queueVars
  BY <1>5, StutterInv
<1>6. CASE QueueNext
  <2>1. \/ \E u \in Users, i \in Items : Add(u, i)
        \/ Pop
        \/ \E u \in Users, S \in SUBSET Items : Remove(u, S)
        \/ Clear
    BY <1>6, Zenon DEF QueueNext
  <2> QED
    BY <1>1, <1>2, <1>3, <1>4, <2>1, Zenon
<1> QED
  BY <1>5, <1>6

----------------------------------------------------------------------------

\* The inductive invariant of the queue under any caller.
THEOREM QueueInvariance == QueueSpec => []QInv
<1>1. QueueInit => QInv
  BY InitInv
<1>2. QInv /\ [QueueNext]_queueVars => QInv'
  BY NextInv
<1> QED
  BY <1>1, <1>2, PTL DEF QueueSpec

\* The deque lists exactly the users that have waiting items, each once, so
\* pop never reads a missing dictionary key and forgets no user.
THEOREM DequeMatchesItems == QueueSpec => []OrderMatchesItems
<1>1. QInv => OrderMatchesItems
  BY DEF QInv, OrderMatchesItems, Distinct, Lists, InOrder
<1> QED
  BY <1>1, QueueInvariance, PTL

\* Whoever was served since a user began to wait stands behind it.
THEOREM Rotation == QueueSpec => []WaitersComeFirst
<1>1. QInv => WaitersComeFirst
  BY DEF QInv, WaitersComeFirst, InTurn
<1> QED
  BY <1>1, QueueInvariance, PTL

\* A waiting user stands in the turned deque, and before whoever was served
\* since it began to wait: the head of the deque is no such user.
LEMMA NextWasNotServed ==
  ASSUME QInv, NEW u \in Users, NEW w \in Users, items[u] # {},
         w \in passed[u], Pop
  PROVE  NextUser # w
<1> DEFINE R == Rotated
<1>1. /\ R \in Seq(Users) /\ R # <<>> /\ Lists(R) /\ InTurn(R)
  BY RotatedInTurn DEF Pop
<1>2. PICK j \in 1..Len(R) : R[j] = u
  BY <1>1 DEF Lists
<1>3. 1 \in 1..Len(R) /\ NextUser = R[1]
  BY <1>1 DEF NextUser
<1> HIDE DEF R
<1> QED
  BY <1>1, <1>2, <1>3 DEF InTurn

\* No user is selected twice while another user is kept waiting.
THEOREM FairRotation == QueueSpec => NoUserIsServedTwiceAheadOfAWaiter
<1> DEFINE Turn == \A u, w \in Users :
                     (/\ items[u] # {}
                      /\ w \in passed[u]
                      /\ Pop) => NextUser # w
<1>1. QInv => Turn
  BY NextWasNotServed
<1>2. QInv /\ [QueueNext]_queueVars => [Turn]_queueVars
  BY <1>1
<1> QED
  BY <1>2, QueueInvariance, PTL DEF QueueSpec, NoUserIsServedTwiceAheadOfAWaiter

(***************************************************************************)
(* The scheduler.                                                          *)
(***************************************************************************)

\* Waiting and active items are told apart by what became of them.
Agreement ==
  \A i \in Items :
    /\ i \in active <=> fate[i] = "running"
    /\ i \in Pending <=> fate[i] = "waiting"
    /\ \A u \in Users : i \in items[u] => u = Owner[i]

WithinCapacity == IsFiniteSet(active) /\ Cardinality(active) <= Capacity

\* Shutdown waits only after dispatch was stopped, and then nothing can join.
Stopped ==
  /\ waiter # "off" => stopping
  /\ stopping => ~accepting /\ Pending = {}
  /\ waiter = "done" => active = {}

SchedulerInv ==
  /\ QInv
  /\ SchedulerTypeOK
  /\ Agreement
  /\ WithinCapacity
  /\ Stopped
  /\ IdleEventIsTruthful
  /\ SleepsOnlyWithoutWork

\* The invariant of the scheduler holds at first.
LEMMA InitSchedulerInv ==
  ASSUME SchedulerInit
  PROVE  SchedulerInv
<1>1. QInv
  BY InitInv DEF SchedulerInit
<1>2. Pending = {}
  BY DEF SchedulerInit, QueueInit, Pending
<1>3. IsFiniteSet(active) /\ Cardinality(active) = 0
  BY FS_EmptySet DEF SchedulerInit
<1>4. SchedulerTypeOK
  BY <1>1 DEF SchedulerInit, QInv, SchedulerTypeOK, Fate
<1>5. Agreement
  BY <1>2 DEF SchedulerInit, QueueInit, Agreement
<1>6. WithinCapacity /\ Stopped /\ IdleEventIsTruthful /\ SleepsOnlyWithoutWork
  BY <1>2, <1>3, CapacityIsPositive
     DEF SchedulerInit, WithinCapacity, Stopped, IdleEventIsTruthful, SleepsOnlyWithoutWork
<1> QED
  BY <1>1, <1>4, <1>5, <1>6 DEF SchedulerInv

\* Every step uses the queue as FairQueue lets a caller use it.
LEMMA QueueStep ==
  ASSUME Owner \in [Items -> Users], [SchedulerNext]_schedulerVars
  PROVE  [QueueNext]_queueVars
<1>1. ASSUME NEW i \in Items, Enqueue(i)
      PROVE  QueueNext
  <2>1. \A v \in Users : i \notin items[v]
    BY <1>1 DEF Enqueue, Pending
  <2>2. Owner[i] \in Users /\ Add(Owner[i], i)
    BY <1>1 DEF Enqueue
  <2> QED
    BY <2>1, <2>2 DEF QueueNext
<1>2. ASSUME NEW i \in Items, CancelQueued(i)
      PROVE  QueueNext
  <2>1. Owner[i] \in Users /\ {i} \in SUBSET Items /\ Remove(Owner[i], {i})
    BY <1>2 DEF CancelQueued
  <2> QED
    BY <2>1 DEF QueueNext
<1>3. ASSUME NEW u \in Users, NEW w \in Workspaces, CancelWorkspace(u, w)
      PROVE  QueueNext
  <2>1. PICK S : S = items[u] \intersect WorkspaceItems(u, w)
    OBVIOUS
  <2>2. S \in SUBSET Items /\ Remove(u, S)
    BY <1>3, <2>1 DEF CancelWorkspace, WorkspaceItems
  <2> QED
    BY <2>2 DEF QueueNext
<1>4. CASE StopDispatch
  BY <1>4 DEF StopDispatch, QueueNext
<1>5. CASE LoopDispatches
  BY <1>5 DEF LoopDispatches, QueueNext
<1>6. ASSUME NEW i \in Items, RunnerEnds(i)
      PROVE  UNCHANGED queueVars
  BY <1>6 DEF RunnerEnds
<1>7. CASE Start \/ LoopStops \/ LoopFindsNothing \/ LoopWakes \/ LoopResets
           \/ WaiterStarts \/ Waiter \/ UNCHANGED schedulerVars
  BY <1>7 DEF Start, LoopStops, LoopFindsNothing, LoopWakes, LoopResets, WaiterStarts,
              Waiter, WaiterLooks, WaiterWakes, schedulerVars
<1> QED
  BY <1>1, <1>2, <1>3, <1>4, <1>5, <1>6, <1>7 DEF SchedulerNext, Loop

\* What the actions do to the waiting items.

\* add makes the item pending.
LEMMA AddPends ==
  ASSUME QueueTypeOK, NEW u \in Users, NEW i \in Items, Add(u, i)
  PROVE  Pending' = Pending \union {i}
<1>1. /\ items'[u] = items[u] \union {i}
      /\ \A v \in Users \ {u} : items'[v] = items[v]
  BY DEF Add, QueueTypeOK
<1> QED
  BY <1>1 DEF Pending

\* Items that leave their list are pending no more, and no others.
LEMMA LosesPending ==
  ASSUME QueueTypeOK, Agreement, NEW u \in Users, NEW S \in SUBSET items[u],
         items' = [items EXCEPT ![u] = @ \ S]
  PROVE  Pending' = Pending \ S
<1>1. /\ items'[u] = items[u] \ S
      /\ \A v \in Users \ {u} : items'[v] = items[v]
  BY DEF QueueTypeOK
<1>2. \A v \in Users : \A i \in items[v] : i \in Items /\ v = Owner[i]
  BY DEF QueueTypeOK, Agreement
<1> QED
  BY <1>1, <1>2 DEF Pending

\* While lists only shrink, items stay with their owners.
LEMMA OwnersStay ==
  ASSUME QueueTypeOK, QueueTypeOK', Agreement,
         \A u \in Users : items'[u] \subseteq items[u]
  PROVE  \A i \in Items, u \in Users : i \in items'[u] => u = Owner[i]
BY DEF Agreement

\* An empty deque is an empty queue.
LEMMA NothingWaits ==
  ASSUME QInv
  PROVE  order = <<>> <=> Pending = {}
<1>1. ASSUME order = <<>>
      PROVE  Pending = {}
  BY <1>1 DEF QInv, Lists, Pending
<1>2. ASSUME order # <<>>
      PROVE  Pending # {}
  <2>1. 1 \in 1..Len(order) /\ order[1] \in Users
    BY <1>2 DEF QInv, QueueTypeOK
  <2>2. items[order[1]] # {}
    BY <2>1 DEF QInv, Lists
  <2> QED
    BY <2>1, <2>2 DEF Pending
<1> QED
  BY <1>1, <1>2

\* enqueue keeps the invariant of the scheduler.
LEMMA EnqueueInv ==
  ASSUME SchedulerInv, QInv', NEW i \in Items, Owner[i] \in Users, Enqueue(i)
  PROVE  SchedulerInv'
<1> USE DEF SchedulerInv, Enqueue
<1>1. Pending' = Pending \union {i}
  BY AddPends DEF QInv
<1>2. SchedulerTypeOK'
  BY DEF QInv, SchedulerTypeOK, Mark, Fate
<1>3. Agreement'
  <2>1. \A j \in Items : fate'[j] = IF j = i THEN "waiting" ELSE fate[j]
    BY DEF Mark
  <2>2. \A j \in Items, u \in Users : j \in items'[u] => u = Owner[j]
    BY DEF Add, QInv, QueueTypeOK, Agreement
  <2> QED
    BY <1>1, <2>1, <2>2 DEF Agreement
<1>4. WithinCapacity' /\ Stopped' /\ IdleEventIsTruthful' /\ SleepsOnlyWithoutWork'
  BY <1>1 DEF WithinCapacity, Stopped, IdleEventIsTruthful, SleepsOnlyWithoutWork, SchedulerTypeOK
<1> QED
  BY <1>2, <1>3, <1>4

\* The three steps that take items S of u out of the queue and wake the loop.
LEMMA TakeOutInv ==
  ASSUME SchedulerInv, QInv', NEW u \in Users, NEW S \in SUBSET items[u],
         Remove(u, S), wake' = TRUE, Mark(S, "removed"),
         UNCHANGED <<active, accepting, stopping, loop, idle, waiter>>
  PROVE  SchedulerInv'
<1> USE DEF SchedulerInv
<1>1. Pending' = Pending \ S
  BY LosesPending DEF Remove, QInv
<1>2. SchedulerTypeOK'
  BY DEF QInv, SchedulerTypeOK, Mark, Fate
<1>3. Agreement'
  <2>1. S \subseteq Pending /\ S \subseteq Items
    BY DEF Pending, QInv, QueueTypeOK
  <2>2. \A j \in Items : fate'[j] = IF j \in S THEN "removed" ELSE fate[j]
    BY DEF Mark
  <2>3. \A v \in Users : items'[v] \subseteq items[v]
    BY DEF Remove, QInv, QueueTypeOK
  <2>4. \A j \in Items, v \in Users : j \in items'[v] => v = Owner[j]
    BY <2>3, OwnersStay DEF QInv
  <2>5. \A j \in Items : j \in active' <=> fate'[j] = "running"
    BY <2>1, <2>2 DEF Agreement
  <2>6. \A j \in Items : j \in Pending' <=> fate'[j] = "waiting"
    BY <1>1, <2>1, <2>2 DEF Agreement
  <2> QED
    BY <2>4, <2>5, <2>6 DEF Agreement
<1>4. WithinCapacity' /\ Stopped' /\ IdleEventIsTruthful' /\ SleepsOnlyWithoutWork'
  BY <1>1 DEF WithinCapacity, Stopped, IdleEventIsTruthful, SleepsOnlyWithoutWork
<1> QED
  BY <1>2, <1>3, <1>4

\* stop_dispatch keeps it.
LEMMA StopDispatchInv ==
  ASSUME SchedulerInv, QInv', StopDispatch
  PROVE  SchedulerInv'
<1> USE DEF SchedulerInv, StopDispatch
<1>1. Pending' = {} /\ \A u \in Users : items'[u] = {}
  BY DEF Clear, Pending
<1>2. SchedulerTypeOK'
  BY DEF QInv, SchedulerTypeOK, Mark, Fate
<1>3. Agreement'
  <2>1. \A j \in Items : fate'[j] = IF j \in Pending THEN "returned" ELSE fate[j]
    BY DEF Mark
  <2> QED
    BY <1>1, <2>1 DEF Agreement
<1>4. WithinCapacity' /\ Stopped' /\ IdleEventIsTruthful' /\ SleepsOnlyWithoutWork'
  BY <1>1 DEF WithinCapacity, Stopped, IdleEventIsTruthful, SleepsOnlyWithoutWork
<1> QED
  BY <1>2, <1>3, <1>4

\* The dispatch loop moves the item that pop serves to the active ones.
LEMMA LoopDispatchesInv ==
  ASSUME SchedulerInv, QInv', LoopDispatches
  PROVE  SchedulerInv'
<1> DEFINE i == NextItem
           x == NextUser
<1> USE DEF SchedulerInv, LoopDispatches
<1>1. x \in Users /\ i \in items[x]
  BY NextItemWaits DEF CanDispatch
<1>2. i \in Items /\ i \in Pending
  BY <1>1 DEF Pending, QInv, QueueTypeOK
<1>3. /\ items' = [items EXCEPT ![x] = @ \ {i}]
      /\ active' = active \union {i} /\ Mark({i}, "running")
  BY DEF Pop
<1> HIDE DEF i, x
<1>4. Pending' = Pending \ {i}
  <2>1. {i} \in SUBSET items[x]
    BY <1>1
  <2> QED
    BY <1>1, <1>3, <2>1, LosesPending DEF QInv
<1>5. SchedulerTypeOK'
  BY <1>2, <1>3 DEF QInv, SchedulerTypeOK, Mark, Fate
<1>6. Agreement'
  <2>1. \A j \in Items : fate'[j] = IF j = i THEN "running" ELSE fate[j]
    BY <1>3 DEF Mark
  <2>2. \A v \in Users : items'[v] \subseteq items[v]
    BY <1>1, <1>3 DEF QInv, QueueTypeOK
  <2>3. \A j \in Items, v \in Users : j \in items'[v] => v = Owner[j]
    BY <2>2, OwnersStay DEF QInv
  <2> QED
    BY <1>2, <1>3, <1>4, <2>1, <2>3 DEF Agreement
<1>7. WithinCapacity'
  <2>1. Cardinality(active) < Capacity /\ IsFiniteSet(active)
    BY DEF CanDispatch, WithinCapacity
  <2>2. Cardinality(active) \in Nat /\ Capacity \in Nat
    BY <2>1, FS_CardinalityType, CapacityIsPositive
  <2>3. /\ IsFiniteSet(active \union {i})
        /\ \/ Cardinality(active \union {i}) = Cardinality(active)
           \/ Cardinality(active \union {i}) = Cardinality(active) + 1
    BY <2>1, FS_AddElement
  <2> QED
    BY <1>3, <2>1, <2>2, <2>3 DEF WithinCapacity
<1>8. Stopped' /\ IdleEventIsTruthful' /\ SleepsOnlyWithoutWork'
  <2>1. active' # {}
    BY <1>3
  <2> QED
    BY <1>4, <2>1 DEF Stopped, IdleEventIsTruthful, SleepsOnlyWithoutWork
<1> QED
  BY <1>5, <1>6, <1>7, <1>8

\* The end of a runner keeps it.
LEMMA RunnerEndsInv ==
  ASSUME SchedulerInv, QInv', NEW i \in Items, RunnerEnds(i)
  PROVE  SchedulerInv'
<1> USE DEF SchedulerInv, RunnerEnds
<1>1. Pending' = Pending
  BY DEF queueVars, Pending
<1>2. SchedulerTypeOK'
  BY DEF QInv, SchedulerTypeOK, Mark, Fate
<1>3. Agreement'
  <2>1. \A j \in Items : fate'[j] = IF j = i THEN "ended" ELSE fate[j]
    BY DEF Mark
  <2> QED
    BY <1>1, <2>1 DEF Agreement, queueVars
<1>4. WithinCapacity'
  <2>1. IsFiniteSet(active')  /\ Cardinality(active') <= Cardinality(active)
    BY FS_Subset DEF WithinCapacity
  <2>2. Cardinality(active) \in Nat /\ Cardinality(active') \in Nat /\ Capacity \in Nat
    BY <2>1, FS_CardinalityType, CapacityIsPositive DEF WithinCapacity
  <2> QED
    BY <2>1, <2>2 DEF WithinCapacity
<1>5. IdleEventIsTruthful'
  BY DEF IdleEventIsTruthful, SchedulerTypeOK
<1>6. Stopped' /\ SleepsOnlyWithoutWork'
  BY <1>1 DEF Stopped, SleepsOnlyWithoutWork, SchedulerTypeOK
<1> QED
  BY <1>2, <1>3, <1>4, <1>5, <1>6

\* The steps that touch only the loop's, the shutdown's and the event's state.
LEMMA ControlInv ==
  ASSUME SchedulerInv, QInv', UNCHANGED <<queueVars, active, accepting, stopping, idle, fate>>,
         \/ Start \/ LoopStops \/ LoopFindsNothing \/ LoopWakes \/ LoopResets
         \/ WaiterStarts \/ WaiterLooks \/ WaiterWakes \/ UNCHANGED schedulerVars
  PROVE  SchedulerInv'
<1> USE DEF SchedulerInv
<1>1. Pending' = Pending /\ (CanDispatch <=> CanDispatch')
  BY DEF queueVars, Pending, CanDispatch
<1>2. Agreement' /\ WithinCapacity' /\ IdleEventIsTruthful'
  BY <1>1 DEF Agreement, WithinCapacity, IdleEventIsTruthful, queueVars
<1>3. SchedulerTypeOK' /\ Stopped' /\ SleepsOnlyWithoutWork'
  <2> USE DEF QInv, SchedulerTypeOK, Stopped, SleepsOnlyWithoutWork
  <2>1. CASE Start
    BY <1>1, <2>1 DEF Start
  <2>2. CASE LoopStops
    BY <1>1, <2>2 DEF LoopStops
  <2>3. CASE LoopFindsNothing
    <3>1. ~stopping' /\ ~CanDispatch'
      BY <1>1, <2>3 DEF LoopFindsNothing
    <3> QED
      BY <1>1, <2>3, <3>1 DEF LoopFindsNothing
  <2>4. CASE LoopWakes
    BY <1>1, <2>4 DEF LoopWakes
  <2>5. CASE LoopResets
    <3>1. loop' = "check" /\ wake' \in BOOLEAN /\ UNCHANGED waiter
      BY <2>5 DEF LoopResets
    <3> QED
      BY <1>1, <3>1
  <2>6. CASE WaiterStarts
    BY <1>1, <2>6 DEF WaiterStarts
  <2>7. CASE WaiterLooks
    BY <1>1, <2>7 DEF WaiterLooks
  <2>8. CASE WaiterWakes
    BY <1>1, <2>8 DEF WaiterWakes
  <2>9. CASE UNCHANGED schedulerVars
    BY <1>1, <2>9 DEF schedulerVars
  <2> QED
    BY <2>1, <2>2, <2>3, <2>4, <2>5, <2>6, <2>7, <2>8, <2>9
<1> QED
  BY <1>2, <1>3

\* Every step of the scheduler keeps it.
LEMMA NextSchedulerInv ==
  ASSUME SchedulerInv, [SchedulerNext]_schedulerVars
  PROVE  SchedulerInv'
<1>1. QInv'
  BY QueueStep, NextInv, OwnerIsUser DEF SchedulerInv
<1>2. ASSUME NEW i \in Items, Enqueue(i)
      PROVE  SchedulerInv'
  BY <1>1, <1>2, EnqueueInv, OwnerIsUser
<1>3. ASSUME NEW i \in Items, CancelQueued(i)
      PROVE  SchedulerInv'
  <2>1. Owner[i] \in Users /\ {i} \in SUBSET items[Owner[i]]
    BY <1>3, OwnerIsUser DEF CancelQueued
  <2> QED
    BY <1>1, <1>3, <2>1, TakeOutInv DEF CancelQueued
<1>4. ASSUME NEW u \in Users, NEW w \in Workspaces, CancelWorkspace(u, w)
      PROVE  SchedulerInv'
  <2>1. PICK S : S = items[u] \intersect WorkspaceItems(u, w)
    OBVIOUS
  <2>2. /\ S \in SUBSET items[u] /\ Remove(u, S) /\ wake' = TRUE /\ Mark(S, "removed")
        /\ UNCHANGED <<active, accepting, stopping, loop, idle, waiter>>
    BY <1>4, <2>1 DEF CancelWorkspace
  <2> QED
    BY <1>1, <2>2, TakeOutInv
<1>5. ASSUME NEW i \in Items, RunnerEnds(i)
      PROVE  SchedulerInv'
  BY <1>1, <1>5, RunnerEndsInv
<1>6. CASE StopDispatch
  BY <1>1, <1>6, StopDispatchInv
<1>7. CASE LoopDispatches
  BY <1>1, <1>7, LoopDispatchesInv
<1>8. CASE \/ Start \/ LoopStops \/ LoopFindsNothing \/ LoopWakes \/ LoopResets
           \/ WaiterStarts \/ WaiterLooks \/ WaiterWakes \/ UNCHANGED schedulerVars
  <2>1. UNCHANGED <<queueVars, active, accepting, stopping, idle, fate>>
    BY <1>8 DEF Start, LoopStops, LoopFindsNothing, LoopWakes, LoopResets, WaiterStarts,
                WaiterLooks, WaiterWakes, schedulerVars
  <2> QED
    BY <1>1, <1>8, <2>1, ControlInv
<1> QED
  BY <1>2, <1>3, <1>4, <1>5, <1>6, <1>7, <1>8 DEF SchedulerNext, Loop, Waiter

----------------------------------------------------------------------------

\* The inductive invariant of the scheduler.
THEOREM SchedulerInvariance == SchedulerSpec => []SchedulerInv
<1>1. SchedulerInit => SchedulerInv
  BY InitSchedulerInv
<1>2. SchedulerInv /\ [SchedulerNext]_schedulerVars => SchedulerInv'
  BY NextSchedulerInv
<1> QED
  BY <1>1, <1>2, PTL DEF SchedulerSpec

\* The scheduler's lists, sets, events and flags keep their types.
THEOREM SchedulerTypes == SchedulerSpec => []SchedulerTypeOK
<1>1. SchedulerInv => SchedulerTypeOK
  BY DEF SchedulerInv
<1> QED
  BY <1>1, SchedulerInvariance, PTL

\* The scheduler implements the queue's specification.
THEOREM UsesTheQueue == SchedulerSpec => QueueSpec
<1>1. SchedulerInit => QueueInit
  BY DEF SchedulerInit
<1>2. [SchedulerNext]_schedulerVars => [QueueNext]_queueVars
  BY QueueStep, OwnerIsUser
<1> QED
  BY <1>1, <1>2, PTL DEF SchedulerSpec, QueueSpec

\* Its deque therefore matches its items, and its users take turns.
THEOREM SchedulerIsFair ==
  SchedulerSpec => /\ []OrderMatchesItems
          /\ []WaitersComeFirst
          /\ NoUserIsServedTwiceAheadOfAWaiter
BY UsesTheQueue, DequeMatchesItems, Rotation, FairRotation, PTL

\* No wake-up of the dispatch loop is lost, though the loop looks at the
\* queue, sleeps and replaces its event in three separate steps.
THEOREM NoLostWakeUp == SchedulerSpec => []SleepsOnlyWithoutWork
<1>1. SchedulerInv => SleepsOnlyWithoutWork
  BY DEF SchedulerInv
<1> QED
  BY <1>1, SchedulerInvariance, PTL

\* Never more than Capacity runners, and no item is both waiting and running
\* or back after it ended.
THEOREM CapacityIsKept == SchedulerSpec => []RunsOnceWithinCapacity
<1>1. SchedulerInv => RunsOnceWithinCapacity
  BY DEF SchedulerInv, WithinCapacity, Agreement, RunsOnceWithinCapacity
<1> QED
  BY <1>1, SchedulerInvariance, PTL

\* Once wait_idle has returned at shutdown no runner is or becomes active.
THEOREM ShutdownIsQuiet == SchedulerSpec => []DrainedMeansDrained
<1>1. SchedulerInv => DrainedMeansDrained
  BY DEF SchedulerInv, Stopped, DrainedMeansDrained
<1> QED
  BY <1>1, SchedulerInvariance, PTL

-----------------------------------------------------------------------------
(***************************************************************************)
(* Proofs about the life of a backend process, for any number of clients,  *)
(* faults and any threshold of the watchdog: no task outlives what it uses,*)
(* an unforced exit leaves nothing open, and the watchdog kills orphans    *)
(* only.                                                                   *)
(***************************************************************************)

Running == {"starting", "up", "closing", "joining"}

\* How much of the stack there is follows from the steps of the start-up, until
\* it is unwound; then no task is left.
StackOK ==
  /\ lifespan \in {"off"} \cup Running =>
       /\ step >= 3 => owned
       /\ step >= 5 => {"hub", "workspaces"} \subseteq Open
       /\ step >= 8 => {"samples", "portal"} \subseteq Open
  /\ tasks # {} => step >= 8 /\ lifespan \in Running
  /\ lifespan = "off" => step = 0
  /\ lifespan = "down" => resources = <<>>

\* Where the web server is tells where the lifespan is.
WebOK ==
  /\ uvicorn = "bound" => lifespan = "off"
  /\ uvicorn \in {"serving", "waiting"} => lifespan = "up"
  /\ uvicorn = "ending" => lifespan \in {"closing", "joining", "unwinding", "down"}
  /\ uvicorn = "exited" => force \/ lifespan = "down" \/ (serve = "failed" /\ started)

LauncherOK ==
  /\ serve \in {"ended", "failed"} => uvicorn = "exited" /\ ~listener
  /\ serve = "failed" /\ ~started <=> record = "failed"
  /\ caller \in {"holding", "closing"} => serve = "serving"

WatchdogOK ==
  /\ parent = "alive" => misses = wrong
  /\ dead <=> misses >= Threshold
  /\ dead => parent = "gone"

SInv == ServerTypeOK /\ StackOK /\ WebOK /\ LauncherOK /\ WatchdogOK

-----------------------------------------------------------------------------

\* What the stack holds when something is put on it.
LEMMA Pushed ==
  ASSUME resources \in Seq(Resources), NEW s \in Seq(Resources), resources' = resources \o s
  PROVE  /\ resources' \in Seq(Resources)
         /\ Open \subseteq Open'
         /\ \A k \in 1..Len(s) : s[k] \in Open'
<1>1. /\ resources' \in Seq(Resources) /\ Len(resources') = Len(resources) + Len(s)
      /\ Len(resources) \in Nat /\ Len(s) \in Nat
      /\ \A k \in 1..Len(resources) : resources'[k] = resources[k]
      /\ \A k \in 1..Len(s) : resources'[Len(resources) + k] = s[k]
  OBVIOUS
<1>2. \A k \in 1..Len(resources) : k \in 1..Len(resources')
  BY <1>1
<1>3. \A k \in 1..Len(s) : Len(resources) + k \in 1..Len(resources')
  BY <1>1
<1> QED
  BY <1>1, <1>2, <1>3 DEF Open

\* The invariant of the server holds before the start.
LEMMA InitSInv ==
  ASSUME ServerInit
  PROVE  SInv
<1>1. ServerTypeOK
  <2>1. /\ owned \in BOOLEAN /\ stopEvent \in BOOLEAN
        /\ {started, exit, force, listener, dead} \subseteq BOOLEAN
    BY DEF ServerInit
  <2>2. /\ misses \in 0..Threshold /\ wrong \in 0..(Threshold - 1) /\ faults \in 0..MaxFaults
        /\ step \in 0..Len(Startup) /\ resources \in Seq(Resources)
    BY ThresholdOK, MaxFaultsOK DEF ServerInit, Startup
  <2> QED
    BY <2>1, <2>2 DEF ServerInit, ServerTypeOK
<1>2. StackOK /\ WebOK /\ LauncherOK
  BY DEF ServerInit, StackOK, WebOK, LauncherOK, Running
<1>3. WatchdogOK
  BY ThresholdOK DEF ServerInit, WatchdogOK
<1> QED
  BY <1>1, <1>2, <1>3 DEF SInv

-----------------------------------------------------------------------------
(* Types.                                                                  *)

\* runtime_context has eleven steps.
LEMMA StartupLength == Len(Startup) = 11
  BY DEF Startup

\* What StepDone puts on the stack, and which task it starts.
LEMMA StartupSteps ==
  /\ Len(Startup) = 11
  /\ Startup[2] = "database" /\ Startup[3] = "task group"
  /\ \A k \in 1..11 : Startup[k] = "task group" => k = 3
  /\ \A k \in 1..11 : Startup[k] \in DOMAIN Opens => Opens[Startup[k]] \in Seq(Resources)
  /\ \A k \in 1..11 : Startup[k] \in DOMAIN Starts => k >= 8 /\ Starts[Startup[k]] \in Tasks
  /\ Startup[5] \in DOMAIN Opens /\ Opens[Startup[5]] = <<"hub", "workspaces">>
  /\ Startup[8] \in DOMAIN Opens /\ Opens[Startup[8]] = <<"samples", "portal">>
<1>1. Startup = <<"storage", "database", "task group", "quota", "snapshots", "transient",
                  "sessions", "interrupted", "imports", "files", "queries">>
  BY DEF Startup
<1>2. /\ DOMAIN Opens = {"snapshots", "sessions", "interrupted"}
      /\ Opens["snapshots"] = <<"hub", "workspaces">> /\ Opens["sessions"] = <<"oauth", "quotation">>
      /\ Opens["interrupted"] = <<"samples", "portal">>
  BY DEF Opens
<1>3. /\ DOMAIN Starts = {"interrupted", "imports", "queries"}
      /\ Starts["interrupted"] = "analyses" /\ Starts["imports"] = "imports"
      /\ Starts["queries"] = "maintenance"
  BY DEF Starts
<1>4. /\ <<"hub", "workspaces">> \in Seq(Resources) /\ <<"oauth", "quotation">> \in Seq(Resources)
      /\ <<"samples", "portal">> \in Seq(Resources)
  <2>1. /\ "hub" \in Resources /\ "workspaces" \in Resources /\ "oauth" \in Resources
        /\ "quotation" \in Resources /\ "samples" \in Resources /\ "portal" \in Resources
    BY DEF Resources
  <2> QED
    BY <2>1
<1>5. \A x \in DOMAIN Opens : Opens[x] \in Seq(Resources)
  BY <1>2, <1>4, Zenon
<1>6. /\ Len(Startup) = 11 /\ Startup[1] = "storage" /\ Startup[2] = "database"
      /\ Startup[3] = "task group" /\ Startup[4] = "quota" /\ Startup[5] = "snapshots"
      /\ Startup[6] = "transient" /\ Startup[7] = "sessions" /\ Startup[8] = "interrupted"
      /\ Startup[9] = "imports" /\ Startup[10] = "files" /\ Startup[11] = "queries"
  BY <1>1
<1>7. \A k \in 1..11 : k \in {1, 2, 3, 4, 5, 6, 7, 8, 9, 10, 11}
  OBVIOUS
<1>8. \A k \in 1..11 : Startup[k] = "task group" => k = 3
  BY <1>6, <1>7
<1>9. \A k \in 1..11 : Startup[k] \in DOMAIN Starts => k >= 8 /\ Starts[Startup[k]] \in Tasks
  <2>1. /\ "analyses" \in Tasks /\ "imports" \in Tasks /\ "maintenance" \in Tasks
    BY DEF Tasks
  <2>2. \A k \in 1..11 : Startup[k] \in DOMAIN Starts => k \in {8, 9, 11}
    BY <1>3, <1>6, <1>7
  <2>3. Starts[Startup[8]] \in Tasks /\ Starts[Startup[9]] \in Tasks /\ Starts[Startup[11]] \in Tasks
    BY <1>3, <1>6, <2>1
  <2> QED
    BY <2>2, <2>3
<1>10. \A k \in 1..11 : Startup[k] \in DOMAIN Opens => Opens[Startup[k]] \in Seq(Resources)
  BY <1>5, Zenon
<1>11. /\ Startup[5] \in DOMAIN Opens /\ Opens[Startup[5]] = <<"hub", "workspaces">>
       /\ Startup[8] \in DOMAIN Opens /\ Opens[Startup[8]] = <<"samples", "portal">>
  BY <1>2, <1>6
<1> QED
  BY <1>6, <1>8, <1>9, <1>10, <1>11, Zenon

\* Leaving the exit stack keeps the types of what it clears.
LEMMA UnwindTypes ==
  ASSUME ServerTypeOK, Unwind
  PROVE  /\ lifespan' \in {"closing", "unwinding"} /\ admitting' \in SUBSET Executions
         /\ stopEvent' \in BOOLEAN /\ draining' \in SUBSET Executions
<1>1. lifespan' \in {"closing", "unwinding"}
  BY Zenon DEF Unwind
<1>2. admitting' \in SUBSET Executions /\ draining' \in SUBSET Executions
  BY DEF Unwind
<1>3. stopEvent' \in BOOLEAN
  BY Zenon DEF Unwind, ServerTypeOK
<1> QED
  BY <1>1, <1>2, <1>3

\* Every step keeps the types.
LEMMA TypeStep ==
  ASSUME ServerTypeOK, WatchdogOK, [ServerNext]_serverVars
  PROVE  ServerTypeOK'
<1> USE DEF stackVars, taskVars, webVars, launchVars, watchVars
<1>1. CASE StepDone
  <2>1. step \in 0..10 /\ step + 1 \in 1..11 /\ step' = step + 1
    <3>1. step < Len(Startup) /\ step \in 0..Len(Startup) /\ step' = step + 1
      BY <1>1, Zenon DEF StepDone, ServerTypeOK
    <3> QED
      BY <3>1, StartupLength
  <2>2. lifespan' \in {"up", "starting"} /\ step' \in 0..Len(Startup)
    <3>1. lifespan' \in {"up", "starting"}
      BY <1>1, Zenon DEF StepDone
    <3> QED
      BY <2>1, <3>1, StartupLength
  <2>3. resources' \in Seq(Resources)
    <3>1. CASE Startup[step + 1] \in DOMAIN Opens
      <4>1. resources' = resources \o Opens[Startup[step + 1]]
        BY <1>1, <3>1 DEF StepDone
      <4>2. Opens[Startup[step + 1]] \in Seq(Resources) /\ resources \in Seq(Resources)
        BY <2>1, <3>1, StartupSteps DEF ServerTypeOK
      <4> QED
        BY <4>1, <4>2
    <3>2. CASE Startup[step + 1] \notin DOMAIN Opens
      BY <1>1, <3>2, Zenon DEF StepDone, ServerTypeOK
    <3> QED
      BY <3>1, <3>2
  <2>4. owned' \in BOOLEAN
    BY <1>1, Zenon DEF StepDone, ServerTypeOK
  <2>5. tasks' \in SUBSET Tasks
    <3>1. CASE Startup[step + 1] \in DOMAIN Starts
      <4>1. tasks' = tasks \union {Starts[Startup[step + 1]]}
        BY <1>1, <3>1 DEF StepDone
      <4> QED
        BY <2>1, <3>1, <4>1, StartupSteps DEF ServerTypeOK
    <3>2. CASE Startup[step + 1] \notin DOMAIN Starts
      BY <1>1, <3>2, Zenon DEF StepDone, ServerTypeOK
    <3> QED
      BY <3>1, <3>2
  <2>6. admitting' \in SUBSET Executions
    BY <1>1, Zenon DEF StepDone
  <2>7. schema' \in {"absent", "current", "other"}
    BY <1>1, Zenon DEF StepDone, DatabaseInitialized, ServerTypeOK
  <2>8. UNCHANGED <<profile, draining, stopEvent, webVars, launchVars, watchVars, faults>>
    BY <1>1, Zenon DEF StepDone
  <2> QED
    BY <2>2, <2>3, <2>4, <2>5, <2>6, <2>7, <2>8 DEF ServerTypeOK
<1>2. CASE CloseResource
  BY <1>2, SMTT(30) DEF CloseResource, ServerTypeOK
<1>3. ASSUME NEW answer \in {"alive", "missing", "unknown"}, Probe(answer), ~dead
      PROVE  ServerTypeOK'
  BY <1>3, ThresholdOK DEF Probe, ProbeSays, ServerTypeOK, WatchdogOK
<1>4. CASE StepFails
  <2>1. faults' \in 0..MaxFaults
    <3>1. Fault /\ faults \in 0..MaxFaults
      BY <1>4, Zenon DEF StepFails, ServerTypeOK
    <3> QED
      BY <3>1, MaxFaultsOK DEF Fault, MayFail
  <2>2. Unwind /\ UNCHANGED <<profile, step, resources, owned, tasks, schema, webVars, launchVars,
                              watchVars>>
    BY <1>4, Zenon DEF StepFails
  <2> QED
    BY <1>4, <2>1, <2>2, UnwindTypes DEF ServerTypeOK
<1>5. CASE DatabaseRefused
  BY <1>5 DEF DatabaseRefused, ServerTypeOK, Unwind
<1>6. CASE MaintenanceStops
  BY <1>6 DEF MaintenanceStops, ServerTypeOK
<1>7. ASSUME NEW t \in Tasks, ExecutionCloses(t)
      PROVE  ServerTypeOK'
  BY <1>7, MaxFaultsOK DEF ExecutionCloses, ServerTypeOK, Fault, MayFail
<1>8. CASE CancelGroup
  BY <1>8 DEF CancelGroup, ServerTypeOK
<1>9. ASSUME NEW t \in Tasks, TaskEnds(t)
      PROVE  ServerTypeOK'
  BY <1>9 DEF TaskEnds, ServerTypeOK
<1>10. CASE Joined
  <2>1. lifespan' = "unwinding" /\ owned' \in BOOLEAN
    BY <1>10, Zenon DEF Joined
  <2>2. UNCHANGED <<profile, step, resources, taskVars, schema, webVars, launchVars, watchVars,
                    faults>>
    BY <1>10, Zenon DEF Joined
  <2> QED
    BY <2>1, <2>2 DEF ServerTypeOK
<1>11. CASE StartUvicorn
  BY <1>11 DEF StartUvicorn, ServerTypeOK
<1>12. CASE StartupEnds
  <2>1. uvicorn' \in {"serving", "exited"}
    BY <1>12, Zenon DEF StartupEnds
  <2>2. started' \in BOOLEAN
    BY <1>12, Zenon DEF StartupEnds, ServerTypeOK
  <2>3. UNCHANGED <<profile, stackVars, exit, force, listener, streams, launchVars, watchVars, faults>>
    BY <1>12, Zenon DEF StartupEnds
  <2> QED
    BY <2>1, <2>2, <2>3 DEF ServerTypeOK
<1>13. ASSUME NEW c \in Clients, Connect(c)
      PROVE  ServerTypeOK'
  BY <1>13 DEF Connect, ServerTypeOK
<1>14. ASSUME NEW c \in Clients, Leave(c)
      PROVE  ServerTypeOK'
  BY <1>14 DEF Leave, ServerTypeOK
<1>15. CASE Signal
  <2>1. exit' \in BOOLEAN /\ force' \in BOOLEAN
    BY <1>15, Zenon DEF Signal, ServerTypeOK
  <2>2. UNCHANGED <<profile, stackVars, uvicorn, started, listener, streams, launchVars, watchVars,
                    faults>>
    BY <1>15, Zenon DEF Signal
  <2> QED
    BY <2>1, <2>2 DEF ServerTypeOK
<1>16. CASE StopServing
  <2>1. uvicorn' = "waiting" /\ listener' \in BOOLEAN
    BY <1>16, Zenon DEF StopServing
  <2>2. UNCHANGED <<profile, stackVars, started, exit, force, streams, launchVars, watchVars,
                    faults>>
    BY <1>16, Zenon DEF StopServing
  <2> QED
    BY <2>1, <2>2 DEF ServerTypeOK
<1>17. CASE ConnectionsGone
  BY <1>17 DEF ConnectionsGone, ServerTypeOK, Unwind
<1>18. CASE LifespanEnded
  BY <1>18 DEF LifespanEnded, ServerTypeOK
<1>19. CASE LoopEnds
  BY <1>19 DEF LoopEnds, ServerTypeOK, Unwind
<1>20. CASE PublishReady
  BY <1>20 DEF PublishReady, ServerTypeOK
<1>21. CASE PublishFails
  <2>1. faults' \in 0..MaxFaults
    BY <1>21, MaxFaultsOK DEF PublishFails, ServerTypeOK, Fault, MayFail
  <2>2. listener' \in BOOLEAN /\ streams' \in SUBSET Clients
    BY <1>21, Zenon DEF PublishFails
  <2>3. serve' = "failed" /\ uvicorn' = "exited" /\ caller' = "gone"
    BY <1>21, Zenon DEF PublishFails
  <2>4. UNCHANGED <<profile, stackVars, started, exit, force, record, watchVars>>
    BY <1>21, Zenon DEF PublishFails
  <2> QED
    BY <2>1, <2>2, <2>3, <2>4 DEF ServerTypeOK
<1>22. CASE ServeFails
  BY <1>22 DEF ServeFails, ServerTypeOK
<1>23. CASE ServeEnds
  BY <1>23, ZenonT(60) DEF ServeEnds, ServerTypeOK
<1>24. CASE Close
  BY <1>24 DEF Close, ServerTypeOK
<1>25. CASE CloseTimesOut
  BY <1>25, ZenonT(60) DEF CloseTimesOut, ServerTypeOK
<1>26. CASE ParentDies
  BY <1>26 DEF ParentDies, ServerTypeOK
<1>27. CASE UNCHANGED serverVars
  BY <1>27 DEF serverVars, ServerTypeOK
<1> QED
  BY <1>1, <1>2, <1>3, <1>4, <1>5, <1>6, <1>7, <1>8, <1>9, <1>10, <1>11, <1>12, <1>13,
     <1>14, <1>15, <1>16, <1>17, <1>18, <1>19, <1>20, <1>21, <1>22, <1>23, <1>24, <1>25,
     <1>26, <1>27 DEF ServerNext, Runtime, Web, Launcher

-----------------------------------------------------------------------------
(* The exit stack and the tasks that rely on it.                           *)

\* Whoever leaves stack and tasks alone keeps what is said of them.
LEMMA StackKept ==
  ASSUME StackOK, UNCHANGED <<lifespan, step, resources, owned, tasks>>
  PROVE  StackOK'
BY DEF StackOK, Open

\* Leaving the stack while start-up is under way or over: if a task runs, the
\* task group's owner is on the stack, so it is closed first.
LEMMA StackUnwound ==
  ASSUME ServerTypeOK, StackOK, Unwind, lifespan \in {"starting", "up"},
         UNCHANGED <<step, resources, owned, tasks>>
  PROVE  StackOK'
<1>1. Open' = Open
  BY DEF Open
<1>2. lifespan' = IF owned THEN "closing" ELSE "unwinding"
  BY Zenon DEF Unwind
<1>3. lifespan \in Running
  BY DEF Running
<1>4. CASE owned
  <2>1. lifespan' = "closing"
    BY <1>2, <1>4, Zenon
  <2> QED
    BY <1>1, <1>3, <2>1 DEF StackOK, Running
<1>5. CASE ~owned
  <2>1. lifespan' = "unwinding"
    BY <1>2, <1>5, Zenon
  <2>2. ~(step >= 3)
    BY <1>3, <1>5, Zenon DEF StackOK
  <2>3. tasks = {}
    <3>1. step \in 0..Len(Startup) /\ (tasks # {} => step >= 8)
      BY Zenon DEF ServerTypeOK, StackOK
    <3> QED
      BY <2>2, <3>1, StartupLength
  <2> QED
    BY <2>1, <2>3 DEF StackOK, Running
<1> QED
  BY <1>4, <1>5

\* A finished start-up step puts on the stack what it opens.
LEMMA StackGrows ==
  ASSUME ServerTypeOK, StackOK, StepDone
  PROVE  StackOK'
<1> DEFINE s == Startup[step + 1]
<1>1. step \in Nat /\ step + 1 \in 1..11 /\ step' = step + 1
  <2>1. step < Len(Startup) /\ step \in 0..Len(Startup) /\ step' = step + 1
    BY Zenon DEF StepDone, ServerTypeOK
  <2> QED
    BY <2>1, StartupLength
<1>2. lifespan = "starting" /\ lifespan' \in {"starting", "up"}
  BY Zenon DEF StepDone
<1>3. lifespan \in Running /\ lifespan' \in Running
  BY <1>2 DEF Running
<1>4. step' >= 3 => owned'
  <2>1. owned' = (owned \/ s = "task group")
    BY Zenon DEF StepDone
  <2>2. step' >= 3 => step >= 3 \/ step + 1 = 3
    BY <1>1
  <2>3. step >= 3 => owned
    BY <1>3, Zenon DEF StackOK
  <2>4. step + 1 = 3 => s = "task group"
    BY StartupSteps
  <2> QED
    BY <2>1, <2>2, <2>3, <2>4, Zenon
<1>5. /\ Open \subseteq Open'
      /\ s \in DOMAIN Opens => \A k \in 1..Len(Opens[s]) : Opens[s][k] \in Open'
  <2>1. CASE s \in DOMAIN Opens
    <3>1. resources' = resources \o Opens[s]
      BY <2>1 DEF StepDone
    <3>2. Opens[s] \in Seq(Resources) /\ resources \in Seq(Resources)
      BY <1>1, <2>1, StartupSteps DEF ServerTypeOK
    <3> QED
      BY <3>1, <3>2, Pushed
  <2>2. CASE s \notin DOMAIN Opens
    <3>1. resources' = resources
      BY <2>2, Zenon DEF StepDone
    <3> QED
      BY <2>2, <3>1 DEF Open
  <2> QED
    BY <2>1, <2>2
<1>6. step' >= 5 => {"hub", "workspaces"} \subseteq Open'
  <2>1. CASE step >= 5
    BY <1>3, <1>5, <2>1 DEF StackOK
  <2>2. CASE step + 1 = 5
    <3>1. s \in DOMAIN Opens /\ Opens[s] = <<"hub", "workspaces">>
      BY <2>2, StartupSteps
    <3> QED
      BY <1>5, <3>1
  <2> QED
    BY <1>1, <2>1, <2>2
<1>7. step' >= 8 => {"samples", "portal"} \subseteq Open'
  <2>1. CASE step >= 8
    BY <1>3, <1>5, <2>1 DEF StackOK
  <2>2. CASE step + 1 = 8
    <3>1. s \in DOMAIN Opens /\ Opens[s] = <<"samples", "portal">>
      BY <2>2, StartupSteps
    <3> QED
      BY <1>5, <3>1
  <2> QED
    BY <1>1, <2>1, <2>2
<1>8. tasks' # {} => step' >= 8
  <2>1. CASE s \in DOMAIN Starts
    <3>1. step + 1 >= 8
      BY <1>1, <2>1, StartupSteps
    <3> QED
      BY <1>1, <3>1
  <2>2. CASE s \notin DOMAIN Starts
    <3>1. tasks' = tasks
      BY <2>2, Zenon DEF StepDone
    <3> QED
      BY <1>1, <3>1 DEF StackOK
  <2> QED
    BY <2>1, <2>2
<1>9. lifespan' # "off" /\ lifespan' # "down"
  BY <1>2
<1> QED
  BY <1>3, <1>4, <1>6, <1>7, <1>8, <1>9, Zenon DEF StackOK

\* Every step keeps the stack in line with the steps done.
LEMMA StackStep ==
  ASSUME ServerTypeOK, StackOK, WebOK, [ServerNext]_serverVars
  PROVE  StackOK'
<1> USE DEF stackVars, taskVars, webVars, launchVars, watchVars
<1>1. CASE StepDone
  BY <1>1, StackGrows
<1>2. CASE StepFails
  <2>1. Unwind /\ lifespan = "starting" /\ UNCHANGED <<step, resources, owned, tasks>>
    BY <1>2, Zenon DEF StepFails
  <2> QED
    BY <2>1, StackUnwound
<1>3. CASE DatabaseRefused
  <2>1. Unwind /\ lifespan = "starting" /\ UNCHANGED <<step, resources, owned, tasks>>
    BY <1>3, Zenon DEF DatabaseRefused
  <2> QED
    BY <2>1, StackUnwound
<1>4. CASE LoopEnds
  <2>1. Unwind /\ lifespan \in {"starting", "up"} /\ UNCHANGED <<step, resources, owned, tasks>>
    BY <1>4, Zenon DEF LoopEnds
  <2> QED
    BY <2>1, StackUnwound
<1>5. CASE ConnectionsGone
  <2>1. uvicorn = "waiting"
    BY <1>5, Zenon DEF ConnectionsGone
  <2>2. lifespan = "up"
    BY <2>1 DEF WebOK
  <2>3. CASE UNCHANGED stackVars
    BY <2>3, StackKept
  <2>4. CASE Unwind /\ UNCHANGED <<step, resources, owned, tasks, schema>>
    BY <2>2, <2>4, StackUnwound
  <2> QED
    BY <1>5, <2>3, <2>4, Zenon DEF ConnectionsGone
<1>6. ASSUME NEW gone \in SUBSET tasks, tasks' = tasks \ gone,
             UNCHANGED <<lifespan, step, resources, owned>>
      PROVE  StackOK'
  BY <1>6 DEF StackOK, Open
<1>7. CASE MaintenanceStops
  <2>1. tasks' = tasks \ {"maintenance"} /\ "maintenance" \in tasks
        /\ UNCHANGED <<lifespan, step, resources, owned>>
    BY <1>7, Zenon DEF MaintenanceStops
  <2> QED
    BY <1>6, <2>1
<1>8. ASSUME NEW t \in Tasks, ExecutionCloses(t)
      PROVE  StackOK'
  <2>1. UNCHANGED <<lifespan, step, resources, owned>> /\ (tasks' = tasks \/ tasks' = tasks \ {t})
    BY <1>8, Zenon DEF ExecutionCloses
  <2>2. tasks' = tasks \ ({t} \cap tasks) \/ tasks' = tasks \ {}
    BY <2>1
  <2> QED
    BY <1>6, <2>1, <2>2, ZenonT(60)
<1>9. ASSUME NEW t \in Tasks, TaskEnds(t)
      PROVE  StackOK'
  <2>1. UNCHANGED <<lifespan, step, resources, owned>> /\ tasks' = tasks \ {t} /\ t \in tasks
    BY <1>9, Zenon DEF TaskEnds
  <2> QED
    BY <1>6, <2>1
<1>10. CASE CancelGroup
  <2>1. /\ lifespan = "closing" /\ lifespan' = "joining"
        /\ UNCHANGED <<step, resources, owned, tasks>>
    BY <1>10, Zenon DEF CancelGroup
  <2> QED
    BY <2>1 DEF StackOK, Open, Running
<1>11. CASE Joined
  <2>1. tasks = {} /\ lifespan' = "unwinding" /\ UNCHANGED <<step, resources, tasks>>
    BY <1>11, Zenon DEF Joined
  <2> QED
    BY <2>1 DEF StackOK, Running
<1>12. CASE CloseResource
  <2>1. /\ lifespan = "unwinding" /\ lifespan' \in {"unwinding", "down"}
        /\ lifespan' = "down" => resources' = <<>>
        /\ UNCHANGED <<step, owned, tasks>>
    BY <1>12 DEF CloseResource
  <2>2. tasks = {}
    BY <2>1 DEF StackOK, Running
  <2> QED
    BY <2>1, <2>2 DEF StackOK, Running
<1>13. CASE StartUvicorn
  <2>1. /\ uvicorn = "bound" /\ lifespan' = "starting"
        /\ UNCHANGED <<step, resources, owned, tasks>>
    BY <1>13, Zenon DEF StartUvicorn
  <2>2. lifespan = "off"
    BY <2>1 DEF WebOK
  <2> QED
    BY <2>1, <2>2 DEF StackOK, Running, Open
<1>14. CASE UNCHANGED <<lifespan, step, resources, owned, tasks>>
  BY <1>14, StackKept
<1> QED
  <2>1. \/ StepDone \/ StepFails \/ DatabaseRefused \/ LoopEnds \/ ConnectionsGone
        \/ MaintenanceStops \/ CancelGroup \/ Joined \/ CloseResource \/ StartUvicorn
        \/ \E t \in Tasks : ExecutionCloses(t) \/ TaskEnds(t)
        \/ UNCHANGED <<lifespan, step, resources, owned, tasks>>
    BY Zenon DEF ServerNext, Runtime, Web, Launcher, StartupEnds, StopServing, LifespanEnded, PublishReady,
           ServeFails, ServeEnds, PublishFails, Signal, Close, CloseTimesOut, ParentDies, Connect,
           Leave, Probe, serverVars
  <2> QED
    BY <1>1, <1>2, <1>3, <1>4, <1>5, <1>7, <1>8, <1>9, <1>10, <1>11, <1>12, <1>13, <1>14, <2>1

-----------------------------------------------------------------------------
(* The web server and the launcher.                                        *)

\* Where the lifespan can go: it comes up, it is left once, it stays down.
LEMMA LifespanStep ==
  ASSUME ServerTypeOK, StackOK, WebOK, LauncherOK, [ServerNext]_serverVars
  PROVE  /\ lifespan = "off" => lifespan' \in {"off", "starting"}
         /\ lifespan = "down" => lifespan' = "down"
         /\ lifespan \in {"closing", "joining", "unwinding"} =>
              lifespan' \in {"closing", "joining", "unwinding", "down"}
         /\ uvicorn \in {"serving", "waiting"} /\ lifespan' # "up" => ConnectionsGone
         /\ lifespan' = "off" => lifespan = "off"
<1> USE DEF stackVars, taskVars, webVars, launchVars, watchVars
<1>1. Unwind => lifespan' \in {"closing", "unwinding"}
  BY Zenon DEF Unwind
<1>2. CASE StepDone
  <2>1. lifespan = "starting" /\ lifespan' \in {"starting", "up"}
    BY <1>2, Zenon DEF StepDone
  <2> QED
    BY <2>1 DEF WebOK
<1>3. CASE StepFails \/ DatabaseRefused
  <2>1. lifespan = "starting" /\ Unwind
    BY <1>3, Zenon DEF StepFails, DatabaseRefused
  <2> QED
    BY <1>1, <2>1 DEF WebOK
<1>4. CASE LoopEnds
  <2>1. serve \in {"ended", "failed"} /\ lifespan \in {"starting", "up"} /\ Unwind
    BY <1>4, Zenon DEF LoopEnds
  <2>2. uvicorn = "exited"
    BY <2>1, Zenon DEF LauncherOK
  <2> QED
    BY <1>1, <2>1, <2>2
<1>5. CASE ConnectionsGone
  <2>1. uvicorn = "waiting" /\ (Unwind \/ UNCHANGED lifespan)
    BY <1>5, Zenon DEF ConnectionsGone
  <2>2. lifespan = "up"
    BY <2>1 DEF WebOK
  <2> QED
    BY <1>1, <1>5, <2>1, <2>2
<1>6. CASE CancelGroup
  <2>1. lifespan = "closing" /\ lifespan' = "joining"
    BY <1>6, Zenon DEF CancelGroup
  <2> QED
    BY <2>1 DEF WebOK
<1>7. CASE Joined
  <2>1. lifespan = "joining" /\ lifespan' = "unwinding"
    BY <1>7, Zenon DEF Joined
  <2> QED
    BY <2>1 DEF WebOK
<1>8. CASE CloseResource
  <2>1. lifespan = "unwinding" /\ lifespan' \in {"unwinding", "down"}
    BY <1>8 DEF CloseResource
  <2> QED
    BY <2>1 DEF WebOK
<1>9. CASE StartUvicorn
  <2>1. uvicorn = "bound" /\ lifespan' = "starting"
    BY <1>9, Zenon DEF StartUvicorn
  <2>2. lifespan = "off"
    BY <2>1 DEF WebOK
  <2> QED
    BY <2>1, <2>2
<1>10. CASE UNCHANGED lifespan
  BY <1>10 DEF WebOK, ServerTypeOK
<1> QED
  <2>1. \/ StepDone \/ StepFails \/ DatabaseRefused \/ LoopEnds \/ ConnectionsGone
        \/ CancelGroup \/ Joined \/ CloseResource \/ StartUvicorn \/ UNCHANGED lifespan
    BY Zenon DEF ServerNext, Runtime, Web, Launcher, StartupEnds, StopServing, LifespanEnded, PublishReady,
           ServeFails, ServeEnds, PublishFails, Signal, Close, CloseTimesOut, ParentDies, Connect,
           Leave, Probe, MaintenanceStops, ExecutionCloses, TaskEnds, serverVars
  <2> QED
    BY <1>2, <1>3, <1>4, <1>5, <1>6, <1>7, <1>8, <1>9, <1>10, <2>1

\* Only the web server's start takes the lifespan off its mark.
LEMMA StartsOnce ==
  ASSUME lifespan = "off", [ServerNext]_serverVars
  PROVE  lifespan' = "off" \/ StartUvicorn \/ ConnectionsGone
<1> USE DEF stackVars, taskVars, webVars, launchVars, watchVars
<1>1. \/ lifespan \in {"starting", "up", "closing", "joining", "unwinding"}
      \/ StartUvicorn \/ ConnectionsGone \/ UNCHANGED lifespan
  BY Zenon DEF ServerNext, Runtime, Web, Launcher, StartupEnds, StopServing, LifespanEnded, PublishReady,
         ServeFails, ServeEnds, PublishFails, Signal, Close, CloseTimesOut, ParentDies, Connect,
         Leave, Probe, MaintenanceStops, ExecutionCloses, TaskEnds, StepDone, StepFails,
         DatabaseRefused, LoopEnds, CancelGroup, Joined, CloseResource, serverVars
<1> QED
  BY <1>1

\* Every step keeps Uvicorn in line with the lifespan.
LEMMA WebStep ==
  ASSUME ServerTypeOK, StackOK, WebOK, LauncherOK, [ServerNext]_serverVars
  PROVE  WebOK'
<1> USE DEF stackVars, taskVars, webVars, launchVars, watchVars
<1>1. /\ lifespan = "off" => lifespan' \in {"off", "starting"}
      /\ lifespan = "down" => lifespan' = "down"
      /\ lifespan \in {"closing", "joining", "unwinding"} =>
           lifespan' \in {"closing", "joining", "unwinding", "down"}
      /\ uvicorn \in {"serving", "waiting"} /\ lifespan' # "up" => ConnectionsGone
  BY LifespanStep, Zenon
<1>2. CASE StartUvicorn
  <2>1. uvicorn' = "starting"
    BY <1>2, Zenon DEF StartUvicorn
  <2> QED
    BY <2>1 DEF WebOK
<1>3. CASE StartupEnds
  <2>1. \/ uvicorn' = "serving" /\ lifespan' = "up"
        \/ uvicorn' = "exited" /\ lifespan' = "down"
    BY <1>3, Zenon DEF StartupEnds
  <2> QED
    BY <2>1 DEF WebOK
<1>4. CASE Signal
  <2>1. uvicorn' = uvicorn /\ lifespan' = lifespan /\ uvicorn \in {"starting", "serving", "waiting"}
    BY <1>4, Zenon DEF Signal
  <2> QED
    BY <2>1 DEF WebOK
<1>5. CASE StopServing
  <2>1. uvicorn = "serving" /\ uvicorn' = "waiting" /\ lifespan' = lifespan
    BY <1>5, Zenon DEF StopServing
  <2> QED
    BY <2>1 DEF WebOK
<1>6. CASE ConnectionsGone
  <2>1. CASE force /\ uvicorn' = "exited" /\ UNCHANGED force
    <3>1. force' /\ uvicorn' = "exited"
      BY <2>1, Zenon
    <3> QED
      BY <3>1 DEF WebOK
  <2>2. CASE uvicorn' = "ending" /\ Unwind
    <3>1. lifespan' \in {"closing", "unwinding"}
      BY <2>2, Zenon DEF Unwind
    <3> QED
      BY <2>2, <3>1 DEF WebOK
  <2> QED
    BY <1>6, <2>1, <2>2, Zenon DEF ConnectionsGone
<1>7. CASE LifespanEnded
  <2>1. uvicorn' = "exited" /\ lifespan' = "down"
    BY <1>7, Zenon DEF LifespanEnded
  <2> QED
    BY <2>1 DEF WebOK
<1>8. CASE PublishFails
  <2>1. uvicorn' = "exited" /\ serve' = "failed" /\ started'
    BY <1>8, Zenon DEF PublishFails
  <2> QED
    BY <2>1, Zenon DEF WebOK
<1>9. CASE CloseTimesOut
  <2>1. uvicorn' = "exited" /\ force'
    BY <1>9, Zenon DEF CloseTimesOut
  <2> QED
    BY <2>1, Zenon DEF WebOK
<1>10. CASE ~ConnectionsGone /\ UNCHANGED <<uvicorn, force, started>>
            /\ (serve = "failed" /\ started => serve' = "failed")
  <2>1. uvicorn' = "bound" => lifespan' = "off"
    <3>1. CASE uvicorn = "bound"
      <4>1. lifespan = "off"
        BY <3>1 DEF WebOK
      <4>2. lifespan' = "off" \/ StartUvicorn
        BY <1>10, <4>1, StartsOnce
      <4>3. StartUvicorn => uvicorn' = "starting"
        BY Zenon DEF StartUvicorn
      <4> QED
        BY <1>10, <3>1, <4>2, <4>3
    <3> QED
      BY <1>10, <3>1
  <2>2. uvicorn' \in {"serving", "waiting"} => lifespan' = "up"
    BY <1>1, <1>10
  <2>3. uvicorn' = "ending" => lifespan' \in {"closing", "joining", "unwinding", "down"}
    BY <1>1, <1>10 DEF WebOK
  <2>4. uvicorn' = "exited" => force' \/ lifespan' = "down" \/ (serve' = "failed" /\ started')
    BY <1>1, <1>10, Zenon DEF WebOK
  <2> QED
    BY <2>1, <2>2, <2>3, <2>4, Zenon DEF WebOK
<1>11. CASE ServeFails \/ ServeEnds \/ PublishReady
  <2>1. ~ConnectionsGone
    <3>1. UNCHANGED uvicorn /\ ~(serve = "failed")
      BY <1>11, Zenon DEF ServeFails, ServeEnds, PublishReady
    <3>2. ConnectionsGone => uvicorn = "waiting" /\ uvicorn' \in {"exited", "ending"}
      BY Zenon DEF ConnectionsGone
    <3> QED
      BY <3>1, <3>2
  <2>2. UNCHANGED <<uvicorn, force, started>> /\ ~(serve = "failed")
    BY <1>11, Zenon DEF ServeFails, ServeEnds, PublishReady
  <2> QED
    BY <1>10, <2>1, <2>2
<1>12. CASE UNCHANGED <<uvicorn, force, started, serve>>
  <2>1. ~ConnectionsGone
    <3>1. ConnectionsGone => uvicorn = "waiting" /\ uvicorn' \in {"exited", "ending"}
      BY Zenon DEF ConnectionsGone
    <3> QED
      BY <1>12, <3>1
  <2> QED
    BY <1>10, <1>12, <2>1
<1> QED
  <2>1. \/ StartUvicorn \/ StartupEnds \/ Signal \/ StopServing \/ ConnectionsGone \/ LifespanEnded
        \/ PublishFails \/ CloseTimesOut \/ ServeFails \/ ServeEnds \/ PublishReady
        \/ UNCHANGED <<uvicorn, force, started, serve>>
    BY Zenon DEF ServerNext, Runtime, Web, Launcher, StepDone, StepFails, DatabaseRefused, LoopEnds,
           MaintenanceStops, ExecutionCloses, TaskEnds, CancelGroup, Joined, CloseResource,
           Close, ParentDies, Connect, Leave, Probe, serverVars
  <2> QED
    BY <1>2, <1>3, <1>4, <1>5, <1>6, <1>7, <1>8, <1>9, <1>11, <1>12, <2>1

\* Every step keeps the launcher in line with Uvicorn and the socket.
LEMMA LauncherStep ==
  ASSUME ServerTypeOK, LauncherOK, [ServerNext]_serverVars
  PROVE  LauncherOK'
<1> USE DEF stackVars, taskVars, webVars, launchVars, watchVars
<1>1. CASE PublishReady
  BY <1>1, Zenon DEF PublishReady, LauncherOK
<1>2. CASE PublishFails
  BY <1>2, Zenon DEF PublishFails, LauncherOK
<1>3. CASE ServeFails
  BY <1>3, Zenon DEF ServeFails, LauncherOK
<1>4. CASE ServeEnds
  BY <1>4, Zenon DEF ServeEnds, LauncherOK
<1>5. CASE Close
  BY <1>5, Zenon DEF Close, LauncherOK
<1>6. CASE CloseTimesOut
  BY <1>6, Zenon DEF CloseTimesOut, LauncherOK
<1>7. CASE /\ UNCHANGED <<serve, record, caller>>
           /\ uvicorn = "exited" => UNCHANGED <<uvicorn, listener, started>>
  <2>1. serve' = serve /\ record' = record /\ caller' = caller
    BY <1>7
  <2>2. CASE serve \in {"ended", "failed"}
    <3>1. uvicorn' = uvicorn /\ listener' = listener /\ started' = started
      BY <1>7, <2>2, Zenon DEF LauncherOK
    <3> QED
      BY <2>1, <3>1, Zenon DEF LauncherOK
  <2>3. CASE serve \notin {"ended", "failed"}
    <3>1. serve # "failed"
      BY <2>3
    <3>2. record # "failed"
      BY <3>1, Zenon DEF LauncherOK
    <3>3. caller' \in {"holding", "closing"} => serve' = "serving"
      BY <2>1, Zenon DEF LauncherOK
    <3> QED
      BY <2>1, <2>3, <3>1, <3>2, <3>3, Zenon DEF LauncherOK
  <2> QED
    BY <2>2, <2>3
<1> QED
  <2>1. \/ PublishReady \/ PublishFails \/ ServeFails \/ ServeEnds \/ Close \/ CloseTimesOut
        \/ /\ UNCHANGED <<serve, record, caller>>
           /\ UNCHANGED <<uvicorn, listener, started>> \/ uvicorn # "exited"
    <3>1. \/ StartUvicorn \/ StartupEnds \/ Signal \/ StopServing \/ ConnectionsGone
             \/ LifespanEnded =>
               UNCHANGED <<serve, record, caller>> /\ uvicorn # "exited"
      <4>1. StartUvicorn \/ StartupEnds \/ Signal =>
              /\ UNCHANGED <<serve, record, caller>>
              /\ uvicorn \in {"bound", "starting", "serving", "waiting"}
        BY Zenon DEF StartUvicorn, StartupEnds, Signal
      <4>2. StopServing \/ ConnectionsGone \/ LifespanEnded =>
              /\ UNCHANGED <<serve, record, caller>>
              /\ uvicorn \in {"serving", "waiting", "ending"}
        BY Zenon DEF StopServing, ConnectionsGone, LifespanEnded
      <4> QED
        BY <4>1, <4>2
    <3>2. \/ PublishReady \/ PublishFails \/ ServeFails \/ ServeEnds \/ Close \/ CloseTimesOut
          \/ StartUvicorn \/ StartupEnds \/ Signal \/ StopServing \/ ConnectionsGone
          \/ LifespanEnded \/ UNCHANGED <<serve, record, caller, uvicorn, listener, started>>
      BY Zenon DEF ServerNext, Runtime, Web, Launcher, ParentDies, Connect, Leave, Probe,
             MaintenanceStops, ExecutionCloses, TaskEnds, StepDone, StepFails, DatabaseRefused,
             LoopEnds, CancelGroup, Joined, CloseResource, serverVars
    <3> QED
      BY <3>1, <3>2
  <2> QED
    BY <1>1, <1>2, <1>3, <1>4, <1>5, <1>6, <1>7, <2>1

\* Every step keeps the count of misses true.
LEMMA WatchdogStep ==
  ASSUME ServerTypeOK, WatchdogOK, [ServerNext]_serverVars
  PROVE  WatchdogOK'
<1> USE DEF stackVars, taskVars, webVars, launchVars, watchVars
<1>1. ASSUME NEW answer \in {"alive", "missing", "unknown"}, Probe(answer), ~dead
      PROVE  WatchdogOK'
  <2>1. /\ parent' = parent /\ misses \in 0..Threshold /\ wrong \in 0..(Threshold - 1)
        /\ misses' = CASE answer = "missing" -> misses + 1
                       [] answer = "alive" -> 0
                       [] answer = "unknown" -> misses
        /\ parent = "alive" /\ answer = "missing" => wrong < Threshold - 1
        /\ wrong' = IF parent = "gone" \/ answer = "unknown" THEN wrong
                    ELSE IF answer = "missing" THEN wrong + 1 ELSE 0
        /\ parent = "alive" => misses = wrong
        /\ parent \in {"alive", "gone"}
    BY <1>1, Zenon DEF Probe, ProbeSays, ServerTypeOK, WatchdogOK
  <2>2. dead' = (misses' >= Threshold)
    BY <1>1, Zenon DEF Probe, ProbeSays
  <2>3. parent' = "alive" => misses' = wrong'
    BY <2>1
  <2>4. misses' >= Threshold => parent' = "gone"
    BY <2>1, ThresholdOK
  <2> QED
    BY <2>2, <2>3, <2>4, Zenon DEF WatchdogOK
<1>2. CASE ParentDies
  <2>1. parent' = "gone" /\ UNCHANGED <<misses, wrong, dead>>
    BY <1>2, Zenon DEF ParentDies
  <2> QED
    BY <2>1, Zenon DEF WatchdogOK
<1>3. CASE UNCHANGED watchVars
  BY <1>3, Zenon DEF WatchdogOK
<1> QED
  <2>1. \/ \E answer \in {"alive", "missing", "unknown"} : Probe(answer) /\ ~dead
        \/ ParentDies \/ UNCHANGED watchVars
    BY Zenon DEF ServerNext, Runtime, Web, Launcher, StartupEnds, StopServing, LifespanEnded, PublishReady,
           ServeFails, ServeEnds, PublishFails, Signal, Close, CloseTimesOut, Connect, Leave,
           MaintenanceStops, ExecutionCloses, TaskEnds, StepDone, StepFails, DatabaseRefused,
           LoopEnds, ConnectionsGone, CancelGroup, Joined, CloseResource, StartUvicorn, serverVars
  <2> QED
    BY <1>1, <1>2, <1>3, <2>1

-----------------------------------------------------------------------------
(* The results.                                                            *)

\* Every step keeps the invariant.
LEMMA NextSInv ==
  ASSUME SInv, [ServerNext]_serverVars
  PROVE  SInv'
BY TypeStep, StackStep, WebStep, LauncherStep, WatchdogStep, Zenon DEF SInv

\* The stack, the web server, the launcher and the watchdog keep to what each
\* tells about the others (runtime.py:103-314, server_launcher.py,
\* process_watchdog.py).
THEOREM ServerInvariance == ServerSpec => []SInv
<1>1. ServerInit => SInv
  BY InitSInv
<1>2. SInv /\ [ServerNext]_serverVars => SInv'
  BY NextSInv
<1> QED
  BY <1>1, <1>2, PTL DEF ServerSpec

\* By the invariant what a task uses is on the stack.
LEMMA StackCoversUses ==
  ASSUME SInv
  PROVE  NothingOutlivesWhatItUses
<1>1. ServerTypeOK /\ StackOK
  BY Zenon DEF SInv
<1>2. ASSUME NEW t \in tasks
      PROVE  Uses[t] \subseteq Open
  <2>1. step >= 8 /\ lifespan \in Running /\ step \in 0..Len(Startup)
    BY <1>1, <1>2, Zenon DEF StackOK, ServerTypeOK
  <2>2. step >= 5
    BY <2>1, StartupLength
  <2>3. {"hub", "workspaces"} \subseteq Open /\ {"samples", "portal"} \subseteq Open
    BY <1>1, <2>1, <2>2, Zenon DEF StackOK
  <2>4. t \in Tasks
    BY <1>1, <1>2 DEF ServerTypeOK
  <2> QED
    BY <2>3, <2>4 DEF Uses, Tasks
<1> QED
  BY <1>1, <1>2, Zenon DEF NothingOutlivesWhatItUses

\* By the invariant an unforced exit leaves nothing.
LEMMA ExitsAreClean ==
  ASSUME SInv
  PROVE  ExitIsClean
<1>1. ASSUME serve \in {"ended", "failed"}, Unforced
      PROVE  lifespan = "down" /\ tasks = {} /\ resources = <<>> /\ ~listener
  <2>1. uvicorn = "exited" /\ ~listener
    BY <1>1, Zenon DEF SInv, LauncherOK
  <2>2. lifespan = "down"
    BY <1>1, <2>1, Zenon DEF SInv, WebOK, Unforced
  <2>3. resources = <<>>
    BY <2>2, Zenon DEF SInv, StackOK
  <2>4. lifespan \notin Running
    BY <2>2 DEF Running
  <2>5. tasks = {}
    BY <2>4, Zenon DEF SInv, StackOK
  <2> QED
    BY <2>1, <2>2, <2>3, <2>5
<1> QED
  BY <1>1, Zenon DEF ExitIsClean, SInv, LauncherOK, WatchdogOK

\* However far the start-up came and whatever failed on the way down, no
\* background task runs on after something it calls was closed
\* (runtime.py:288-314).
THEOREM TasksEndBeforeTheirResources == ServerSpec => []NothingOutlivesWhatItUses
<1>1. SInv => NothingOutlivesWhatItUses
  BY StackCoversUses
<1> QED
  BY <1>1, ServerInvariance, PTL

\* An unforced server leaves nothing open, the startup file tells a start from a
\* failure, and the watchdog kills orphans only (server_launcher.py,
\* process_watchdog.py:11-16).
THEOREM ExitsLeaveNothing == ServerSpec => []ExitIsClean
<1>1. SInv => ExitIsClean
  BY ExitsAreClean
<1> QED
  BY <1>1, ServerInvariance, PTL

=============================================================================
