-------------------------- MODULE MCFairScheduler --------------------------
(* FairScheduler with two users, four items and two runner slots: both     *)
(* users compete, one user owns several workspaces, and work queues up     *)
(* behind a full capacity.                                                 *)
EXTENDS FairScheduler

CONSTANTS u1, u2, w1, w2, w3

MCOwner == [i \in Items |-> IF i % 2 = 1 THEN u1 ELSE u2]
MCHome == [i \in Items |-> CASE i = 1 -> w1 [] i = 3 -> w2 [] OTHER -> w3]
=============================================================================
