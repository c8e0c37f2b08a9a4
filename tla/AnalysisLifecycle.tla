------------------------- MODULE AnalysisLifecycle -------------------------
(***************************************************************************)
(* What the Analysis records promise to everyone who reads them, whatever  *)
(* queues, processes and gates stand behind them: the abstract life cycle  *)
(* of domain/workspace/analysis.py.  One step may move several records,    *)
(* because one committed Workspace mutation does.                          *)
(***************************************************************************)

CONSTANTS
  Analyses,   \* analysis ids
  NoAnalysis, \* the parent of a root
  Kind,       \* analysis -> "plain", "group", "source" or "supporting"
  Parent      \* analysis -> the analysis it was submitted under

VARIABLES
  state,      \* analysis -> its published state
  requested   \* analysis -> cancellation_requested_at is set

lifecycleVars == <<state, requested>>

Terminal == {"succeeded", "failed", "cancelled"}
Active == {"queued", "running"}
Gone == {"absent", "removed"}

\* The sources of a Concordance Run All group that exist.
Sources(st, g) ==
  {c \in Analyses : Parent[c] = g /\ Kind[c] = "source" /\ st[c] \notin Gone}

Created(a) ==
  /\ state[a] = "absent"
  /\ state'[a] = IF Kind[a] = "group" THEN "running" ELSE "queued"
  /\ ~requested'[a]

Started(a) ==
  /\ state[a] = "queued"
  /\ state'[a] = "running"
  /\ requested'[a] = requested[a]

Requested(a) ==
  /\ state[a] = "running"
  /\ state'[a] = "running"
  /\ requested'[a]

Cancelled(a) ==
  /\ state[a] \in Active
  /\ state'[a] = "cancelled"
  /\ requested'[a]

Failed(a) ==
  /\ state[a] \in Active
  /\ state'[a] = "failed"
  /\ requested'[a] = requested[a]

Succeeded(a) ==
  /\ state[a] = "running"
  /\ state'[a] = "succeeded"
  /\ requested'[a] = requested[a]

Removed(a) ==
  /\ state[a] \notin Gone
  /\ state'[a] = "removed"

Unmoved(a) ==
  /\ state'[a] = state[a]
  /\ requested'[a] = requested[a]

\* A group is published as ended only together with all of its sources, and
\* as succeeded only when all of them succeeded.
GroupsAgree(st) ==
  \A g \in Analyses :
    /\ Kind[g] = "group"
    /\ st[g] \in Terminal
    => /\ \A c \in Sources(st, g) : st[c] \in Terminal
       /\ st[g] = "succeeded" => \A c \in Sources(st, g) : st[c] = "succeeded"

Init ==
  /\ state = [a \in Analyses |-> "absent"]
  /\ requested = [a \in Analyses |-> FALSE]

Next ==
  /\ \A a \in Analyses :
       \/ Created(a) \/ Started(a) \/ Requested(a) \/ Cancelled(a)
       \/ Failed(a) \/ Succeeded(a) \/ Removed(a) \/ Unmoved(a)
  /\ GroupsAgree(state')

Spec == Init /\ [][Next]_lifecycleVars
=============================================================================
