------------------------ MODULE MCAnalysisExecution ------------------------
(* Analyses of one Tab for AnalysisExecution.  The runs differ in the      *)
(* analyses that are submitted, the disturbances and the bounds.           *)
EXTENDS AnalysisExecution

CONSTANTS
  p,    \* a plain Run All Analysis
  g, s, \* a Concordance Run All group and its source
  c     \* a supporting Analysis of the group

MCKind == [a \in Analyses |-> CASE a = p -> "plain"
                                [] a = g -> "group"
                                [] a = s -> "source"
                                [] a = c -> "supporting"]

MCParent == [a \in Analyses |-> IF a \in {s, c} THEN g ELSE NoAnalysis]

NothingSuperseded == [a \in Analyses |-> {}]

\* A success of the group replaces the plain Run All before it.
SupersededByGroup == [a \in Analyses |-> IF a = g THEN {p} ELSE {}]
=============================================================================
