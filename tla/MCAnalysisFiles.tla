--------------------------- MODULE MCAnalysisFiles ---------------------------
(* A Run All t, a Data Block c made of its table, and a preview n that,    *)
(* once it has succeeded, supersedes t. The three meet in one scene; in    *)
(* the others two readers want the one slot beside t and one of the two.   *)
EXTENDS AnalysisFiles, TLC

CONSTANTS t, c, n

MCKindOf   == (t :> "table") @@ (c :> "block") @@ (n :> "preview")
MCParentOf == (t :> NoAnalysis) @@ (c :> t) @@ (n :> NoAnalysis)
MCScenes   == {{t, c, n}, {t, c, "r1", "r2"}, {t, n, "r1", "r2"}}
MCReplaces == (t :> {}) @@ (c :> {}) @@ (n :> {t})
=============================================================================
