-------------------------- MODULE MCWorkspaceStore --------------------------
EXTENDS WorkspaceStore, TLC

CONSTANTS n1, n2, f1, f2, tab

MCSymmetry == Permutations({n1, n2}) \union Permutations({f1, f2})
=============================================================================
