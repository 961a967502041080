----------------------------- MODULE MCPullMerge -----------------------------
EXTENDS PullMerge, TLC

Symmetry == Permutations(Workers)
=============================================================================
