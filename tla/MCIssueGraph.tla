---------------------------- MODULE MCIssueGraph ----------------------------
(* Small instances of IssueGraph.                                          *)
EXTENDS IssueGraph, TLC

\* Handlers are interchangeable.
WriterSymmetry == Permutations(Writers)
=============================================================================
