----------------------------- MODULE MCMcpTools -----------------------------
(* A ring of two records, with one rendering of each kind: what the handlers *)
(* return depends on the positions of the records and on their marks.        *)
EXTENDS McpTools, TLC

MCRenderings == {"head", "frame"}
MCContFirst == {"frame"}
MCMarked == {"frame"}
MCSymmetry == Permutations(Raws)
MCInputs == -1 .. 2
=============================================================================
