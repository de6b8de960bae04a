---------------------------- MODULE MCIndexBuild ----------------------------
(* Small instances of IndexBuild for TLC. *)
EXTENDS IndexBuild, TLC

\* Builds, workers and requests are interchangeable; documents are ordered.
Symmetric == Permutations(Builds) \cup Permutations(Workers) \cup Permutations(Users)
=============================================================================
