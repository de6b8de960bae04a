------------------------- MODULE MCReleaseLifecycle -------------------------
(* Small instances of ReleaseLifecycle for TLC. *)
EXTENDS ReleaseLifecycle, TLC

\* Documents, builds and operators are interchangeable; releases are ordered.
Symmetric == Permutations(Docs) \cup Permutations(Builds) \cup Permutations(Sessions)
=============================================================================
