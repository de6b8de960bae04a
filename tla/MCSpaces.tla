------------------------------ MODULE MCSpaces ------------------------------
(* Small instances of Spaces for TLC. *)
EXTENDS Spaces, TLC

\* Requests are interchangeable, and so are the accounts and the spaces that are
\* made after the first ones.
Symmetric == Permutations(Requests) \cup Permutations(Users \ {Admin})
                 \cup Permutations(Tenants \ {Internal})
=============================================================================
