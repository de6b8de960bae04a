---------------------------- MODULE Publications ----------------------------
(***************************************************************************)
(* What a knowledge base promises its readers and operators: a history of  *)
(* editions that only grows, and one edition, or none yet, that is shown.  *)
(* A publication adds the documents as they are at that moment, once for   *)
(* each build, and shows them; a rollback shows one of the two latest of   *)
(* the other editions again, as it was.  Nothing else touches either.      *)
(* ReleaseLifecycle implements this with rows, states, a pointer, epochs   *)
(* and requests that have read before they write.                          *)
(***************************************************************************)
EXTENDS Naturals

CONSTANTS
    Numbers,    \* of editions, positive
    Builds,     \* what an edition is made of, once
    Manifests,  \* sets of documents
    Empty       \* the manifest of no documents

VARIABLES
    present,    \* the documents as they are
    editions,   \* by number: the build and the documents of each
    shown       \* the number of the edition that is shown, 0 for none

vars == <<present, editions, shown>>

Init ==
    /\ present = Empty
    /\ editions = [n \in {} |-> Empty]
    /\ shown = 0

Edit(m) ==
    /\ present' = m
    /\ UNCHANGED <<editions, shown>>

\* The edition takes the lowest number that is free.
Publish(b, n) ==
    /\ n \notin DOMAIN editions
    /\ \A k \in Numbers : k < n => k \in DOMAIN editions
    /\ \A k \in DOMAIN editions : editions[k].build # b
    /\ present # Empty
    /\ editions' = [k \in DOMAIN editions \cup {n} |->
                        IF k = n THEN [build |-> b, documents |-> present] ELSE editions[k]]
    /\ shown' = n
    /\ UNCHANGED present

Others == DOMAIN editions \ {shown}

ShowAgain(n) ==
    /\ n \in Others
    /\ \A j, k \in Others : j > n /\ k > n => j = k
    /\ shown' = n
    /\ UNCHANGED <<present, editions>>

Next ==
    \/ \E m \in Manifests : Edit(m)
    \/ \E b \in Builds, n \in Numbers : Publish(b, n)
    \/ \E n \in Numbers : ShowAgain(n)

Spec == Init /\ [][Next]_vars
=============================================================================
