---------------------------- MODULE BuildOutcomes ----------------------------
(***************************************************************************)
(* What the rest of the system may assume of index builds, and what it may *)
(* not.  A build is asked for once for an input and while no other one is  *)
(* pending, of parts that can be used at that moment.  From then on late   *)
(* workers, retries and cancellations may put it into any of three states  *)
(* at any time, in any order; but it becomes ready only at a moment at     *)
(* which all its parts are embedded, and a part that is embedded stays so  *)
(* until it is parsed again.  IndexBuild implements this with outbox,      *)
(* broker, leases and workers.                                             *)
(***************************************************************************)
EXTENDS Naturals

CONSTANTS
    Builds,
    Parts       \* versions of documents

VARIABLES
    epoch,      \* the input as it is
    input,      \* of a build: the epoch it was asked for in
    holds,      \* its parts
    outcome,    \* none, pending, ready or failed (cancelled included)
    usable,     \* the parts whose last parse can be served
    covered     \* the parts whose chunks, if any, are all embedded

builds == <<input, holds, outcome>>
vars == <<epoch, builds, usable, covered>>

Init ==
    /\ epoch = 0
    /\ input = [b \in Builds |-> 0]
    /\ holds = [b \in Builds |-> {}]
    /\ outcome = [b \in Builds |-> "none"]
    /\ usable \in SUBSET Parts
    /\ covered \in SUBSET Parts

Asked(b) == outcome[b] # "none"

Ask(b, S) ==
    /\ ~Asked(b)
    /\ \A c \in Builds : outcome[c] # "pending" /\ (Asked(c) => input[c] # epoch)
    /\ S # {} /\ S \subseteq usable
    /\ input' = [input EXCEPT ![b] = epoch]
    /\ holds' = [holds EXCEPT ![b] = S]
    /\ outcome' = [outcome EXCEPT ![b] = "pending"]
    /\ UNCHANGED <<epoch, usable, covered>>

Becomes(b, state) ==
    /\ Asked(b)
    /\ outcome' = [outcome EXCEPT ![b] = state]
    /\ UNCHANGED <<epoch, input, holds, usable, covered>>

Resume(b) == Becomes(b, "pending")
Fail(b) == Becomes(b, "failed")
Finish(b) == Becomes(b, "ready") /\ holds[b] \subseteq covered

\* A worker stores the last vectors of a part of its build, in whatever state that is.
Embed(p) ==
    /\ \E b \in Builds : p \in holds[b]
    /\ covered' = covered \cup {p}
    /\ UNCHANGED <<epoch, builds, usable>>

\* A part gets new chunks, which nobody has embedded.
Parse(p) ==
    /\ usable' = usable \cup {p}
    /\ covered' = covered \ {p}
    /\ UNCHANGED <<epoch, builds>>

\* A part is being parsed, or its parse fails and leaves the chunks it had, others
\* or none.
Spoil(p) ==
    /\ usable' = usable \ {p}
    /\ covered' \in {covered, covered \ {p}, covered \cup {p}}
    /\ UNCHANGED <<epoch, builds>>

Change ==
    /\ epoch' = epoch + 1
    /\ UNCHANGED <<builds, usable, covered>>

Next ==
    \/ \E b \in Builds : \/ \E S \in SUBSET Parts : Ask(b, S)
                         \/ Resume(b) \/ Fail(b) \/ Finish(b)
    \/ \E p \in Parts : Embed(p) \/ Parse(p) \/ Spoil(p)
    \/ Change

Spec == Init /\ [][Next]_vars
=============================================================================
