------------------------------- MODULE Ledger -------------------------------
(***************************************************************************)
(* What an API key promises its owner and the platform: a question is asked*)
(* once, comes to one of three ends and is charged at most once, and never *)
(* more than was promised for it before, unless its promise was taken back *)
(* while the answer was still being written.  Some questions are open-     *)
(* ended: what they need is not known when it is promised, and they may be *)
(* charged a certain excess over it.  An answer has its price from the     *)
(* start: it is covered when it is given, and when the question leaves the *)
(* books the price is what has been charged.  Promises are made by an open *)
(* key within its limit.  GenerationRun implements this with streams that  *)
(* die, settle twice and are overtaken by a recovery.                      *)
(***************************************************************************)
EXTENDS Naturals, FiniteSets, Functions

CONSTANTS
    Questions,
    OpenEnded,  \* the questions that may cost more than was promised for them
    Excess,     \* and by how much at most
    Amounts,    \* of tokens
    Limits,     \* that the owner may have
    MaxOpen     \* questions open at a time

VARIABLES
    fate,       \* of a question: none, open, or one of its ends
    price,      \* of an answer, 0 while there is none
    promised,   \* what is set aside for a question
    charged,    \* what was charged for it
    late,       \* the questions whose promise was taken back under their answer
    status,     \* of the key: open, suspended or closed for good
    limit       \* of what may be promised and charged

question == <<fate, price, promised, charged, late>>
vars == <<question, status, limit>>

Init ==
    /\ fate = [q \in Questions |-> "none"]
    /\ price = [q \in Questions |-> 0]
    /\ promised = [q \in Questions |-> 0]
    /\ charged = [q \in Questions |-> 0]
    /\ late = {}
    /\ status = "open"
    /\ limit \in Limits

Committed == SumFunction(promised) + SumFunction(charged)

\* What a question may be charged beyond what was promised for it, and in all.
Beyond(q) == IF q \in OpenEnded THEN Excess ELSE 0
Cover(q) == promised[q] + Beyond(q)

Becomes(q, end) == fate' = [fate EXCEPT ![q] = end]

Ask(q) ==
    /\ fate[q] = "none"
    /\ Cardinality({k \in Questions : fate[k] = "open"}) < MaxOpen
    /\ Becomes(q, "open")
    /\ UNCHANGED <<price, promised, charged, late, status, limit>>

Cancel(q) ==
    /\ fate[q] = "open"
    /\ Becomes(q, "cancelled")
    /\ UNCHANGED <<price, promised, charged, late, status, limit>>

\* The answer of a question is given: nothing was charged before, and its price is
\* covered; even an answer that costs more than was promised has a promise.
GiveAnswer(q, n) ==
    /\ fate[q] = "open" /\ Becomes(q, "answered")
    /\ charged[q] = 0
    /\ n > 0 => promised[q] > 0
    /\ n <= Cover(q)
    /\ price' = [price EXCEPT ![q] = n]
    /\ UNCHANGED <<promised, charged, late, status, limit>>

\* Even an answer that was given may be withdrawn, but not a cancellation.
Fail(q) ==
    /\ fate[q] \in {"open", "answered"} /\ Becomes(q, "failed")
    /\ price' = [price EXCEPT ![q] = 0]
    /\ UNCHANGED <<promised, charged, late, status, limit>>

\* More is set aside for a question that has no end yet, or whose end its writer
\* has not seen.
Promise(q, n) ==
    /\ status = "open"
    /\ n > 0
    /\ promised' = [promised EXCEPT ![q] = @ + n]
    /\ fate[q] \in {"open", "cancelled"} \/ (fate[q] = "failed" /\ q \in late)
    /\ UNCHANGED <<fate, price, charged, late, status, limit>>
    /\ Committed' <= limit

\* A question leaves the books: what was set aside is free again, and n is charged.
\* If it was left behind it has failed; its writer may be at work still.
SettleUp(q, n) ==
    /\ charged' = [charged EXCEPT ![q] = @ + n]
    /\ promised' = [promised EXCEPT ![q] = 0]
    /\ n > 0 => charged[q] = 0
    /\ late' \in {late, late \cup {q}}
    /\ n <= Cover(q) \/ q \in late'
    /\ fate[q] = "answered" => charged[q] + n = price[q]
    /\ UNCHANGED fate \/ (fate[q] = "open" /\ Becomes(q, "failed"))
    /\ UNCHANGED <<price, status, limit>>

Suspend == status = "open" /\ status' = "suspended" /\ UNCHANGED <<question, limit>>
Resume == status = "suspended" /\ status' = "open" /\ UNCHANGED <<question, limit>>
Close == status' = "closed" /\ UNCHANGED <<question, limit>>

SetLimit(n) ==
    /\ limit' = n
    /\ UNCHANGED <<question, status>>
    /\ Committed <= n

Next ==
    \/ \E q \in Questions : Ask(q) \/ Cancel(q) \/ Fail(q)
    \/ \E q \in Questions, n \in Amounts : GiveAnswer(q, n) \/ Promise(q, n) \/ SettleUp(q, n)
    \/ Suspend \/ Resume \/ Close
    \/ \E n \in Limits : SetLimit(n)

Spec == Init /\ [][Next]_vars
=============================================================================
