---------------------------- MODULE Ledger_proofs ----------------------------
(***************************************************************************)
(* What the books of Ledger come to, whoever keeps them: unless a promise  *)
(* was taken back under its answer, the limit is exceeded by open-ended    *)
(* questions only, and by what each of them may exceed its promise; and no *)
(* answer is ever without cover.  GenerationRun keeps such books           *)
(* (LedgerIsKept).                                                         *)
(***************************************************************************)
EXTENDS Ledger, Sums

\* Finitely many questions, and amounts and limits that are numbers of tokens.
Countable ==
    IsFiniteSet(Questions) /\ Amounts \subseteq Nat /\ Limits \subseteq Nat /\ Excess \in Nat

Amounted(f) == f \in [Questions -> Nat]
Entered ==
    /\ fate \in [Questions -> {"none", "open", "answered", "failed", "cancelled"}]
    /\ Amounted(price) /\ Amounted(promised) /\ Amounted(charged)
    /\ late \subseteq Questions
    /\ limit \in Nat

\* What the questions that were charged may have cost beyond their promises.
Exceeding == [q \in Questions |-> IF charged[q] > 0 THEN Beyond(q) ELSE 0]
Overdraft == SumFunction(Exceeding)

\* All that is promised and charged is within the limit of the moment and the excess
\* of the open-ended questions, unless a promise was taken back under its answer.
WithinLimit == late = {} => Committed <= limit + Overdraft

\* Every answer has been charged its price, or a promise still covers the price.
Covered ==
    \A q \in Questions : fate[q] = "answered" =>
        \/ charged[q] = price[q]
        \/ /\ charged[q] = 0
           /\ price[q] > 0 => promised[q] > 0
           /\ price[q] <= Cover(q)

LEMMA InitEntered == Countable /\ Init => Entered
  BY DEF Countable, Init, Entered, Amounted

LEMMA NextEntered == Countable /\ Entered /\ [Next]_vars => Entered'
<1> SUFFICES ASSUME Countable, Entered, [Next]_vars PROVE Entered'
  OBVIOUS
<1> USE DEF Countable, Entered, Amounted
<1>1. ASSUME NEW q \in Questions, Ask(q) \/ Cancel(q) \/ Fail(q) PROVE Entered'
  BY <1>1 DEF Ask, Cancel, Fail, Becomes
<1>2. ASSUME NEW q \in Questions, NEW n \in Amounts, GiveAnswer(q, n) \/ Promise(q, n) PROVE Entered'
  <2>1. n \in Nat
    OBVIOUS
  <2> QED BY <1>2, <2>1 DEF GiveAnswer, Promise, Becomes
<1>3. ASSUME NEW q \in Questions, NEW n \in Amounts, SettleUp(q, n) PROVE Entered'
  <2>1. n \in Nat /\ charged[q] + n \in Nat
    OBVIOUS
  <2>2. promised' \in [Questions -> Nat] /\ charged' \in [Questions -> Nat]
    BY <1>3, <2>1 DEF SettleUp
  <2>3. fate' \in [Questions -> {"none", "open", "answered", "failed", "cancelled"}]
    BY <1>3 DEF SettleUp, Becomes
  <2> QED BY <1>3, <2>2, <2>3 DEF SettleUp
<1>4. CASE Suspend \/ Resume \/ Close \/ UNCHANGED vars
  BY <1>4 DEF Suspend, Resume, Close, question, vars
<1>5. ASSUME NEW n \in Limits, SetLimit(n) PROVE Entered'
  BY <1>5 DEF SetLimit, question
<1> QED BY <1>1, <1>2, <1>3, <1>4, <1>5 DEF Next

\* A sum in which one term is given a new value.
LEMMA ChangedSum ==
  ASSUME NEW S, IsFiniteSet(S), NEW v \in [S -> Nat], NEW q \in S, NEW m \in Nat
  PROVE  /\ SumFunction(v) \in Nat
         /\ v[q] <= SumFunction(v)
         /\ SumFunction([v EXCEPT ![q] = m]) = (SumFunction(v) - v[q]) + m
<1> DEFINE w == [v EXCEPT ![q] = m]
<1>1. w \in [S -> Nat] /\ w[q] = m
  OBVIOUS
<1>2. \A x \in S \ {q} : v[x] = w[x]
  OBVIOUS
<1> HIDE DEF w
<1>3. /\ SumFunction(v) \in Nat
      /\ v[q] <= SumFunction(v)
      /\ SumFunction(w) = (SumFunction(v) - v[q]) + w[q]
  BY <1>1, <1>2, SumFollows
<1> QED BY <1>1, <1>3 DEF w

\* What the questions may exceed their promises by is a number.
LEMMA OverdraftType ==
  ASSUME Countable, Entered
  PROVE  Exceeding \in [Questions -> Nat] /\ (Questions # {} => Overdraft \in Nat)
<1>1. Exceeding \in [Questions -> Nat]
  BY DEF Countable, Exceeding, Beyond
<1>2. ASSUME NEW q \in Questions PROVE Overdraft \in Nat
  BY <1>1, ChangedSum DEF Countable, Overdraft
<1> QED BY <1>1, <1>2

\* What is promised and charged falls when a question leaves the books with no more
\* than was promised for it, and grows by its excess at most, the first time it is
\* charged.
LEMMA SettledCommitment ==
  ASSUME Countable, Entered, NEW q \in Questions, NEW n \in Nat,
         promised' = [promised EXCEPT ![q] = 0],
         charged' = [charged EXCEPT ![q] = @ + n],
         n <= Cover(q),
         n > 0 => charged[q] = 0
  PROVE  /\ Committed \in Nat /\ Committed' \in Nat /\ Overdraft \in Nat /\ Overdraft' \in Nat
         /\ Committed' + Overdraft <= Committed + Overdraft'
<1> DEFINE d == Exceeding[q]
           e == IF charged[q] + n > 0 THEN Beyond(q) ELSE 0
<1>1. promised \in [Questions -> Nat] /\ charged \in [Questions -> Nat] /\ IsFiniteSet(Questions)
  BY DEF Countable, Entered, Amounted
<1>2. promised[q] \in Nat /\ charged[q] \in Nat /\ charged[q] + n \in Nat /\ 0 \in Nat
  BY <1>1
<1>3. /\ SumFunction(promised) \in Nat /\ promised[q] <= SumFunction(promised)
      /\ SumFunction([promised EXCEPT ![q] = 0]) = (SumFunction(promised) - promised[q]) + 0
  BY <1>1, <1>2, ChangedSum
<1>4. /\ SumFunction(charged) \in Nat /\ charged[q] <= SumFunction(charged)
      /\ SumFunction([charged EXCEPT ![q] = charged[q] + n])
            = (SumFunction(charged) - charged[q]) + (charged[q] + n)
  BY <1>1, <1>2, ChangedSum
<1>5. /\ Committed = SumFunction(promised) + SumFunction(charged)
      /\ Committed' = SumFunction([promised EXCEPT ![q] = 0])
                       + SumFunction([charged EXCEPT ![q] = charged[q] + n])
  BY DEF Committed
<1>6. Beyond(q) \in Nat
  BY DEF Countable, Beyond
<1>7. e \in Nat /\ d \in Nat /\ d = IF charged[q] > 0 THEN Beyond(q) ELSE 0
  BY <1>2, <1>6 DEF Exceeding
<1>8. Exceeding' = [Exceeding EXCEPT ![q] = e]
  <2>1. ASSUME NEW x \in Questions, x # q PROVE charged'[x] = charged[x]
    BY <1>1, <2>1
  <2>2. charged'[q] = charged[q] + n
    BY <1>1
  <2> QED BY <2>1, <2>2 DEF Exceeding, Beyond
<1>9. /\ Overdraft \in Nat /\ d <= Overdraft
      /\ Overdraft' = (Overdraft - d) + e
  BY <1>1, <1>7, <1>8, OverdraftType, ChangedSum DEF Overdraft
<1>10. n <= promised[q] + Beyond(q)
  BY DEF Cover
<1>11. CASE n = 0
  <2>1. d = e
    BY <1>2, <1>7, <1>11
  <2> HIDE DEF d, e
  <2> QED BY <1>2, <1>3, <1>4, <1>5, <1>7, <1>9, <1>11, <2>1
<1>12. CASE n > 0
  <2>1. d = 0 /\ e = Beyond(q)
    BY <1>2, <1>7, <1>12
  <2> HIDE DEF d, e
  <2> QED BY <1>2, <1>3, <1>4, <1>5, <1>6, <1>9, <1>10, <1>12, <2>1
<1> QED BY <1>11, <1>12

LEMMA Allowed ==
  ASSUME NEW c \in Nat, NEW m \in Nat, NEW o \in Nat, c <= m
  PROVE  c <= m + o
  OBVIOUS

LEMMA Exceeds ==
  ASSUME NEW c \in Nat, NEW d \in Nat, NEW m \in Nat, NEW o \in Nat, NEW p \in Nat,
         c <= m + o, d + o <= c + p
  PROVE  d <= m + p
  OBVIOUS

\* The limit of the key is kept by everything but an answer whose promise was taken
\* back while it was written and the excess of open-ended questions: the quota of the
\* key is a consequence of its books.
THEOREM LimitIsKept ==
  ASSUME Countable
  PROVE  Spec => []WithinLimit
<1>1. Init => Entered /\ WithinLimit
  <2> SUFFICES ASSUME Init PROVE Entered /\ WithinLimit
    OBVIOUS
  <2>1. SumFunction(promised) = 0 /\ SumFunction(charged) = 0
    BY SumOfNothing DEF Countable, Init
  <2>2. Overdraft = 0
    <3>1. Exceeding = [q \in Questions |-> 0]
      BY DEF Init, Exceeding
    <3> QED BY <3>1, SumOfNothing DEF Countable, Overdraft
  <2>3. limit \in Nat
    BY DEF Countable, Init
  <2> QED BY <2>1, <2>2, <2>3, InitEntered DEF WithinLimit, Committed
<1>2. Entered /\ WithinLimit /\ [Next]_vars => (Entered /\ WithinLimit)'
  <2> SUFFICES ASSUME Entered, WithinLimit, [Next]_vars, late' = {}
               PROVE  Committed' <= limit' + Overdraft'
    BY NextEntered DEF WithinLimit
  <2>0. Entered'
    BY NextEntered
  <2>1. late = {} => Committed <= limit + Overdraft
    BY DEF WithinLimit
  <2>2. ASSUME UNCHANGED <<promised, charged, late, limit>> PROVE Committed' <= limit' + Overdraft'
    <3>1. Committed' = Committed /\ Overdraft' = Overdraft /\ limit' = limit /\ late = {}
      BY <2>2 DEF Committed, Overdraft, Exceeding, Beyond
    <3> QED BY <2>1, <3>1
  <2>3. ASSUME NEW n \in Nat, Committed' <= n, limit' = n, Questions # {}
        PROVE  Committed' <= limit' + Overdraft'
    <3>1. Overdraft' \in Nat
      <4>1. Exceeding' \in [Questions -> Nat]
        BY <2>0 DEF Countable, Exceeding, Beyond
      <4> QED BY <2>3, <4>1, ChangedSum DEF Countable, Overdraft
    <3>2. Committed' \in Nat
      <4>1. SumFunction(promised)' \in Nat /\ SumFunction(charged)' \in Nat
        BY <2>0, <2>3, ChangedSum DEF Countable, Entered, Amounted
      <4> QED BY <4>1 DEF Committed
    <3>3. Committed' <= n /\ limit' = n
      BY <2>3
    <3> QED BY <3>1, <3>2, <3>3, Allowed
  <2>4. ASSUME NEW q \in Questions, Ask(q) \/ Cancel(q) \/ Fail(q) PROVE Committed' <= limit' + Overdraft'
    BY <2>2, <2>4 DEF Ask, Cancel, Fail
  <2>5. ASSUME NEW q \in Questions, NEW n \in Amounts, GiveAnswer(q, n)
        PROVE  Committed' <= limit' + Overdraft'
    BY <2>2, <2>5 DEF GiveAnswer
  <2>6. ASSUME NEW q \in Questions, NEW n \in Amounts, Promise(q, n)
        PROVE  Committed' <= limit' + Overdraft'
    BY <2>3, <2>6 DEF Promise, Entered
  <2>7. ASSUME NEW q \in Questions, NEW n \in Amounts, SettleUp(q, n)
        PROVE  Committed' <= limit' + Overdraft'
    <3>1. /\ late = {} /\ n <= Cover(q) /\ limit' = limit /\ (n > 0 => charged[q] = 0)
          /\ promised' = [promised EXCEPT ![q] = 0]
          /\ charged' = [charged EXCEPT ![q] = @ + n]
      BY <2>7 DEF SettleUp
    <3>2. n \in Nat
      BY DEF Countable
    <3>3. /\ Committed \in Nat /\ Committed' \in Nat /\ Overdraft \in Nat /\ Overdraft' \in Nat
          /\ Committed' + Overdraft <= Committed + Overdraft'
      BY <3>1, <3>2, SettledCommitment
    <3>4. limit \in Nat
      BY DEF Entered
    <3>5. Committed <= limit + Overdraft
      BY <2>1, <3>1
    <3> QED BY <3>1, <3>3, <3>4, <3>5, Exceeds
  <2>8. CASE Suspend \/ Resume \/ Close \/ UNCHANGED vars
    BY <2>2, <2>8 DEF Suspend, Resume, Close, question, vars
  <2>9. ASSUME NEW n \in Limits, SetLimit(n) PROVE Committed' <= limit' + Overdraft'
    <3>1. Committed' = Committed /\ Committed <= n /\ limit' = n /\ n \in Nat
      BY <2>9 DEF SetLimit, question, Committed, Countable
    <3>2. CASE Questions # {}
      BY <2>3, <3>1, <3>2
    <3>3. CASE Questions = {}
      <4>1. Exceeding' = [q \in Questions |-> 0]
        BY <3>3 DEF Exceeding
      <4>2. Overdraft' = 0
        BY <4>1, SumOfNothing DEF Countable, Overdraft
      <4> QED BY <3>1, <4>2
    <3> QED BY <3>2, <3>3
  <2> QED BY <2>4, <2>5, <2>6, <2>7, <2>8, <2>9 DEF Next
<1> QED BY <1>1, <1>2, PTL DEF Spec

\* No answer is ever without cover: from the moment it is given its price is promised,
\* but for the excess of an open-ended question, until it is charged.
THEOREM AnswersAreCovered ==
  ASSUME Countable
  PROVE  Spec => []Covered
<1>1. Init => Entered /\ Covered
  BY InitEntered DEF Init, Covered
<1>2. Entered /\ Covered /\ [Next]_vars => (Entered /\ Covered)'
  <2> SUFFICES ASSUME Entered, Covered, [Next]_vars PROVE Covered'
    BY NextEntered
  <2> USE DEF Entered, Amounted
  <2>1. ASSUME NEW q \in Questions, Ask(q) \/ Cancel(q) \/ Fail(q) PROVE Covered'
    BY <2>1 DEF Ask, Cancel, Fail, Becomes, Covered, Cover, Beyond
  <2>2. ASSUME NEW q \in Questions, NEW n \in Amounts, GiveAnswer(q, n) PROVE Covered'
    BY <2>2 DEF GiveAnswer, Becomes, Covered, Cover, Beyond, Countable
  <2>3. ASSUME NEW q \in Questions, NEW n \in Amounts, Promise(q, n) PROVE Covered'
    BY <2>3 DEF Promise, Covered, Cover, Beyond, Countable
  <2>4. ASSUME NEW q \in Questions, NEW n \in Amounts, SettleUp(q, n) PROVE Covered'
    <3>1. n \in Nat
      BY DEF Countable
    <3>2. ASSUME NEW x \in Questions, x # q
          PROVE  /\ fate'[x] = fate[x] /\ price'[x] = price[x]
                 /\ promised'[x] = promised[x] /\ charged'[x] = charged[x]
      BY <2>4, <3>2 DEF SettleUp, Becomes
    <3>3. charged'[q] = charged[q] + n /\ price'[q] = price[q]
      BY <2>4 DEF SettleUp
    <3>4. fate'[q] = fate[q] \/ fate'[q] = "failed"
      BY <2>4 DEF SettleUp, Becomes
    <3>5. fate[q] = "answered" => charged'[q] = price'[q]
      BY <2>4, <3>3 DEF SettleUp
    <3> QED BY <3>2, <3>3, <3>4, <3>5 DEF Covered, Cover, Beyond
  <2>5. CASE Suspend \/ Resume \/ Close \/ UNCHANGED vars \/ \E n \in Limits : SetLimit(n)
    BY <2>5 DEF Suspend, Resume, Close, SetLimit, question, vars, Covered, Cover, Beyond
  <2> QED BY <2>1, <2>2, <2>3, <2>4, <2>5 DEF Next
<1> QED BY <1>1, <1>2, PTL DEF Spec
=============================================================================
