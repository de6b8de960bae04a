-------------------------------- MODULE Sums --------------------------------
(***************************************************************************)
(* Lemmas about SumFunction of the community modules over finite sets: the *)
(* sum exists, bounds each of its terms, and follows a change of one term. *)
(*                                                                         *)
(* Induction is replaced by taking a smallest counterexample, which is a   *)
(* statement about sets and needs no operator as a parameter.              *)
(***************************************************************************)
EXTENDS Functions, FiniteSetTheorems, TLAPS

\* A set of natural numbers has a least element.
LEMMA LeastNumber ==
  ASSUME NEW T \in SUBSET Nat, T # {}
  PROVE  \E n \in T : \A m \in T : n <= m
<1> DEFINE Less == OpToRel(<, Nat)
<1>1. PICK n \in T : \A m \in T : <<m, n>> \notin Less
  <2> HIDE DEF Less
  <2>1. IsWellFoundedOn(Less, Nat)
    BY NatLessThanWellFounded DEF Less
  <2> QED BY <2>1, WFMin
<1>2. \A m \in T : n <= m
  <2> SUFFICES ASSUME NEW m \in T, m < n PROVE FALSE
    OBVIOUS
  <2>1. <<m, n>> \in Less
    BY DEF OpToRel
  <2> QED BY <1>1, <2>1
<1> QED BY <1>2

\* Among subsets of a finite set there is one that no other is smaller than.
LEMMA SmallestSubset ==
  ASSUME NEW S, IsFiniteSet(S), NEW B \in SUBSET (SUBSET S), B # {}
  PROVE  \E s \in B : \A t \in B : Cardinality(s) <= Cardinality(t)
<1> DEFINE T == {Cardinality(s) : s \in B}
<1>1. T \in SUBSET Nat /\ T # {}
  BY FS_Subset, FS_CardinalityType
<1>2. PICK n \in T : \A m \in T : n <= m
  <2> HIDE DEF T
  <2> QED BY <1>1, LeastNumber
<1> QED BY <1>2

Pick(s) == CHOOSE x \in s : TRUE

\* What a set without the element that is picked has in common with the set.
LEMMA Without ==
  ASSUME NEW S, IsFiniteSet(S), NEW s \in SUBSET S, s # {}
  PROVE  /\ Pick(s) \in s
         /\ s \ {Pick(s)} \in SUBSET S
         /\ Cardinality(s) \in Nat
         /\ Cardinality(s \ {Pick(s)}) = Cardinality(s) - 1
<1>1. Pick(s) \in s
  BY DEF Pick
<1>2. IsFiniteSet(s)
  BY FS_Subset
<1> QED BY <1>1, <1>2, FS_RemoveElement, FS_CardinalityType

\* The function behind the sum: it walks through a set, element by element.
Walks(f, v, S) ==
    f = [s \in SUBSET S |-> IF s = {} THEN 0 ELSE v[Pick(s)] + f[s \ {Pick(s)}]]
Walk(v, S) == CHOOSE f : Walks(f, v, S)

LEMMA SumIsWalk ==
  ASSUME NEW v, NEW S
  PROVE  SumFunctionOnSet(v, S) = Walk(v, S)[S]
<1> DEFINE Body(f) == [s \in SUBSET S |->
        IF s = {} THEN 0 ELSE LET x == CHOOSE x \in s : TRUE IN v[x] + f[s \ {x}]]
<1>1. SumFunctionOnSet(v, S) = (CHOOSE f : f = Body(f))[S]
  BY Zenon DEF SumFunctionOnSet, FoldFunctionOnSet, MapThenFoldSet
<1> QED BY <1>1, Zenon DEF Walk, Walks, Pick

\* There is a function that walks through all sets of up to n elements.
Reaches(f, v, S, n) ==
    \A s \in SUBSET S : Cardinality(s) <= n =>
        f[s] = IF s = {} THEN 0 ELSE v[Pick(s)] + f[s \ {Pick(s)}]

LEMMA ReachesNext ==
  ASSUME NEW S, IsFiniteSet(S), NEW v \in [S -> Nat], NEW n \in Nat,
         NEW f \in [SUBSET S -> Nat], Reaches(f, v, S, n)
  PROVE  \E g \in [SUBSET S -> Nat] : Reaches(g, v, S, n + 1)
<1> DEFINE g == [s \in SUBSET S |-> IF s = {} THEN 0 ELSE v[Pick(s)] + f[s \ {Pick(s)}]]
<1>1. g \in [SUBSET S -> Nat]
  <2> SUFFICES ASSUME NEW s \in SUBSET S, s # {}
               PROVE  v[Pick(s)] + f[s \ {Pick(s)}] \in Nat
    OBVIOUS
  <2>1. Pick(s) \in S /\ s \ {Pick(s)} \in SUBSET S
    BY Without
  <2>2. v[Pick(s)] \in Nat /\ f[s \ {Pick(s)}] \in Nat
    BY <2>1
  <2> QED BY <2>2
<1>2. ASSUME NEW s \in SUBSET S, Cardinality(s) <= n + 1, s # {}
      PROVE  g[s] = v[Pick(s)] + g[s \ {Pick(s)}]
  <2> DEFINE t == s \ {Pick(s)}
  <2>1. t \in SUBSET S /\ Cardinality(t) <= n
    BY <1>2, Without
  <2>2. f[t] = IF t = {} THEN 0 ELSE v[Pick(t)] + f[t \ {Pick(t)}]
    BY <2>1 DEF Reaches
  <2>3. g[t] = f[t]
    <3> HIDE DEF t
    <3> QED BY <2>1, <2>2
  <2>4. g[s] = v[Pick(s)] + f[t]
    BY <1>2
  <2> QED BY <2>3, <2>4
<1>3. Reaches(g, v, S, n + 1)
  <2>1. g[{}] = 0
    OBVIOUS
  <2> HIDE DEF g
  <2> QED BY <1>2, <2>1 DEF Reaches
<1> QED BY <1>1, <1>3

LEMMA WalkExists ==
  ASSUME NEW S, IsFiniteSet(S), NEW v \in [S -> Nat]
  PROVE  \E f \in [SUBSET S -> Nat] : Walks(f, v, S)
<1> DEFINE Bad == {n \in Nat : \A f \in [SUBSET S -> Nat] : ~Reaches(f, v, S, n)}
<1>1. Bad = {}
  <2> SUFFICES ASSUME Bad # {} PROVE FALSE
    OBVIOUS
  <2>1. PICK n \in Bad : \A m \in Bad : n <= m
    <3>1. Bad \in SUBSET Nat
      OBVIOUS
    <3> HIDE DEF Bad
    <3> QED BY <3>1, LeastNumber
  <2>2. CASE n = 0
    <3> DEFINE z == [s \in SUBSET S |-> 0]
    <3>1. z \in [SUBSET S -> Nat]
      OBVIOUS
    <3>2. Reaches(z, v, S, 0)
      <4> SUFFICES ASSUME NEW s \in SUBSET S, Cardinality(s) <= 0
                   PROVE  s = {}
        BY DEF Reaches
      <4>1. IsFiniteSet(s) /\ Cardinality(s) \in Nat
        BY FS_Subset, FS_CardinalityType
      <4>2. Cardinality(s) = 0
        BY <4>1
      <4> QED BY <4>1, <4>2, FS_EmptySet
    <3> QED BY <2>2, <3>1, <3>2
  <2>3. CASE n # 0
    <3>1. n - 1 \in Nat /\ n - 1 \notin Bad /\ (n - 1) + 1 = n
      <4>1. n \in Nat
        OBVIOUS
      <4> HIDE DEF Bad
      <4>2. n - 1 \in Nat /\ (n - 1) + 1 = n /\ ~(n <= n - 1)
        BY <2>3, <4>1
      <4> QED BY <2>1, <4>2
    <3>2. PICK f \in [SUBSET S -> Nat] : Reaches(f, v, S, n - 1)
      BY <3>1
    <3>3. PICK g \in [SUBSET S -> Nat] : Reaches(g, v, S, (n - 1) + 1)
      BY <3>1, <3>2, ReachesNext
    <3>4. Reaches(g, v, S, n)
      BY <3>1, <3>3
    <3> QED BY <3>4
  <2> QED BY <2>2, <2>3
<1>2. PICK f \in [SUBSET S -> Nat] : Reaches(f, v, S, Cardinality(S))
  <2>1. Cardinality(S) \in Nat
    BY FS_CardinalityType
  <2> QED BY <1>1, <2>1
<1>3. Walks(f, v, S)
  <2>1. \A s \in SUBSET S : Cardinality(s) <= Cardinality(S)
    BY FS_Subset
  <2>2. \A s \in SUBSET S : f[s] = IF s = {} THEN 0 ELSE v[Pick(s)] + f[s \ {Pick(s)}]
    BY <1>2, <2>1 DEF Reaches
  <2> QED BY <2>2 DEF Walks
<1> QED BY <1>3

LEMMA WalkFacts ==
  ASSUME NEW S, IsFiniteSet(S), NEW v \in [S -> Nat]
  PROVE  /\ Walk(v, S) \in [SUBSET S -> Nat]
         /\ Walk(v, S)[{}] = 0
         /\ \A s \in SUBSET S : s # {} =>
                Walk(v, S)[s] = v[Pick(s)] + Walk(v, S)[s \ {Pick(s)}]
<1> DEFINE f == Walk(v, S)
<1>1. Walks(f, v, S)
  BY WalkExists DEF Walk
<1> HIDE DEF f
<1>2. /\ DOMAIN f = SUBSET S
      /\ f[{}] = 0
      /\ \A s \in SUBSET S : s # {} => f[s] = v[Pick(s)] + f[s \ {Pick(s)}]
  BY <1>1 DEF Walks
<1>3. \A s \in SUBSET S : f[s] \in Nat
  <2> DEFINE B == {s \in SUBSET S : f[s] \notin Nat}
  <2> SUFFICES ASSUME B # {} PROVE FALSE
    OBVIOUS
  <2>1. PICK s \in B : \A t \in B : Cardinality(s) <= Cardinality(t)
    <3>1. B \in SUBSET (SUBSET S)
      OBVIOUS
    <3> HIDE DEF B
    <3> QED BY <3>1, SmallestSubset
  <2>0. s \in SUBSET S /\ f[s] \notin Nat
    OBVIOUS
  <2>2. s # {}
    <3> SUFFICES ASSUME s = {} PROVE f[s] = 0
      BY <2>0
    <3> QED BY <1>2
  <2>3. /\ Pick(s) \in s
        /\ s \ {Pick(s)} \in SUBSET S
        /\ Cardinality(s) \in Nat
        /\ Cardinality(s \ {Pick(s)}) = Cardinality(s) - 1
    BY <2>2, Without
  <2>4. f[s \ {Pick(s)}] \in Nat
    BY <2>1, <2>3
  <2>5. v[Pick(s)] \in Nat
    BY <2>3
  <2> QED BY <1>2, <2>2, <2>4, <2>5
<1>4. f = [s \in SUBSET S |-> f[s]]
  BY <1>1 DEF Walks
<1>5. f \in [SUBSET S -> Nat]
  BY <1>3, <1>4
<1> QED BY <1>2, <1>5 DEF f

\* The order of the walk does not matter.
LEMMA AddedTerm ==
  ASSUME NEW S, IsFiniteSet(S), NEW v \in [S -> Nat], NEW s \in SUBSET S, NEW x \in S \ s
  PROVE  Walk(v, S)[s \cup {x}] = v[x] + Walk(v, S)[s]
<1> DEFINE f == Walk(v, S)
<1>1. /\ f \in [SUBSET S -> Nat]
      /\ \A t \in SUBSET S : t # {} => f[t] = v[Pick(t)] + f[t \ {Pick(t)}]
  BY WalkFacts
<1> HIDE DEF f
<1> DEFINE B == {t \in SUBSET S : \E y \in S \ t : f[t \cup {y}] # v[y] + f[t]}
<1>2. B = {}
  <2> SUFFICES ASSUME B # {} PROVE FALSE
    OBVIOUS
  <2>1. PICK t \in B : \A u \in B : Cardinality(t) <= Cardinality(u)
    <3>1. B \in SUBSET (SUBSET S)
      OBVIOUS
    <3> HIDE DEF B
    <3> QED BY <3>1, SmallestSubset
  <2>2. PICK y \in S \ t : f[t \cup {y}] # v[y] + f[t]
    OBVIOUS
  <2> DEFINE c == Pick(t \cup {y})
             u == t \ {c}
  <2>3. /\ t \cup {y} \in SUBSET S
        /\ c \in t \cup {y}
        /\ f[t \cup {y}] = v[c] + f[(t \cup {y}) \ {c}]
    <3> DEFINE ty == t \cup {y}
    <3>1. ty \in SUBSET S /\ ty # {}
      OBVIOUS
    <3> HIDE DEF ty
    <3>2. Pick(ty) \in ty /\ f[ty] = v[Pick(ty)] + f[ty \ {Pick(ty)}]
      BY <1>1, <3>1, Without
    <3> QED BY <3>1, <3>2 DEF ty
  <2> HIDE DEF c
  <2>4. CASE c = y
    <3>1. (t \cup {y}) \ {c} = t
      BY <2>4
    <3> QED BY <2>2, <2>3, <2>4, <3>1
  <2>5. CASE c # y
    <3>1. /\ c \in t
          /\ (t \cup {y}) \ {c} = u \cup {y}
          /\ t = u \cup {c}
          /\ u \in SUBSET S
          /\ y \in S \ u
          /\ c \in S \ u
      BY <2>3, <2>5
    <3>2. IsFiniteSet(t)
      BY FS_Subset
    <3>3. Cardinality(u) = Cardinality(t) - 1 /\ Cardinality(t) \in Nat
      BY <3>1, <3>2, FS_RemoveElement, FS_CardinalityType
    <3>4. u \notin B
      <4> HIDE DEF B, u
      <4> QED BY <2>1, <3>3
    <3>5. f[u \cup {y}] = v[y] + f[u] /\ f[u \cup {c}] = v[c] + f[u]
      <4> HIDE DEF u
      <4> QED BY <3>1, <3>4
    <3> HIDE DEF u
    <3>6. f[u] \in Nat /\ v[y] \in Nat /\ v[c] \in Nat
      BY <1>1, <3>1
    <3>7. f[t \cup {y}] = v[c] + (v[y] + f[u]) /\ f[t] = v[c] + f[u]
      BY <2>3, <3>1, <3>5
    <3> QED BY <2>2, <3>6, <3>7
  <2> QED BY <2>4, <2>5
<1> QED BY <1>2 DEF f

\* Functions that agree on a set have the same sum over it.
LEMMA SameTerms ==
  ASSUME NEW S, IsFiniteSet(S), NEW v \in [S -> Nat], NEW w \in [S -> Nat],
         NEW s \in SUBSET S, \A x \in s : v[x] = w[x]
  PROVE  Walk(v, S)[s] = Walk(w, S)[s]
<1> DEFINE f == Walk(v, S)
           g == Walk(w, S)
<1>1. /\ f[{}] = 0 /\ g[{}] = 0
      /\ \A t \in SUBSET S : t # {} => f[t] = v[Pick(t)] + f[t \ {Pick(t)}]
      /\ \A t \in SUBSET S : t # {} => g[t] = w[Pick(t)] + g[t \ {Pick(t)}]
  BY WalkFacts
<1> HIDE DEF f, g
<1> DEFINE B == {t \in SUBSET S : (\A x \in t : v[x] = w[x]) /\ f[t] # g[t]}
<1>2. B = {}
  <2> SUFFICES ASSUME B # {} PROVE FALSE
    OBVIOUS
  <2>1. PICK t \in B : \A u \in B : Cardinality(t) <= Cardinality(u)
    <3>1. B \in SUBSET (SUBSET S)
      OBVIOUS
    <3> HIDE DEF B
    <3> QED BY <3>1, SmallestSubset
  <2>2. t # {}
    BY <1>1
  <2>3. /\ Pick(t) \in t
        /\ t \ {Pick(t)} \in SUBSET S
        /\ Cardinality(t) \in Nat
        /\ Cardinality(t \ {Pick(t)}) = Cardinality(t) - 1
    BY <2>2, Without
  <2>4. f[t \ {Pick(t)}] = g[t \ {Pick(t)}]
    BY <2>1, <2>3
  <2> QED BY <1>1, <2>2, <2>3, <2>4
<1> QED BY <1>2 DEF f, g

-----------------------------------------------------------------------------
\* A sum of natural numbers is one, and at least each of its terms; if one term
\* changes, the sum changes by as much.
THEOREM SumFollows ==
  ASSUME NEW S, IsFiniteSet(S), NEW v \in [S -> Nat], NEW w \in [S -> Nat], NEW r \in S,
         \A x \in S \ {r} : v[x] = w[x]
  PROVE  /\ SumFunction(v) \in Nat
         /\ v[r] <= SumFunction(v)
         /\ SumFunction(w) = (SumFunction(v) - v[r]) + w[r]
<1> DEFINE f == Walk(v, S)
           g == Walk(w, S)
           s == S \ {r}
<1>1. SumFunction(v) = f[S] /\ SumFunction(w) = g[S]
  BY SumIsWalk DEF SumFunction
<1>2. s \in SUBSET S /\ r \in S \ s /\ s \cup {r} = S
  OBVIOUS
<1>3. f[s \cup {r}] = v[r] + f[s] /\ g[s \cup {r}] = w[r] + g[s]
  <2> HIDE DEF s
  <2> QED BY <1>2, AddedTerm
<1>4. f[s] = g[s]
  BY <1>2, SameTerms
<1>5. f[s] \in Nat
  <2>1. f \in [SUBSET S -> Nat]
    BY WalkFacts
  <2> HIDE DEF f, s
  <2> QED BY <1>2, <2>1
<1> HIDE DEF f, g, s
<1>6. v[r] \in Nat /\ w[r] \in Nat
  OBVIOUS
<1>7. f[S] = v[r] + f[s] /\ g[S] = w[r] + f[s]
  BY <1>2, <1>3, <1>4
<1> QED BY <1>1, <1>5, <1>6, <1>7

\* Nothing adds up to nothing.
THEOREM SumOfNothing ==
  ASSUME NEW S, IsFiniteSet(S)
  PROVE  SumFunction([x \in S |-> 0]) = 0
<1> DEFINE v == [x \in S |-> 0]
           f == Walk(v, S)
<1>1. v \in [S -> Nat] /\ \A x \in S : v[x] = 0
  OBVIOUS
<1>2. SumFunction(v) = f[S]
  BY SumIsWalk DEF SumFunction
<1> HIDE DEF v
<1>3. /\ f[{}] = 0
      /\ \A t \in SUBSET S : t # {} => f[t] = v[Pick(t)] + f[t \ {Pick(t)}]
  BY <1>1, WalkFacts
<1> HIDE DEF f
<1> DEFINE B == {t \in SUBSET S : f[t] # 0}
<1>4. B = {}
  <2> SUFFICES ASSUME B # {} PROVE FALSE
    OBVIOUS
  <2>1. PICK t \in B : \A u \in B : Cardinality(t) <= Cardinality(u)
    <3>1. B \in SUBSET (SUBSET S)
      OBVIOUS
    <3> HIDE DEF B
    <3> QED BY <3>1, SmallestSubset
  <2>0. t \in SUBSET S /\ f[t] # 0
    OBVIOUS
  <2>2. t # {}
    <3> HIDE DEF B
    <3> QED BY <1>3, <2>0
  <2>3. /\ Pick(t) \in t
        /\ t \ {Pick(t)} \in SUBSET S
        /\ Cardinality(t) \in Nat
        /\ Cardinality(t \ {Pick(t)}) = Cardinality(t) - 1
    BY <2>2, Without
  <2>4. f[t \ {Pick(t)}] = 0
    BY <2>1, <2>3
  <2>5. v[Pick(t)] = 0
    BY <1>1, <2>3
  <2>6. f[t] = v[Pick(t)] + f[t \ {Pick(t)}]
    BY <1>3, <2>0, <2>2
  <2> QED BY <2>0, <2>4, <2>5, <2>6
<1>5. f[S] = 0
  BY <1>4
<1> QED BY <1>2, <1>5 DEF v
=============================================================================
