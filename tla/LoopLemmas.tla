----------------------------- MODULE LoopLemmas -----------------------------
(***************************************************************************)
(* What the proofs need to know of loops over lists and of sums over sets, *)
(* both of which the modules define by recursive functions.  Induction is  *)
(* stated over sets instead of predicates, and rests on a fact of the      *)
(* library: a well-founded relation has a minimal element in every         *)
(* non-empty set, be it < on numbers or the strict subset of a finite set. *)
(***************************************************************************)
EXTENDS Loops, Functions, TLAPS, WellFoundedInduction, FiniteSetTheorems

\* A non-empty set of natural numbers has a least element.
LEMMA LeastElement ==
  ASSUME NEW T \in SUBSET Nat, T # {}
  PROVE  \E x \in T : \A y \in T : x <= y
<1> DEFINE R == {p \in Nat \X Nat : p[1] < p[2]}
<1>1. IsWellFoundedOn(R, Nat)  BY NatLessThanWellFounded, Zenon DEF OpToRel
<1> HIDE DEF R
<1>2. PICK x \in T : \A y \in T : ~(<<y, x>> \in R)
  BY <1>1, WFMin
<1>3. \A y \in T : x <= y
  <2> SUFFICES ASSUME NEW y \in T, y < x PROVE FALSE  OBVIOUS
  <2> DEFINE p == <<y, x>>
  <2>1. p \in Nat \X Nat /\ p[1] = y /\ p[2] = x  OBVIOUS
  <2> HIDE DEF p
  <2>2. p \in R  BY <2>1 DEF R
  <2> QED  BY <1>2, <2>2 DEF p
<1> QED  BY <1>3

\* Induction on a range, over a set rather than a predicate: a set that
\* contains 0 and with every number of 0..n the next one contains the whole
\* range.
LEMMA RangeInduction ==
  ASSUME NEW n \in Nat, NEW T, 0 \in T,
         \A i \in 0..n : i \in T /\ i + 1 \in 0..n => i + 1 \in T
  PROVE  \A i \in 0..n : i \in T
<1> SUFFICES ASSUME NEW j \in 0..n, j \notin T PROVE FALSE  OBVIOUS
<1> DEFINE B == (0..n) \ T
<1>1. B \in SUBSET Nat /\ B # {}  OBVIOUS
<1>2. PICK x \in B : \A y \in B : x <= y  BY <1>1, LeastElement
<1>3. x # 0 /\ x \in 0..n  OBVIOUS
<1>4. x - 1 \in 0..n /\ x - 1 \notin B  BY <1>2, <1>3
<1> QED  BY <1>3, <1>4

\* f lists the states of a loop of n rounds.
Runs(f, init, step, n) == f[0] = init /\ \A i \in 1..n : f[i] = step[<<f[i - 1], i>>]

\* Every loop whose body stays in S has a list of its states.
LEMMA LoopWitness ==
  ASSUME NEW S, NEW init \in S, NEW n \in Nat, NEW step \in [S \X (1..n) -> S]
  PROVE  \E f \in [0..n -> S] : Runs(f, init, step, n)
<1> DEFINE good(f, k) == Runs(f, init, step, k)
           T == {k \in 0..n : \E f \in [0..k -> S] : good(f, k)}
<1>1. 0 \in T
  <2> DEFINE g == [i \in 0..0 |-> init]
  <2>1. g \in [0..0 -> S] /\ good(g, 0)  BY DEF Runs
  <2>2. \E f \in [0..0 -> S] : good(f, 0)  BY <2>1
  <2> HIDE DEF good, g
  <2> QED  BY <2>2
<1>2. ASSUME NEW k \in 0..n, k \in T, k + 1 \in 0..n PROVE k + 1 \in T
  <2>1. PICK f \in [0..k -> S] : good(f, k)  BY <1>2
  <2> DEFINE g == [i \in 0..(k + 1) |-> IF i = k + 1 THEN step[<<f[k], k + 1>>] ELSE f[i]]
  <2>2. f[k] \in S /\ step[<<f[k], k + 1>>] \in S  BY <1>2
  <2>3. g \in [0..(k + 1) -> S]  BY <2>2
  <2>4. g[0] = init  BY <2>1, <1>2 DEF Runs
  <2>5. ASSUME NEW i \in 1..(k + 1) PROVE g[i] = step[<<g[i - 1], i>>]
    <3>1. g[i - 1] = f[i - 1]  BY <1>2
    <3>2. CASE i = k + 1
      <4>1. g[i] = step[<<f[k], k + 1>>] /\ i - 1 = k  BY <1>2, <3>2
      <4> HIDE DEF g
      <4> QED  BY <3>1, <3>2, <4>1
    <3>3. CASE i # k + 1
      <4>1. i \in 1..k /\ g[i] = f[i]  BY <1>2, <3>3
      <4>2. f[i] = step[<<f[i - 1], i>>]  BY <2>1, <4>1 DEF Runs
      <4> HIDE DEF g
      <4> QED  BY <3>1, <4>1, <4>2
    <3> QED  BY <3>2, <3>3
  <2> HIDE DEF g
  <2>6. \E h \in [0..(k + 1) -> S] : good(h, k + 1)  BY <2>3, <2>4, <2>5 DEF Runs
  <2> HIDE DEF good
  <2> QED  BY <1>2, <2>6
<1> HIDE DEF T
<1>3. \A k \in 0..n : k \in T  BY <1>1, <1>2, RangeInduction
<1> QED  BY <1>3 DEF T

\* Two functions that start alike and go on alike are equal.
LEMMA LoopUnique ==
  ASSUME NEW n \in Nat, NEW f, NEW g, f[0] = g[0],
         \A i \in 1..n : f[i - 1] = g[i - 1] => f[i] = g[i]
  PROVE  \A i \in 0..n : f[i] = g[i]
<1> DEFINE T == {i \in 0..n : f[i] = g[i]}
<1>1. 0 \in T  OBVIOUS
<1>2. ASSUME NEW i \in 0..n, i \in T, i + 1 \in 0..n PROVE i + 1 \in T
  <2>1. i + 1 \in 1..n /\ (i + 1) - 1 = i  BY <1>2
  <2>2. f[i] = g[i]  BY <1>2
  <2> QED  BY <1>2, <2>1, <2>2
<1> HIDE DEF T
<1>3. \A i \in 0..n : i \in T  BY <1>1, <1>2, RangeInduction
<1> QED  BY <1>3 DEF T

-----------------------------------------------------------------------------
(* Sums over finite sets.  The library defines them with a recursive       *)
(* function on the subsets of the set, so they need induction on these.    *)

\* Induction on a finite set: what holds of a subset whenever it holds of all
\* smaller ones holds of every subset.
LEMMA SubsetInduction ==
  ASSUME NEW S, IsFiniteSet(S), NEW G,
         \A T \in SUBSET S : (\A U \in SUBSET T : U # T => U \in G) => T \in G
  PROVE  \A T \in SUBSET S : T \in G
<1> SUFFICES ASSUME NEW T0 \in SUBSET S, T0 \notin G PROVE FALSE  OBVIOUS
<1> DEFINE B == (SUBSET S) \ G
<1>1. B # {} /\ B \subseteq FiniteSubsetsOf(S)  BY FS_FiniteSubsetsOfFinite
<1>2. PICK T \in B : \A U \in B : ~(<<U, T>> \in StrictSubsetOrdering(S))
  <2> HIDE DEF B
  <2> QED  BY <1>1, FS_StrictSubsetOrderingWellFounded, WFMin
<1>3. ASSUME NEW U \in SUBSET T, U # T PROVE U \in G
  <2>1. <<U, T>> \in StrictSubsetOrdering(S)  BY <1>3 DEF StrictSubsetOrdering
  <2> QED  BY <1>2, <2>1
<1> QED  BY <1>2, <1>3

Picked(s) == CHOOSE x \in s : TRUE

\* g[s] is the sum over s, for every subset s of S.
Sums(g, w, S) ==
  g = [s \in SUBSET S |-> IF s = {} THEN 0 ELSE w[Picked(s)] + g[s \ {Picked(s)}]]
SumsOf(w, S) == CHOOSE g : Sums(g, w, S)

\* The community modules fold a set with a recursive function; its value is the
\* function that CHOOSE picks.
LEMMA SumIsChosen == ASSUME NEW w, NEW S PROVE SumFunctionOnSet(w, S) = SumsOf(w, S)[S]
BY DEF SumFunctionOnSet, FoldFunctionOnSet, MapThenFoldSet, SumsOf, Sums, Picked

\* One round of the recursion.
LEMMA SumsStep ==
  ASSUME NEW g, NEW w, NEW S, Sums(g, w, S), NEW s \in SUBSET S
  PROVE  g[s] = IF s = {} THEN 0 ELSE w[Picked(s)] + g[s \ {Picked(s)}]
<1> DEFINE F == [s_1 \in SUBSET S |-> IF s_1 = {} THEN 0 ELSE w[Picked(s_1)] + g[s_1 \ {Picked(s_1)}]]
<1>1. F[s] = IF s = {} THEN 0 ELSE w[Picked(s)] + g[s \ {Picked(s)}]  OBVIOUS
<1>2. g = F  BY DEF Sums
<1> HIDE DEF F
<1> QED  BY <1>1, <1>2

\* The element a round removes is one of the set.
LEMMA AnyIn == ASSUME NEW s, s # {} PROVE Picked(s) \in s
BY DEF Picked

\* Two functions that satisfy the recursion agree where both do.
LEMMA SumsUnique ==
  ASSUME NEW S, IsFiniteSet(S), NEW T \in SUBSET S, NEW w, NEW g, NEW h,
         Sums(g, w, S), Sums(h, w, T)
  PROVE  \A s \in SUBSET T : g[s] = h[s]
<1> DEFINE G == {s \in SUBSET T : g[s] = h[s]}
<1>1. ASSUME NEW s \in SUBSET T, \A U \in SUBSET s : U # s => U \in G PROVE s \in G
  <2>1. CASE s = {}  BY <2>1, SumsStep
  <2>2. CASE s # {}
    <3>1. Picked(s) \in s  BY <2>2, AnyIn
    <3>2. s \ {Picked(s)} \in G  BY <1>1, <3>1
    <3>3. g[s] = w[Picked(s)] + g[s \ {Picked(s)}]  BY <2>2, SumsStep
    <3>4. h[s] = w[Picked(s)] + h[s \ {Picked(s)}]  BY <2>2, SumsStep
    <3> QED  BY <3>2, <3>3, <3>4
  <2> QED  BY <2>1, <2>2
<1>2. IsFiniteSet(T)  BY FS_Subset
<1> HIDE DEF G
<1>3. \A s \in SUBSET T : s \in G  BY <1>1, <1>2, SubsetInduction
<1> QED  BY <1>3 DEF G

\* There is a function that satisfies the recursion, so the chosen one does.
LEMMA SumsExist == ASSUME NEW S, IsFiniteSet(S), NEW w PROVE Sums(SumsOf(w, S), w, S)
<1> DEFINE G == {T \in SUBSET S : Sums(SumsOf(w, T), w, T)}
<1>1. ASSUME NEW T \in SUBSET S, \A U \in SUBSET T : U # T => U \in G PROVE T \in G
  <2> DEFINE sum(U) == SumsOf(w, U)[U]
             g == [s \in SUBSET T |-> IF s = {} THEN 0 ELSE w[Picked(s)] + sum(s \ {Picked(s)})]
  <2>1. ASSUME NEW s \in SUBSET T, s # {} PROVE g[s \ {Picked(s)}] = sum(s \ {Picked(s)})
    <3> DEFINE U == s \ {Picked(s)}
               h == SumsOf(w, U)
    <3>1. Picked(s) \in s  BY <2>1, AnyIn
    <3>2. U \in SUBSET T /\ U # T  BY <3>1
    <3>3. Sums(h, w, U)  BY <1>1, <3>2
    <3>4. CASE U = {}
      <4>1. h[U] = 0
        <5> HIDE DEF U, h
        <5> QED  BY <3>3, <3>4, SumsStep
      <4>2. g[U] = 0  BY <3>4
      <4> QED  BY <4>1, <4>2
    <3>5. CASE U # {}
      <4> DEFINE V == U \ {Picked(U)}
      <4>1. Picked(U) \in U
        <5> HIDE DEF U
        <5> QED  BY <3>5, AnyIn
      <4>2. V \in SUBSET U /\ V # T /\ V \in SUBSET T  BY <4>1
      <4>3. Sums(SumsOf(w, V), w, V)  BY <1>1, <4>2
      <4>4. IsFiniteSet(U)  BY FS_Subset
      <4>5. h[V] = sum(V)
        <5> HIDE DEF U, h, V
        <5> QED  BY <3>3, <4>2, <4>3, <4>4, SumsUnique
      <4>6. h[U] = w[Picked(U)] + h[V]
        <5> HIDE DEF U, h
        <5> QED  BY <3>3, <3>5, SumsStep
      <4>7. g[U] = w[Picked(U)] + sum(V)
        <5> HIDE DEF sum, U
        <5> QED  BY <3>2, <3>5
      <4> QED  BY <4>5, <4>6, <4>7
    <3> QED  BY <3>4, <3>5
  <2>2. Sums(g, w, T)
    <3>1. \A s \in SUBSET T : (IF s = {} THEN 0 ELSE w[Picked(s)] + sum(s \ {Picked(s)}))
                               = (IF s = {} THEN 0 ELSE w[Picked(s)] + g[s \ {Picked(s)}])
      <4> HIDE DEF sum, g
      <4> QED  BY <2>1
    <3>2. g = [s \in SUBSET T |-> IF s = {} THEN 0 ELSE w[Picked(s)] + sum(s \ {Picked(s)})]  OBVIOUS
    <3> HIDE DEF g, sum
    <3>3. g = [s \in SUBSET T |-> IF s = {} THEN 0 ELSE w[Picked(s)] + g[s \ {Picked(s)}]]
      BY <3>1, <3>2
    <3> QED  BY <3>3 DEF Sums
  <2>3. \E f : Sums(f, w, T)  BY <2>2
  <2>4. Sums(SumsOf(w, T), w, T)  BY <2>3 DEF SumsOf
  <2> QED  BY <2>4
<1> HIDE DEF G
<1>2. \A T \in SUBSET S : T \in G  BY <1>1, SubsetInduction
<1>3. S \in G  BY <1>2
<1> QED  BY <1>3 DEF G

\* A sum over nothing is 0.
LEMMA SumEmpty == ASSUME NEW w PROVE SumFunctionOnSet(w, {}) = 0
<1>1. IsFiniteSet({})  BY FS_EmptySet
<1>2. Sums(SumsOf(w, {}), w, {})  BY <1>1, SumsExist
<1> QED  BY <1>2, SumsStep, SumIsChosen

\* The sum over a set is one element's share and the sum over the others.
LEMMA SumAny ==
  ASSUME NEW S, IsFiniteSet(S), S # {}, NEW w
  PROVE  SumFunctionOnSet(w, S) = w[Picked(S)] + SumFunctionOnSet(w, S \ {Picked(S)})
<1> DEFINE U == S \ {Picked(S)}
<1>1. IsFiniteSet(U) /\ U \in SUBSET S  BY FS_Subset
<1>2. Sums(SumsOf(w, S), w, S) /\ Sums(SumsOf(w, U), w, U)
  <2> HIDE DEF U
  <2> QED  BY <1>1, SumsExist
<1>3. SumsOf(w, S)[U] = SumsOf(w, U)[U]
  <2> HIDE DEF U
  <2> QED  BY <1>1, <1>2, SumsUnique
<1>4. SumsOf(w, S)[S] = w[Picked(S)] + SumsOf(w, S)[U]  BY <1>2, SumsStep
<1> HIDE DEF U
<1>5. SumFunctionOnSet(w, S) = SumsOf(w, S)[S] /\ SumFunctionOnSet(w, U) = SumsOf(w, U)[U]
  BY SumIsChosen
<1> QED  BY <1>3, <1>4, <1>5 DEF U

\* A sum of integers is an integer.
LEMMA SumInt ==
  ASSUME NEW S, IsFiniteSet(S), NEW w, \A x \in S : w[x] \in Int
  PROVE  SumFunctionOnSet(w, S) \in Int
<1> DEFINE G == {T \in SUBSET S : SumFunctionOnSet(w, T) \in Int}
<1>1. ASSUME NEW T \in SUBSET S, \A U \in SUBSET T : U # T => U \in G PROVE T \in G
  <2>1. CASE T = {}  BY <2>1, SumEmpty
  <2>2. CASE T # {}
    <3>1. Picked(T) \in T /\ IsFiniteSet(T)  BY <2>2, AnyIn, FS_Subset
    <3>2. T \ {Picked(T)} \in G  BY <1>1, <3>1
    <3>3. SumFunctionOnSet(w, T) = w[Picked(T)] + SumFunctionOnSet(w, T \ {Picked(T)})
      BY <2>2, <3>1, SumAny
    <3> QED  BY <3>1, <3>2, <3>3
  <2> QED  BY <2>1, <2>2
<1> HIDE DEF G
<1>2. \A T \in SUBSET S : T \in G  BY <1>1, SubsetInduction
<1> QED  BY <1>2 DEF G

\* Whichever summand is taken out.
LEMMA SumRemove ==
  ASSUME NEW S, IsFiniteSet(S), NEW w, \A x \in S : w[x] \in Int, NEW x \in S
  PROVE  SumFunctionOnSet(w, S) = w[x] + SumFunctionOnSet(w, S \ {x})
<1> DEFINE sum(T) == SumFunctionOnSet(w, T)
           G == {T \in SUBSET S : \A y \in T : sum(T) = w[y] + sum(T \ {y})}
<1>1. ASSUME NEW T \in SUBSET S, \A U \in SUBSET T : U # T => U \in G PROVE T \in G
  <2> SUFFICES ASSUME NEW y \in T PROVE sum(T) = w[y] + sum(T \ {y})  OBVIOUS
  <2> DEFINE a == Picked(T)
  <2>1. a \in T /\ IsFiniteSet(T)  BY AnyIn, FS_Subset
  <2>2. sum(T) = w[a] + sum(T \ {a})  BY <2>1, SumAny
  <2>3. CASE a = y  BY <2>2, <2>3
  <2>4. CASE a # y
    <3> HIDE DEF a, sum
    <3>1. T \ {a} \in G /\ T \ {y} \in G  BY <1>1, <2>1
    <3>2. sum(T \ {a}) = w[y] + sum((T \ {a}) \ {y})  BY <2>4, <3>1
    <3>3. sum(T \ {y}) = w[a] + sum((T \ {y}) \ {a})  BY <2>1, <2>4, <3>1
    <3>4. (T \ {a}) \ {y} = (T \ {y}) \ {a}  OBVIOUS
    <3>5. sum((T \ {a}) \ {y}) \in Int
      <4>1. IsFiniteSet((T \ {a}) \ {y})  BY <2>1, FS_Subset
      <4> QED  BY <4>1, SumInt DEF sum
    <3> DEFINE r == sum((T \ {a}) \ {y})
    <3>6. r \in Int /\ w[a] \in Int /\ w[y] \in Int  BY <2>1, <3>5
    <3>7. sum(T \ {a}) = w[y] + r /\ sum(T \ {y}) = w[a] + r  BY <3>2, <3>3, <3>4
    <3> HIDE DEF r, G
    <3> QED  BY <2>2, <3>6, <3>7
  <2> QED  BY <2>3, <2>4
<1> HIDE DEF G
<1>2. \A T \in SUBSET S : T \in G  BY <1>1, SubsetInduction
<1> QED  BY <1>2 DEF G

\* The sum depends on the summands alone.
LEMMA SumSame ==
  ASSUME NEW S, IsFiniteSet(S), NEW v, NEW w, \A x \in S : v[x] = w[x]
  PROVE  SumFunctionOnSet(v, S) = SumFunctionOnSet(w, S)
<1> DEFINE G == {T \in SUBSET S : SumFunctionOnSet(v, T) = SumFunctionOnSet(w, T)}
<1>1. ASSUME NEW T \in SUBSET S, \A U \in SUBSET T : U # T => U \in G PROVE T \in G
  <2>1. CASE T = {}  BY <2>1, SumEmpty
  <2>2. CASE T # {}
    <3>1. Picked(T) \in T /\ IsFiniteSet(T)  BY <2>2, AnyIn, FS_Subset
    <3>2. T \ {Picked(T)} \in G  BY <1>1, <3>1
    <3>3. SumFunctionOnSet(v, T) = v[Picked(T)] + SumFunctionOnSet(v, T \ {Picked(T)})
      BY <2>2, <3>1, SumAny
    <3>4. SumFunctionOnSet(w, T) = w[Picked(T)] + SumFunctionOnSet(w, T \ {Picked(T)})
      BY <2>2, <3>1, SumAny
    <3> QED  BY <3>1, <3>2, <3>3, <3>4
  <2> QED  BY <2>1, <2>2
<1> HIDE DEF G
<1>2. \A T \in SUBSET S : T \in G  BY <1>1, SubsetInduction
<1> QED  BY <1>2 DEF G

\* The sum over two disjoint sets is the sum of the two sums.
LEMMA SumDisjoint ==
  ASSUME NEW A, NEW B, IsFiniteSet(A), IsFiniteSet(B), A \cap B = {},
         NEW w, \A x \in A \cup B : w[x] \in Int
  PROVE  SumFunctionOnSet(w, A \cup B) = SumFunctionOnSet(w, A) + SumFunctionOnSet(w, B)
<1> DEFINE sum(T) == SumFunctionOnSet(w, T)
           G == {T \in SUBSET B : sum(A \cup T) = sum(A) + sum(T)}
<1>1. sum(A) \in Int  BY SumInt
<1>2. ASSUME NEW T \in SUBSET B, \A U \in SUBSET T : U # T => U \in G PROVE T \in G
  <2>1. CASE T = {}
    <3>1. A \cup T = A  BY <2>1
    <3>2. sum(T) = 0  BY <2>1, SumEmpty
    <3> HIDE DEF sum
    <3> QED  BY <1>1, <3>1, <3>2
  <2>2. CASE T # {}
    <3>1. PICK y \in T : TRUE  BY <2>2
    <3>2. IsFiniteSet(T) /\ IsFiniteSet(A \cup T) /\ IsFiniteSet(T \ {y})
      BY FS_Subset, FS_Union
    <3>3. sum(T) = w[y] + sum(T \ {y})  BY <3>2, SumRemove
    <3>4. sum(A \cup T) = w[y] + sum((A \cup T) \ {y})  BY <3>2, SumRemove
    <3>5. (A \cup T) \ {y} = A \cup (T \ {y})  OBVIOUS
    <3>6. sum(T \ {y}) \in Int  BY <3>2, SumInt
    <3>7. w[y] \in Int  OBVIOUS
    <3> HIDE DEF sum
    <3>0. T \ {y} \in G
      <4> HIDE DEF G
      <4> QED  BY <1>2, <3>1
    <3>8. sum(A \cup (T \ {y})) = sum(A) + sum(T \ {y})
      <4> DEFINE U == T \ {y}
      <4>1. U \in G  BY <3>0
      <4> HIDE DEF U
      <4>2. sum(A \cup U) = sum(A) + sum(U)  BY <4>1
      <4> QED  BY <4>2 DEF U
    <3> DEFINE X == (A \cup T) \ {y}
               Y == A \cup (T \ {y})
               Z == T \ {y}
    <3> HIDE DEF G, X, Y, Z
    <3>9. sum(A \cup T) = sum(A) + sum(T)
      <4>1. sum(A \cup T) = w[y] + sum(X) /\ X = Y /\ sum(Y) = sum(A) + sum(Z)
            /\ sum(T) = w[y] + sum(Z) /\ sum(Z) \in Int
        BY <3>3, <3>4, <3>5, <3>6, <3>8 DEF X, Y, Z
      <4> QED  BY <1>1, <3>7, <4>1
    <3> QED  BY <3>9 DEF G
  <2> QED  BY <2>1, <2>2
<1> HIDE DEF G
<1>3. \A T \in SUBSET B : T \in G  BY <1>2, SubsetInduction
<1> QED  BY <1>3 DEF G

\* Summands that are 0 may be left out.
LEMMA SumOfZeros ==
  ASSUME NEW S, IsFiniteSet(S), NEW w, \A x \in S : w[x] = 0
  PROVE  SumFunctionOnSet(w, S) = 0
<1> DEFINE G == {T \in SUBSET S : SumFunctionOnSet(w, T) = 0}
<1>1. ASSUME NEW T \in SUBSET S, \A U \in SUBSET T : U # T => U \in G PROVE T \in G
  <2>1. CASE T = {}  BY <2>1, SumEmpty
  <2>2. CASE T # {}
    <3>1. Picked(T) \in T /\ IsFiniteSet(T)  BY <2>2, AnyIn, FS_Subset
    <3>2. T \ {Picked(T)} \in G  BY <1>1, <3>1
    <3>3. SumFunctionOnSet(w, T) = w[Picked(T)] + SumFunctionOnSet(w, T \ {Picked(T)})
      BY <2>2, <3>1, SumAny
    <3> QED  BY <3>1, <3>2, <3>3
  <2> QED  BY <2>1, <2>2
<1> HIDE DEF G
<1>2. \A T \in SUBSET S : T \in G  BY <1>1, SubsetInduction
<1> QED  BY <1>2 DEF G

\* Elements that contribute 0 can be left out.
LEMMA SumOfSupport ==
  ASSUME NEW A, NEW B, IsFiniteSet(B), A \subseteq B, NEW w, \A x \in B : w[x] \in Int,
         \A x \in B \ A : w[x] = 0
  PROVE  SumFunctionOnSet(w, A) = SumFunctionOnSet(w, B)
<1> DEFINE C == B \ A
<1>1. IsFiniteSet(A) /\ IsFiniteSet(C) /\ A \cup C = B /\ A \cap C = {}
  BY FS_Subset
<1>2. SumFunctionOnSet(w, C) = 0
  <2>1. \A x \in C : w[x] = 0  OBVIOUS
  <2> HIDE DEF C
  <2> QED  BY <1>1, <2>1, SumOfZeros
<1> DEFINE D == A \cup C
<1> HIDE DEF C
<1>3. SumFunctionOnSet(w, D) = SumFunctionOnSet(w, A) + SumFunctionOnSet(w, C)
  BY <1>1, SumDisjoint
<1>4. D = B  BY <1>1
<1> HIDE DEF D
<1>5. SumFunctionOnSet(w, A) \in Int  BY <1>1, SumInt
<1> QED  BY <1>2, <1>3, <1>4, <1>5

\* The sum over disjoint parts of the sums over each.
LEMMA SumOfParts ==
  ASSUME NEW K, IsFiniteSet(K), NEW E, IsFiniteSet(E), NEW part \in [K -> SUBSET E],
         \A j, k \in K : j # k => part[j] \cap part[k] = {},
         NEW w, \A x \in E : w[x] \in Int,
         NEW total, \A k \in K : total[k] = SumFunctionOnSet(w, part[k])
  PROVE  SumFunctionOnSet(total, K) = SumFunctionOnSet(w, UNION {part[k] : k \in K})
<1> DEFINE sum(T) == SumFunctionOnSet(w, T)
           all(T) == UNION {part[k] : k \in T}
           G == {T \in SUBSET K : SumFunctionOnSet(total, T) = sum(all(T))}
<1>1. ASSUME NEW T \in SUBSET K, \A U \in SUBSET T : U # T => U \in G PROVE T \in G
  <2>1. CASE T = {}
    <3>1. all(T) = {}  BY <2>1
    <3> HIDE DEF all
    <3> QED  BY <2>1, <3>1, SumEmpty
  <2>2. CASE T # {}
    <3> DEFINE a == Picked(T)
    <3>1. a \in T /\ IsFiniteSet(T)  BY <2>2, AnyIn, FS_Subset
    <3>2. SumFunctionOnSet(total, T) = total[a] + SumFunctionOnSet(total, T \ {a})
      BY <2>2, <3>1, SumAny
    <3> HIDE DEF a
    <3>3. SumFunctionOnSet(total, T \ {a}) = sum(all(T \ {a}))  BY <1>1, <3>1
    <3>4. all(T) = part[a] \cup all(T \ {a})  BY <3>1
    <3>5. part[a] \cap all(T \ {a}) = {}  BY <3>1
    <3>6. part[a] \in SUBSET E /\ all(T \ {a}) \in SUBSET E  BY <3>1
    <3> HIDE DEF all
    <3>7. IsFiniteSet(part[a]) /\ IsFiniteSet(all(T \ {a}))  BY <3>6, FS_Subset
    <3>8. sum(part[a] \cup all(T \ {a})) = sum(part[a]) + sum(all(T \ {a}))
      BY <3>5, <3>6, <3>7, SumDisjoint
    <3>9. total[a] = sum(part[a])  BY <3>1
    <3> HIDE DEF sum
    <3> QED  BY <3>2, <3>3, <3>4, <3>8, <3>9
  <2> QED  BY <2>1, <2>2
<1> HIDE DEF G
<1>2. \A T \in SUBSET K : T \in G  BY <1>1, SubsetInduction
<1> QED  BY <1>2 DEF G
=============================================================================
