----------------------------- MODULE SumTheorems -----------------------------
(***************************************************************************)
(* Sums over finite sets: what MapThenSumSet computes, whatever order its  *)
(* CHOOSE takes the elements in.  Induction is that of the proper subsets  *)
(* of a finite set, which is well founded: a claim that fails for some     *)
(* subset fails for a smallest one.                                        *)
(***************************************************************************)
EXTENDS Integers, FiniteSetsExt, FiniteSetTheorems, WellFoundedInduction, TLAPS

\* The sum of f over S.
SumOf(f, S) == MapThenSumSet(LAMBDA x : f[x], S)

\* The element a fold takes first, and the function it computes, by recursion on
\* the subsets of S.
FirstOf(s) == CHOOSE x \in s : TRUE

\* g is that function.
IsSum(g, f, S) ==
  g = [s \in SUBSET S |-> IF s = {} THEN 0 ELSE f[FirstOf(s)] + g[s \ {FirstOf(s)}]]

\* What it computes of a set, from a smaller one.
IsStep(g, f, T) == g[T] = IF T = {} THEN 0 ELSE f[FirstOf(T)] + g[T \ {FirstOf(T)}]

-----------------------------------------------------------------------------
(* Induction over the subsets of a finite set *)

\* If a claim fails for some subset of S, it fails for a smallest one.
LEMMA SmallestFailure ==
  ASSUME NEW S, IsFiniteSet(S), NEW Bad, Bad \subseteq SUBSET S, Bad # {}
  PROVE  \E T \in Bad : \A U \in SUBSET T : U # T => U \notin Bad
<1>1. Bad \subseteq FiniteSubsetsOf(S)
  BY FS_FiniteSubsetsOfFinite
<1>2. IsWellFoundedOn(StrictSubsetOrdering(S), FiniteSubsetsOf(S))
  BY FS_StrictSubsetOrderingWellFounded
<1>3. \E T \in Bad : \A U \in Bad : <<U, T>> \notin StrictSubsetOrdering(S)
  BY <1>1, <1>2, WFMin
<1>. QED BY <1>3 DEF StrictSubsetOrdering

\* A set that is not empty has a first element.
LEMMA FirstIn ==
  ASSUME NEW s, s # {}
  PROVE  FirstOf(s) \in s
BY DEF FirstOf

\* One step of the fold.
LEMMA SumAt ==
  ASSUME NEW f, NEW g, NEW S, IsSum(g, f, S), NEW T \in SUBSET S
  PROVE  IsStep(g, f, T)
<1>. DEFINE e(s) == IF s = {} THEN 0 ELSE f[FirstOf(s)] + g[s \ {FirstOf(s)}]
<1>1. g = [s \in SUBSET S |-> e(s)]
  BY DEF IsSum
<1>. HIDE DEF e
<1>2. g[T] = e(T)
  BY <1>1
<1>. QED BY <1>2 DEF e, IsStep

-----------------------------------------------------------------------------
(* The fold is well defined *)

\* Two folds agree where their terms do.
LEMMA SumsAgree ==
  ASSUME NEW f, NEW g, NEW A, IsSum(g, f, A),
         NEW k, NEW h, NEW B, IsSum(h, k, B),
         NEW S, IsFiniteSet(S), S \subseteq A, S \subseteq B, \A x \in S : f[x] = k[x]
  PROVE  g[S] = h[S]
<1>. DEFINE Bad == {T \in SUBSET S : g[T] # h[T]}
<1>. SUFFICES ASSUME Bad # {} PROVE FALSE
  OBVIOUS
<1>1. PICK T \in Bad : \A U \in SUBSET T : U # T => U \notin Bad
  <2>. HIDE DEF Bad
  <2>1. Bad \subseteq SUBSET S
    BY DEF Bad
  <2>. QED BY <2>1, SmallestFailure
<1>2. IsStep(g, f, T) /\ IsStep(h, k, T)
  <2>1. T \in SUBSET A /\ T \in SUBSET B
    OBVIOUS
  <2>. HIDE DEF Bad
  <2>. QED BY <2>1, SumAt
<1>. USE DEF IsStep
<1>3. T # {}
  BY <1>2
<1>4. FirstOf(T) \in T
  BY <1>3, FirstIn
<1>5. g[T \ {FirstOf(T)}] = h[T \ {FirstOf(T)}]
  BY <1>1, <1>4
<1>. QED BY <1>2, <1>3, <1>4, <1>5

\* There is a fold over every finite set.
LEMMA SumExists ==
  ASSUME NEW f, NEW S, IsFiniteSet(S)
  PROVE  \E g : IsSum(g, f, S)
<1>. DEFINE Bad == {T \in SUBSET S : ~ \E g : IsSum(g, f, T)}
<1>. SUFFICES ASSUME Bad # {} PROVE FALSE
  OBVIOUS
<1>1. PICK T \in Bad : \A U \in SUBSET T : U # T => U \notin Bad
  <2>. HIDE DEF Bad
  <2>1. Bad \subseteq SUBSET S
    BY DEF Bad
  <2>. QED BY <2>1, SmallestFailure
<1>. DEFINE fold(U) == CHOOSE g : IsSum(g, f, U)
            rest(s) == s \ {FirstOf(s)}
            total(s) == IF s = {} THEN 0 ELSE f[FirstOf(s)] + fold(rest(s))[rest(s)]
            G == [s \in SUBSET T |-> total(s)]
<1>2. ASSUME NEW U \in SUBSET T, U # T
      PROVE  IsSum(fold(U), f, U)
  <2>1. \E g : IsSum(g, f, U)
    BY <1>1, <1>2
  <2>. QED BY <2>1
<1>3. ASSUME NEW s \in SUBSET T, s # {}
      PROVE  rest(s) \in SUBSET T /\ rest(s) # T
  BY <1>3, FirstIn
<1>4. ASSUME NEW s \in SUBSET T, s # T
      PROVE  fold(s)[s] = total(s)
  <2>1. IsSum(fold(s), f, s)
    BY <1>2, <1>4
  <2>2. CASE s = {}
    <3>. HIDE DEF fold
    <3>. QED BY <2>1, <2>2, SumAt DEF IsStep
  <2>3. CASE s # {}
    <3>1. rest(s) \in SUBSET T /\ rest(s) # T /\ rest(s) \subseteq s
      BY <1>3, <2>3
    <3>2. IsSum(fold(rest(s)), f, rest(s))
      BY <1>2, <3>1
    <3>3. IsFiniteSet(rest(s))
      BY FS_Subset
    <3>. HIDE DEF fold
    <3>4. fold(s)[s] = f[FirstOf(s)] + fold(s)[rest(s)]
      BY <2>1, <2>3, SumAt DEF IsStep
    <3>. HIDE DEF rest
    <3>5. fold(s)[rest(s)] = fold(rest(s))[rest(s)]
      BY <2>1, <3>1, <3>2, <3>3, SumsAgree
    <3>. QED BY <2>3, <3>4, <3>5
  <2>. QED BY <2>2, <2>3
<1>5. ASSUME NEW s \in SUBSET T
      PROVE  G[s] = IF s = {} THEN 0 ELSE f[FirstOf(s)] + G[s \ {FirstOf(s)}]
  <2>1. CASE s = {}
    BY <2>1
  <2>2. CASE s # {}
    <3>1. G[rest(s)] = total(rest(s))
      BY <1>3, <2>2
    <3>2. fold(rest(s))[rest(s)] = total(rest(s))
      BY <1>3, <1>4, <2>2
    <3>3. G[s] = f[FirstOf(s)] + fold(rest(s))[rest(s)]
      BY <2>2
    <3>. HIDE DEF G, total, fold
    <3>. QED BY <2>2, <3>1, <3>2, <3>3
  <2>. QED BY <2>1, <2>2
<1>6. IsSum(G, f, T)
  <2>. DEFINE e(s) == IF s = {} THEN 0 ELSE f[FirstOf(s)] + G[s \ {FirstOf(s)}]
  <2>1. \A s \in SUBSET T : G[s] = e(s)
    BY <1>5
  <2>2. G = [s \in SUBSET T |-> G[s]]
    OBVIOUS
  <2>. HIDE DEF G
  <2>3. G = [s \in SUBSET T |-> e(s)]
    <3>. HIDE DEF e
    <3>. QED BY <2>1, <2>2
  <2>. QED BY <2>3 DEF IsSum
<1>. QED BY <1>1, <1>6

\* SumOf is the value of the fold.
LEMMA SumIsFold ==
  ASSUME NEW f, NEW S, IsFiniteSet(S)
  PROVE  \E g : IsSum(g, f, S) /\ SumOf(f, S) = g[S]
<1>. DEFINE Is(g) == g = [s \in SUBSET S |->
                            IF s = {} THEN 0
                            ELSE f[CHOOSE x \in s : TRUE] + g[s \ {CHOOSE x \in s : TRUE}]]
<1>1. PICK h : IsSum(h, f, S)
  BY SumExists
<1>2. Is(h)
  BY <1>1 DEF IsSum, FirstOf
<1>3. SumOf(f, S) = (CHOOSE g : Is(g))[S]
  BY DEF SumOf, MapThenSumSet, MapThenFoldSet
<1>. HIDE DEF Is
<1>4. Is(CHOOSE g : Is(g))
  BY <1>2
<1>5. IsSum(CHOOSE g : Is(g), f, S)
  BY <1>4 DEF Is, IsSum, FirstOf
<1>. QED BY <1>3, <1>5

-----------------------------------------------------------------------------
(* What the fold computes *)

\* Sums of what is closed under addition stay in it.
LEMMA FoldIn ==
  ASSUME NEW f, NEW g, NEW S, IsFiniteSet(S), IsSum(g, f, S),
         NEW V, 0 \in V, \A a, b \in V : a + b \in V, \A x \in S : f[x] \in V
  PROVE  \A T \in SUBSET S : g[T] \in V
<1>. DEFINE Bad == {T \in SUBSET S : g[T] \notin V}
<1>. SUFFICES ASSUME Bad # {} PROVE FALSE
  OBVIOUS
<1>1. PICK T \in Bad : \A U \in SUBSET T : U # T => U \notin Bad
  <2>. HIDE DEF Bad
  <2>1. Bad \subseteq SUBSET S
    BY DEF Bad
  <2>. QED BY <2>1, SmallestFailure
<1>2. g[T] = IF T = {} THEN 0 ELSE f[FirstOf(T)] + g[T \ {FirstOf(T)}]
  <2>1. T \in SUBSET S
    OBVIOUS
  <2>. HIDE DEF Bad
  <2>. QED BY <2>1, SumAt DEF IsStep
<1>3. T # {}
  BY <1>2
<1>4. FirstOf(T) \in T
  BY <1>3, FirstIn
<1>5. g[T \ {FirstOf(T)}] \in V
  BY <1>1, <1>4
<1>. QED BY <1>2, <1>3, <1>4, <1>5

\* Any element may be taken first.
LEMMA AnyFirst ==
  ASSUME NEW f, NEW g, NEW S, IsFiniteSet(S), IsSum(g, f, S), \A x \in S : f[x] \in Int
  PROVE  \A T \in SUBSET S : \A x \in T : g[T] = f[x] + g[T \ {x}]
<1>. DEFINE Bad == {T \in SUBSET S : ~ \A x \in T : g[T] = f[x] + g[T \ {x}]}
<1>. SUFFICES ASSUME Bad # {} PROVE FALSE
  OBVIOUS
<1>1. PICK T \in Bad : \A U \in SUBSET T : U # T => U \notin Bad
  <2>. HIDE DEF Bad
  <2>1. Bad \subseteq SUBSET S
    BY DEF Bad
  <2>. QED BY <2>1, SmallestFailure
<1>2. PICK x \in T : g[T] # f[x] + g[T \ {x}]
  OBVIOUS
<1>. DEFINE y == FirstOf(T)
<1>3. y \in T /\ g[T] = f[y] + g[T \ {y}]
  <2>1. T \in SUBSET S /\ T # {}
    OBVIOUS
  <2>. HIDE DEF Bad
  <2>. QED BY <2>1, SumAt, FirstIn DEF IsStep
<1>. HIDE DEF y
<1>4. x # y
  BY <1>2, <1>3
<1>5. g[T \ {y}] = f[x] + g[(T \ {y}) \ {x}]
  BY <1>1, <1>3, <1>4
<1>6. g[T \ {x}] = f[y] + g[(T \ {x}) \ {y}]
  BY <1>1, <1>3, <1>4
<1>7. (T \ {y}) \ {x} = (T \ {x}) \ {y}
  OBVIOUS
<1>8. g[(T \ {x}) \ {y}] \in Int /\ f[x] \in Int /\ f[y] \in Int
  <2>1. \A U \in SUBSET S : g[U] \in Int
    <3>1. 0 \in Int /\ \A a, b \in Int : a + b \in Int
      OBVIOUS
    <3>. HIDE DEF Bad
    <3>. QED BY <3>1, FoldIn
  <2>. QED BY <1>3, <2>1
<1>. HIDE DEF Bad
<1>9. \A a, b, c \in Int : a + (b + c) = b + (a + c)
  OBVIOUS
<1>10. g[T] = f[y] + (f[x] + g[(T \ {x}) \ {y}])
  BY <1>3, <1>5, <1>7, Zenon
<1>11. g[T] = f[x] + (f[y] + g[(T \ {x}) \ {y}])
  BY <1>8, <1>9, <1>10, Zenon
<1>12. g[T] = f[x] + g[T \ {x}]
  BY <1>6, <1>11, Zenon
<1>. QED BY <1>2, <1>12

-----------------------------------------------------------------------------
(* Sums *)

\* The sum of nothing is 0.
LEMMA SumOfNothing ==
  ASSUME NEW f
  PROVE  SumOf(f, {}) = 0
<1>1. PICK g : IsSum(g, f, {}) /\ SumOf(f, {}) = g[{}]
  BY FS_EmptySet, SumIsFold
<1>. QED BY <1>1, SumAt DEF IsStep

\* A sum of integers is an integer, one of naturals is a natural ...
LEMMA SumOfInt ==
  ASSUME NEW f, NEW S, IsFiniteSet(S), \A x \in S : f[x] \in Int
  PROVE  /\ SumOf(f, S) \in Int
         /\ (\A x \in S : f[x] \in Nat) => SumOf(f, S) \in Nat
<1>1. PICK g : IsSum(g, f, S) /\ SumOf(f, S) = g[S]
  BY SumIsFold
<1>2. 0 \in Int /\ \A a, b \in Int : a + b \in Int
  OBVIOUS
<1>3. 0 \in Nat /\ \A a, b \in Nat : a + b \in Nat
  OBVIOUS
<1>4. g[S] \in Int
  BY <1>1, <1>2, FoldIn
<1>5. (\A x \in S : f[x] \in Nat) => g[S] \in Nat
  BY <1>1, <1>3, FoldIn
<1>. QED BY <1>1, <1>4, <1>5

\* ... and depends on the terms only.
LEMMA SumOfSame ==
  ASSUME NEW f, NEW k, NEW S, IsFiniteSet(S), \A x \in S : f[x] = k[x]
  PROVE  SumOf(f, S) = SumOf(k, S)
<1>1. PICK g : IsSum(g, f, S) /\ SumOf(f, S) = g[S]
  BY SumIsFold
<1>2. PICK h : IsSum(h, k, S) /\ SumOf(k, S) = h[S]
  BY SumIsFold
<1>3. S \subseteq S
  OBVIOUS
<1>. QED BY <1>1, <1>2, <1>3, SumsAgree

\* A sum of zeros is 0.
LEMMA SumOfZeros ==
  ASSUME NEW S, IsFiniteSet(S)
  PROVE  SumOf([x \in S |-> 0], S) = 0
<1>. DEFINE f == [x \in S |-> 0]
<1>1. PICK g : IsSum(g, f, S) /\ SumOf(f, S) = g[S]
  BY SumIsFold
<1>2. 0 \in {0} /\ (\A a, b \in {0} : a + b \in {0}) /\ \A x \in S : f[x] \in {0}
  OBVIOUS
<1>. HIDE DEF f
<1>3. g[S] \in {0}
  BY <1>1, <1>2, FoldIn
<1>. QED BY <1>1, <1>3 DEF f

\* One more term.
LEMMA SumOfAdded ==
  ASSUME NEW f, NEW S, IsFiniteSet(S), NEW x, x \notin S, \A y \in S \cup {x} : f[y] \in Int
  PROVE  SumOf(f, S \cup {x}) = SumOf(f, S) + f[x]
<1>. DEFINE T == S \cup {x}
<1>1. IsFiniteSet(T)
  BY FS_AddElement
<1>2. PICK g : IsSum(g, f, T) /\ SumOf(f, T) = g[T]
  BY <1>1, SumIsFold
<1>3. PICK h : IsSum(h, f, S) /\ SumOf(f, S) = h[S]
  BY SumIsFold
<1>4. T \in SUBSET T /\ x \in T /\ T \ {x} = S
  OBVIOUS
<1>5. \A y \in T : f[y] \in Int
  OBVIOUS
<1>. HIDE DEF T
<1>6. g[T] = f[x] + g[T \ {x}]
  BY <1>1, <1>2, <1>4, <1>5, AnyFirst
<1>7. S \subseteq T /\ S \subseteq S
  BY <1>4
<1>8. g[S] = h[S]
  BY <1>2, <1>3, <1>7, SumsAgree
<1>9. SumOf(f, S) \in Int /\ f[x] \in Int
  BY <1>4, <1>5, <1>7, SumOfInt
<1>10. SumOf(f, T) = f[x] + SumOf(f, S)
  BY <1>2, <1>3, <1>4, <1>6, <1>8
<1>. QED BY <1>9, <1>10 DEF T

\* A term that changes.
LEMMA SumOfChanged ==
  ASSUME NEW f, NEW k, NEW S, IsFiniteSet(S), NEW x \in S,
         \A y \in S : f[y] \in Int /\ k[y] \in Int, \A y \in S \ {x} : k[y] = f[y]
  PROVE  SumOf(k, S) = SumOf(f, S) - f[x] + k[x]
<1>. DEFINE R == S \ {x}
<1>1. IsFiniteSet(R) /\ R \cup {x} = S /\ x \notin R
  BY FS_RemoveElement
<1>2. \A y \in R : f[y] = k[y] /\ f[y] \in Int
  OBVIOUS
<1>. HIDE DEF R
<1>3. SumOf(f, S) = SumOf(f, R) + f[x] /\ SumOf(k, S) = SumOf(k, R) + k[x]
  BY <1>1, SumOfAdded
<1>4. SumOf(f, R) = SumOf(k, R) /\ SumOf(f, R) \in Int
  BY <1>1, <1>2, SumOfSame, SumOfInt
<1>. QED BY <1>3, <1>4

\* A sum of one term.
LEMMA SumOfOne ==
  ASSUME NEW f, NEW x, f[x] \in Int
  PROVE  SumOf(f, {x}) = f[x]
<1>1. IsFiniteSet({}) /\ x \notin {} /\ {} \cup {x} = {x} /\ \A y \in {} \cup {x} : f[y] \in Int
  BY FS_EmptySet
<1>2. SumOf(f, {} \cup {x}) = SumOf(f, {}) + f[x]
  BY <1>1, SumOfAdded
<1>. QED BY <1>1, <1>2, SumOfNothing

\* The sum over two sets that share nothing.
LEMMA SumOfDisjoint ==
  ASSUME NEW f, NEW A, IsFiniteSet(A), NEW B, IsFiniteSet(B), A \cap B = {},
         \A x \in A \cup B : f[x] \in Int
  PROVE  SumOf(f, A \cup B) = SumOf(f, A) + SumOf(f, B)
<1>. DEFINE Bad == {T \in SUBSET B : SumOf(f, A \cup T) # SumOf(f, A) + SumOf(f, T)}
<1>. SUFFICES ASSUME Bad # {} PROVE FALSE
  OBVIOUS
<1>1. PICK T \in Bad : \A U \in SUBSET T : U # T => U \notin Bad
  <2>. HIDE DEF Bad
  <2>1. Bad \subseteq SUBSET B
    BY DEF Bad
  <2>. QED BY <2>1, SmallestFailure
<1>2. T \subseteq B /\ IsFiniteSet(T)
  BY FS_Subset
<1>3. SumOf(f, A) \in Int
  BY SumOfInt
<1>4. CASE T = {}
  BY <1>3, <1>4, SumOfNothing
<1>5. CASE T # {}
  <2>1. PICK x \in T : TRUE
    BY <1>5
  <2>. DEFINE U == T \ {x}
              V == A \cup U
  <2>2. U \in SUBSET T /\ U # T /\ U \cup {x} = T /\ x \notin U
    OBVIOUS
  <2>3. SumOf(f, V) = SumOf(f, A) + SumOf(f, U)
    BY <1>1, <1>2, <2>2
  <2>4. IsFiniteSet(U) /\ IsFiniteSet(V)
    BY <1>2, FS_RemoveElement, FS_Union
  <2>5. x \notin V /\ V \cup {x} = A \cup T
    BY <1>2
  <2>6. (\A y \in U \cup {x} : f[y] \in Int) /\ (\A y \in V \cup {x} : f[y] \in Int)
    BY <1>2
  <2>. HIDE DEF U, V, Bad
  <2>7. SumOf(f, U \cup {x}) = SumOf(f, U) + f[x]
    BY <2>2, <2>4, <2>6, SumOfAdded
  <2>8. SumOf(f, V \cup {x}) = SumOf(f, V) + f[x]
    BY <2>4, <2>5, <2>6, SumOfAdded
  <2>9. SumOf(f, U) \in Int /\ f[x] \in Int
    BY <2>4, <2>6, SumOfInt
  <2>10. SumOf(f, T) = SumOf(f, U) + f[x] /\ SumOf(f, A \cup T) = SumOf(f, V) + f[x]
    BY <2>2, <2>5, <2>7, <2>8, Zenon
  <2>11. SumOf(f, A \cup T) = SumOf(f, A) + SumOf(f, T)
    BY <1>3, <2>3, <2>9, <2>10
  <2>. QED BY <2>11 DEF Bad
<1>. QED BY <1>4, <1>5

\* Terms that are 0 may be left out.
LEMMA SumOfPart ==
  ASSUME NEW f, NEW S, IsFiniteSet(S), NEW T \in SUBSET S,
         \A x \in S : f[x] \in Int, \A x \in S \ T : f[x] = 0
  PROVE  SumOf(f, S) = SumOf(f, T)
<1>. DEFINE R == S \ T
            zero == [x \in R |-> 0]
<1>1. IsFiniteSet(T) /\ IsFiniteSet(R) /\ T \cap R = {} /\ T \cup R = S
  BY FS_Subset
<1>2. \A x \in R : f[x] = zero[x]
  OBVIOUS
<1>3. SumOf(zero, R) = 0
  BY <1>1, SumOfZeros
<1>. HIDE DEF R, zero
<1>4. SumOf(f, R) = 0
  BY <1>1, <1>2, <1>3, SumOfSame
<1>5. SumOf(f, T \cup R) = SumOf(f, T) + SumOf(f, R)
  BY <1>1, SumOfDisjoint
<1>6. SumOf(f, S) = SumOf(f, T) + SumOf(f, R)
  BY <1>1, <1>5, Zenon
<1>7. SumOf(f, T) \in Int
  BY <1>1, SumOfInt
<1>. QED BY <1>4, <1>6, <1>7

\* The sum of the differences is the difference of the sums.
LEMMA SumOfMinus ==
  ASSUME NEW f, NEW g, NEW h, NEW S, IsFiniteSet(S),
         \A x \in S : f[x] \in Int /\ g[x] \in Int /\ h[x] = f[x] - g[x]
  PROVE  SumOf(h, S) = SumOf(f, S) - SumOf(g, S)
<1>. DEFINE Bad == {T \in SUBSET S : SumOf(h, T) # SumOf(f, T) - SumOf(g, T)}
<1>. SUFFICES ASSUME Bad # {} PROVE FALSE
  OBVIOUS
<1>1. PICK T \in Bad : \A U \in SUBSET T : U # T => U \notin Bad
  <2>. HIDE DEF Bad
  <2>1. Bad \subseteq SUBSET S
    BY DEF Bad
  <2>. QED BY <2>1, SmallestFailure
<1>2. T \subseteq S /\ IsFiniteSet(T)
  BY FS_Subset
<1>3. CASE T = {}
  BY <1>3, SumOfNothing
<1>4. CASE T # {}
  <2>1. PICK x \in T : TRUE
    BY <1>4
  <2>. DEFINE U == T \ {x}
  <2>2. U \in SUBSET T /\ U # T /\ U \cup {x} = T /\ x \notin U
    OBVIOUS
  <2>3. SumOf(h, U) = SumOf(f, U) - SumOf(g, U)
    BY <1>1, <1>2, <2>2
  <2>4. IsFiniteSet(U)
    BY <1>2, FS_RemoveElement
  <2>5. \A y \in U \cup {x} : f[y] \in Int /\ g[y] \in Int /\ h[y] \in Int
    BY <1>2
  <2>. HIDE DEF U, Bad
  <2>6. /\ SumOf(f, U \cup {x}) = SumOf(f, U) + f[x]
        /\ SumOf(g, U \cup {x}) = SumOf(g, U) + g[x]
        /\ SumOf(h, U \cup {x}) = SumOf(h, U) + h[x]
    BY <2>2, <2>4, <2>5, SumOfAdded
  <2>7. SumOf(f, U) \in Int /\ SumOf(g, U) \in Int /\ f[x] \in Int /\ g[x] \in Int
    BY <2>4, <2>5, SumOfInt
  <2>8. h[x] = f[x] - g[x]
    BY <1>2
  <2>9. /\ SumOf(f, T) = SumOf(f, U) + f[x]
        /\ SumOf(g, T) = SumOf(g, U) + g[x]
        /\ SumOf(h, T) = SumOf(h, U) + h[x]
    BY <2>2, <2>6, Zenon
  <2>10. SumOf(h, T) = SumOf(f, T) - SumOf(g, T)
    BY <2>3, <2>7, <2>8, <2>9
  <2>. QED BY <2>10 DEF Bad
<1>. QED BY <1>3, <1>4

\* The sum of sums.
LEMMA SumOfPlus ==
  ASSUME NEW f, NEW g, NEW h, NEW S, IsFiniteSet(S),
         \A x \in S : f[x] \in Int /\ g[x] \in Int /\ h[x] = f[x] + g[x]
  PROVE  SumOf(h, S) = SumOf(f, S) + SumOf(g, S)
<1>1. \A x \in S : h[x] \in Int /\ g[x] \in Int /\ f[x] = h[x] - g[x]
  OBVIOUS
<1>2. SumOf(f, S) = SumOf(h, S) - SumOf(g, S)
  BY <1>1, SumOfMinus
<1>3. SumOf(h, S) \in Int /\ SumOf(g, S) \in Int
  BY <1>1, SumOfInt
<1>. QED BY <1>2, <1>3

\* z is a combination of x and y.
IsCombined(z, x, y, a, b) == z = x * a - y * b

\* The sum of a combination is the combination of the sums.
LEMMA SumOfCombination ==
  ASSUME NEW f, NEW g, NEW h, NEW S, IsFiniteSet(S), NEW a \in Int, NEW b \in Int,
         \A x \in S : f[x] \in Int /\ g[x] \in Int /\ IsCombined(h[x], f[x], g[x], a, b)
  PROVE  IsCombined(SumOf(h, S), SumOf(f, S), SumOf(g, S), a, b)
<1>. USE DEF IsCombined
<1>. DEFINE Bad == {T \in SUBSET S : SumOf(h, T) # SumOf(f, T) * a - SumOf(g, T) * b}
<1>. SUFFICES ASSUME Bad # {} PROVE FALSE
  OBVIOUS
<1>1. PICK T \in Bad : \A U \in SUBSET T : U # T => U \notin Bad
  <2>. HIDE DEF Bad
  <2>1. Bad \subseteq SUBSET S
    BY DEF Bad
  <2>. QED BY <2>1, SmallestFailure
<1>2. T \subseteq S /\ IsFiniteSet(T)
  BY FS_Subset
<1>3. CASE T = {}
  BY <1>3, SumOfNothing
<1>4. CASE T # {}
  <2>1. PICK x \in T : TRUE
    BY <1>4
  <2>. DEFINE U == T \ {x}
  <2>2. U \in SUBSET T /\ U # T /\ U \cup {x} = T /\ x \notin U
    OBVIOUS
  <2>3. SumOf(h, U) = SumOf(f, U) * a - SumOf(g, U) * b
    BY <1>1, <1>2, <2>2
  <2>4. IsFiniteSet(U)
    BY <1>2, FS_RemoveElement
  <2>5. \A y \in U \cup {x} : f[y] \in Int /\ g[y] \in Int /\ h[y] \in Int
    BY <1>2
  <2>. HIDE DEF U, Bad
  <2>6. /\ SumOf(f, U \cup {x}) = SumOf(f, U) + f[x]
        /\ SumOf(g, U \cup {x}) = SumOf(g, U) + g[x]
        /\ SumOf(h, U \cup {x}) = SumOf(h, U) + h[x]
    BY <2>2, <2>4, <2>5, SumOfAdded
  <2>7. SumOf(f, U) \in Int /\ SumOf(g, U) \in Int /\ f[x] \in Int /\ g[x] \in Int
    BY <2>4, <2>5, SumOfInt
  <2>8. h[x] = f[x] * a - g[x] * b
    BY <1>2
  <2>9. /\ SumOf(f, T) = SumOf(f, U) + f[x]
        /\ SumOf(g, T) = SumOf(g, U) + g[x]
        /\ SumOf(h, T) = SumOf(h, U) + h[x]
    BY <2>2, <2>6, Zenon
  <2>10. /\ SumOf(f, T) * a = SumOf(f, U) * a + f[x] * a
         /\ SumOf(g, T) * b = SumOf(g, U) * b + g[x] * b
    BY <2>7, <2>9
  <2>11. \A m, n \in Int : m * n \in Int
    OBVIOUS
  <2>12. SumOf(h, T) = SumOf(f, T) * a - SumOf(g, T) * b
    BY <2>3, <2>7, <2>8, <2>9, <2>10, <2>11
  <2>. QED BY <2>12 DEF Bad
<1>. QED BY <1>3, <1>4

\* A sum of terms within half of w of 0 is within w / 2 times their number.
LEMMA SumOfSmall ==
  ASSUME NEW f, NEW S, IsFiniteSet(S), NEW w \in Nat,
         \A x \in S : f[x] \in Int /\ 2 * f[x] <= w /\ -2 * f[x] <= w
  PROVE  /\ 2 * SumOf(f, S) <= w * Cardinality(S)
         /\ -2 * SumOf(f, S) <= w * Cardinality(S)
<1>. DEFINE Within(T) == /\ 2 * SumOf(f, T) <= w * Cardinality(T)
                         /\ -2 * SumOf(f, T) <= w * Cardinality(T)
            Bad == {T \in SUBSET S : ~Within(T)}
<1>. SUFFICES ASSUME Bad # {} PROVE FALSE
  OBVIOUS
<1>1. PICK T \in Bad : \A U \in SUBSET T : U # T => U \notin Bad
  <2>. HIDE DEF Bad
  <2>1. Bad \subseteq SUBSET S
    BY DEF Bad
  <2>. QED BY <2>1, SmallestFailure
<1>2. T \subseteq S /\ IsFiniteSet(T)
  BY FS_Subset
<1>3. CASE T = {}
  BY <1>3, SumOfNothing, FS_EmptySet
<1>4. CASE T # {}
  <2>1. PICK x \in T : TRUE
    BY <1>4
  <2>. DEFINE U == T \ {x}
  <2>2. U \in SUBSET T /\ U # T /\ U \cup {x} = T /\ x \notin U
    OBVIOUS
  <2>3. Within(U)
    BY <1>1, <1>2, <2>2
  <2>4. IsFiniteSet(U)
    BY <1>2, FS_RemoveElement
  <2>5. \A y \in U \cup {x} : f[y] \in Int
    BY <1>2
  <2>6. 2 * f[x] <= w /\ -2 * f[x] <= w
    BY <1>2
  <2>. HIDE DEF U, Bad
  <2>7. SumOf(f, U \cup {x}) = SumOf(f, U) + f[x]
    BY <2>2, <2>4, <2>5, SumOfAdded
  <2>8. SumOf(f, T) = SumOf(f, U) + f[x]
    BY <2>2, <2>7, Zenon
  <2>9. SumOf(f, U) \in Int /\ f[x] \in Int
    BY <2>4, <2>5, SumOfInt
  <2>10. Cardinality(U \cup {x}) = Cardinality(U) + 1
    BY <2>2, <2>4, FS_AddElement
  <2>11. Cardinality(T) = Cardinality(U) + 1 /\ Cardinality(U) \in Nat
    BY <2>2, <2>4, <2>10, FS_CardinalityType, Zenon
  <2>12. w * Cardinality(T) = w * Cardinality(U) + w /\ w * Cardinality(U) \in Int
    BY <2>11
  <2>13. Within(T)
    BY <2>3, <2>6, <2>8, <2>9, <2>12
  <2>. QED BY <2>13 DEF Bad
<1>. QED BY <1>3, <1>4

\* A finite set of numbers that is not empty has a greatest.
LEMMA GreatestIn ==
  ASSUME NEW S, IsFiniteSet(S), S # {}, S \subseteq Int
  PROVE  \E k \in S : \A j \in S : j <= k
<1>. DEFINE Bad == {T \in SUBSET S : T # {} /\ ~ \E k \in T : \A j \in T : j <= k}
<1>. SUFFICES ASSUME Bad # {} PROVE FALSE
  OBVIOUS
<1>1. PICK T \in Bad : \A U \in SUBSET T : U # T => U \notin Bad
  <2>. HIDE DEF Bad
  <2>1. Bad \subseteq SUBSET S
    BY DEF Bad
  <2>. QED BY <2>1, SmallestFailure
<1>2. T # {} /\ T \subseteq Int
  OBVIOUS
<1>3. PICK x \in T : TRUE
  BY <1>2
<1>. DEFINE U == T \ {x}
<1>4. U \in SUBSET T /\ U # T /\ U \in SUBSET S /\ T = U \cup {x}
  OBVIOUS
<1>5. CASE U = {}
  BY <1>2, <1>4, <1>5
<1>6. CASE U # {}
  <2>1. PICK k \in U : \A j \in U : j <= k
    BY <1>1, <1>4, <1>6
  <2>2. \E m \in T : \A j \in T : j <= m
    BY <1>2, <2>1
  <2>. QED BY <2>2
<1>. QED BY <1>5, <1>6

\* The sums of the elements with each key.
AreParts(part, f, S, key, K) ==
  /\ \A x \in S : key[x] \in K
  /\ \A k \in K : part[k] = SumOf(f, {x \in S : key[x] = k})

\* A sum taken in parts: first of the elements with each key, then over the keys.
LEMMA SumOfFibers ==
  ASSUME NEW f, NEW S, IsFiniteSet(S), \A x \in S : f[x] \in Int,
         NEW key, NEW K, IsFiniteSet(K), NEW part, AreParts(part, f, S, key, K)
  PROVE  SumOf(f, S) = SumOf(part, K)
<1>. USE DEF AreParts
<1>. DEFINE Of(T) == {x \in S : key[x] \in T}
            Bad == {T \in SUBSET K : SumOf(f, Of(T)) # SumOf(part, T)}
<1>1. ASSUME Bad # {}
      PROVE  FALSE
  <2>1. PICK T \in Bad : \A U \in SUBSET T : U # T => U \notin Bad
    <3>. HIDE DEF Bad
    <3>1. Bad \subseteq SUBSET K
      BY DEF Bad
    <3>. QED BY <1>1, <3>1, SmallestFailure
  <2>2. T \subseteq K /\ IsFiniteSet(T)
    BY FS_Subset
  <2>3. CASE T = {}
    <3>1. Of(T) = {}
      BY <2>3
    <3>. QED BY <2>3, <3>1, SumOfNothing
  <2>4. CASE T # {}
    <3>1. PICK k \in T : TRUE
      BY <2>4
    <3>. DEFINE U == T \ {k}
                P == {x \in S : key[x] = k}
    <3>2. U \in SUBSET T /\ U # T /\ U \cup {k} = T /\ k \notin U
      OBVIOUS
    <3>3. SumOf(f, Of(U)) = SumOf(part, U)
      BY <2>1, <2>2, <3>2
    <3>4. Of(U) \cup P = Of(T) /\ Of(U) \cap P = {}
      OBVIOUS
    <3>5. IsFiniteSet(Of(U)) /\ IsFiniteSet(P)
      BY FS_Subset
    <3>6. \A x \in Of(U) \cup P : f[x] \in Int
      OBVIOUS
    <3>7. SumOf(f, Of(U) \cup P) = SumOf(f, Of(U)) + SumOf(f, P)
      <4>. HIDE DEF Of, P
      <4>. QED BY <3>4, <3>5, <3>6, SumOfDisjoint
    <3>8. \A j \in K : part[j] \in Int
      <4>1. ASSUME NEW j \in K
            PROVE  SumOf(f, {x \in S : key[x] = j}) \in Int
        <5>. DEFINE Q == {x \in S : key[x] = j}
        <5>1. IsFiniteSet(Q) /\ \A x \in Q : f[x] \in Int
          BY FS_Subset
        <5>. HIDE DEF Q
        <5>2. SumOf(f, Q) \in Int
          BY <5>1, SumOfInt
        <5>. QED BY <5>2 DEF Q
      <4>. QED BY <4>1
    <3>9. SumOf(part, U \cup {k}) = SumOf(part, U) + part[k]
      <4>1. IsFiniteSet(U) /\ \A j \in U \cup {k} : part[j] \in Int
        BY <2>2, <3>8, FS_RemoveElement
      <4>. HIDE DEF U
      <4>. QED BY <3>2, <4>1, SumOfAdded
    <3>10. part[k] = SumOf(f, P)
      BY <2>2
    <3>. HIDE DEF Of, U, P, Bad
    <3>11. SumOf(f, Of(T)) = SumOf(part, T)
      BY <3>2, <3>3, <3>4, <3>7, <3>9, <3>10
    <3>. QED BY <3>11 DEF Bad
  <2>. QED BY <2>3, <2>4
<1>2. K \in SUBSET K /\ Of(K) = S
  OBVIOUS
<1>. QED BY <1>1, <1>2

\* R is the image of S under w, which key undoes.
IsImage(R, S, w, key) == R = {w[x] : x \in S} /\ \A x \in S : key[w[x]] = x

\* Images of finite sets are finite, and as large when nothing falls together.
LEMMA ImageFinite ==
  ASSUME NEW S, IsFiniteSet(S), NEW w, NEW R, R = {w[x] : x \in S}
  PROVE  /\ IsFiniteSet(R)
         /\ \A key : IsImage(R, S, w, key) => Cardinality(R) = Cardinality(S)
<1>. DEFINE f == [x \in S |-> w[x]]
<1>1. f \in Surjection(S, R)
  BY DEF Surjection
<1>2. ASSUME NEW key, IsImage(R, S, w, key)
      PROVE  f \in Injection(S, R)
  BY <1>2 DEF IsImage, Injection, IsInjective
<1>. HIDE DEF f
<1>. QED BY <1>1, <1>2, FS_Surjection

\* A sum over an image is a sum over what it is the image of.
LEMMA SumOfImage ==
  ASSUME NEW S, IsFiniteSet(S), NEW R, NEW w, NEW key, IsImage(R, S, w, key),
         NEW f, NEW g, \A x \in S : g[w[x]] \in Int /\ g[w[x]] = f[x]
  PROVE  SumOf(g, R) = SumOf(f, S)
<1>1. IsFiniteSet(R)
  BY ImageFinite DEF IsImage
<1>2. \A r \in R : g[r] \in Int /\ key[r] \in S
  BY DEF IsImage
<1>3. ASSUME NEW x \in S
      PROVE  f[x] = SumOf(g, {r \in R : key[r] = x})
  <2>1. {r \in R : key[r] = x} = {w[x]}
    BY DEF IsImage
  <2>2. SumOf(g, {w[x]}) = g[w[x]]
    BY SumOfOne
  <2>. QED BY <2>1, <2>2
<1>4. AreParts(f, g, R, key, S)
  BY <1>2, <1>3 DEF AreParts
<1>. QED BY <1>1, <1>2, <1>4, SumOfFibers

\* Sets of a few elements, and sums over them.
LEMMA FewFinite ==
  /\ \A a, b : IsFiniteSet({a, b})
  /\ \A a, b, c : IsFiniteSet({a, b, c})
  /\ \A a, b, c, d : IsFiniteSet({a, b, c, d})
  /\ \A a, b, c, d, e : IsFiniteSet({a, b, c, d, e})
  /\ \A a, b, c, d, e, f : IsFiniteSet({a, b, c, d, e, f})
  /\ \A a, b, c, d, e, f, g : IsFiniteSet({a, b, c, d, e, f, g})
<1>1. ASSUME NEW a, NEW b
      PROVE  IsFiniteSet({a, b})
  <2>1. IsFiniteSet({a}) /\ {a} \cup {b} = {a, b}
    BY FS_Singleton
  <2>2. IsFiniteSet({a} \cup {b})
    BY <2>1, FS_AddElement
  <2>. QED BY <2>1, <2>2, Zenon
<1>2. ASSUME NEW a, NEW b, NEW c
      PROVE  IsFiniteSet({a, b, c})
  <2>1. IsFiniteSet({a, b}) /\ {a, b} \cup {c} = {a, b, c}
    BY <1>1
  <2>2. IsFiniteSet({a, b} \cup {c})
    BY <2>1, FS_AddElement
  <2>. QED BY <2>1, <2>2, Zenon
<1>3. ASSUME NEW a, NEW b, NEW c, NEW d
      PROVE  IsFiniteSet({a, b, c, d})
  <2>1. IsFiniteSet({a, b, c}) /\ {a, b, c} \cup {d} = {a, b, c, d}
    BY <1>2
  <2>2. IsFiniteSet({a, b, c} \cup {d})
    BY <2>1, FS_AddElement
  <2>. QED BY <2>1, <2>2, Zenon
<1>4. ASSUME NEW a, NEW b, NEW c, NEW d, NEW e
      PROVE  IsFiniteSet({a, b, c, d, e})
  <2>1. /\ IsFiniteSet({a, b, c, d}) /\ IsFiniteSet({e})
        /\ {a, b, c, d} \cup {e} = {a, b, c, d, e}
    BY <1>2, <1>3, FS_Singleton
  <2>2. IsFiniteSet({a, b, c, d} \cup {e})
    BY <2>1, FS_Union
  <2>. QED BY <2>1, <2>2, Zenon
<1>5. ASSUME NEW a, NEW b, NEW c, NEW d, NEW e, NEW f
      PROVE  IsFiniteSet({a, b, c, d, e, f})
  <2>1. /\ IsFiniteSet({a, b, c}) /\ IsFiniteSet({d, e, f})
        /\ {a, b, c} \cup {d, e, f} = {a, b, c, d, e, f}
    BY <1>2, <1>3, FS_Singleton
  <2>2. IsFiniteSet({a, b, c} \cup {d, e, f})
    BY <2>1, FS_Union
  <2>. QED BY <2>1, <2>2, Zenon
<1>6. ASSUME NEW a, NEW b, NEW c, NEW d, NEW e, NEW f, NEW g
      PROVE  IsFiniteSet({a, b, c, d, e, f, g})
  <2>1. /\ IsFiniteSet({a, b, c, d}) /\ IsFiniteSet({e, f, g})
        /\ {a, b, c, d} \cup {e, f, g} = {a, b, c, d, e, f, g}
    BY <1>2, <1>3, FS_Singleton
  <2>2. IsFiniteSet({a, b, c, d} \cup {e, f, g})
    BY <2>1, FS_Union
  <2>. QED BY <2>1, <2>2, Zenon
<1>. QED BY <1>1, <1>2, <1>3, <1>4, <1>5, <1>6

\* Sets of three and of four.
AreThree(S, a, b, c) == S = {a, b, c} /\ a # b /\ a # c /\ b # c
AreFour(S, a, b, c, d) == S = {a, b, c, d} /\ AreThree({a, b, c}, a, b, c) /\ d \notin {a, b, c}

\* Three terms ...
LEMMA SumOfThree ==
  ASSUME NEW f, NEW S, NEW a, NEW b, NEW c, AreThree(S, a, b, c), \A x \in S : f[x] \in Int
  PROVE  SumOf(f, S) = f[a] + f[b] + f[c]
<1>. USE DEF AreThree
<1>1. {a} \cup {b} = {a, b} /\ {a, b} \cup {c} = S
  OBVIOUS
<1>2. IsFiniteSet({a}) /\ IsFiniteSet({a, b})
  BY FewFinite, FS_Singleton
<1>3. SumOf(f, {a} \cup {b}) = SumOf(f, {a}) + f[b]
  BY <1>2, SumOfAdded
<1>4. SumOf(f, {a, b} \cup {c}) = SumOf(f, {a, b}) + f[c]
  BY <1>2, SumOfAdded
<1>5. SumOf(f, {a}) = f[a]
  BY SumOfOne
<1>6. SumOf(f, S) = (SumOf(f, {a}) + f[b]) + f[c]
  BY <1>1, <1>3, <1>4, Zenon
<1>. QED BY <1>5, <1>6

\* ... and four.
LEMMA SumOfFour ==
  ASSUME NEW f, NEW S, NEW a, NEW b, NEW c, NEW d, AreFour(S, a, b, c, d),
         \A x \in S : f[x] \in Int
  PROVE  SumOf(f, S) = f[a] + f[b] + f[c] + f[d]
<1>. DEFINE T == {a, b, c}
<1>1. T \cup {d} = S /\ d \notin T /\ IsFiniteSet(T) /\ AreThree(T, a, b, c)
  BY FewFinite DEF AreFour
<1>2. (\A x \in T : f[x] \in Int) /\ \A x \in T \cup {d} : f[x] \in Int
  BY <1>1
<1>. HIDE DEF T
<1>3. SumOf(f, T \cup {d}) = SumOf(f, T) + f[d]
  BY <1>1, <1>2, SumOfAdded
<1>4. SumOf(f, T) = f[a] + f[b] + f[c]
  BY <1>1, <1>2, SumOfThree
<1>5. SumOf(f, S) = SumOf(f, T) + f[d]
  BY <1>1, <1>3, Zenon
<1>. QED BY <1>4, <1>5

-----------------------------------------------------------------------------
(* Sums over sets of rows, as the models write them *)

\* The amounts of rows, and their quantities.
AmountsOf(rows) == MapThenSumSet(LAMBDA x : x.amount, rows)
QuantitiesOf(rows) == MapThenSumSet(LAMBDA x : x.quantity, rows)

\* They are the sums of the functions that give them.
LEMMA AmountsAreSum ==
  ASSUME NEW rows, IsFiniteSet(rows)
  PROVE  AmountsOf(rows) = SumOf([x \in rows |-> x.amount], rows)
<1>. DEFINE f == [x \in rows |-> x.amount]
            Is(g) == g = [s \in SUBSET rows |->
                            IF s = {} THEN 0
                            ELSE (CHOOSE x \in s : TRUE).amount + g[s \ {CHOOSE x \in s : TRUE}]]
<1>1. ASSUME NEW g
      PROVE  Is(g) <=> IsSum(g, f, rows)
  <2>1. \A s \in SUBSET rows : s # {} => f[FirstOf(s)] = (CHOOSE x \in s : TRUE).amount
    BY FirstIn DEF FirstOf
  <2>. QED BY <2>1 DEF IsSum, FirstOf
<1>2. PICK h : IsSum(h, f, rows) /\ SumOf(f, rows) = h[rows]
  BY SumIsFold
<1>3. AmountsOf(rows) = (CHOOSE g : Is(g))[rows]
  BY DEF AmountsOf, MapThenSumSet, MapThenFoldSet
<1>. HIDE DEF Is, f
<1>4. IsSum(CHOOSE g : Is(g), f, rows)
  BY <1>1, <1>2
<1>5. rows \subseteq rows
  OBVIOUS
<1>6. (CHOOSE g : Is(g))[rows] = h[rows]
  BY <1>2, <1>4, <1>5, SumsAgree
<1>. QED BY <1>2, <1>3, <1>6 DEF f

\* Likewise of quantities.
LEMMA QuantitiesAreSum ==
  ASSUME NEW rows, IsFiniteSet(rows)
  PROVE  QuantitiesOf(rows) = SumOf([x \in rows |-> x.quantity], rows)
<1>. DEFINE f == [x \in rows |-> x.quantity]
            Is(g) == g = [s \in SUBSET rows |->
                            IF s = {} THEN 0
                            ELSE (CHOOSE x \in s : TRUE).quantity + g[s \ {CHOOSE x \in s : TRUE}]]
<1>1. ASSUME NEW g
      PROVE  Is(g) <=> IsSum(g, f, rows)
  <2>1. \A s \in SUBSET rows : s # {} => f[FirstOf(s)] = (CHOOSE x \in s : TRUE).quantity
    BY FirstIn DEF FirstOf
  <2>. QED BY <2>1 DEF IsSum, FirstOf
<1>2. PICK h : IsSum(h, f, rows) /\ SumOf(f, rows) = h[rows]
  BY SumIsFold
<1>3. QuantitiesOf(rows) = (CHOOSE g : Is(g))[rows]
  BY DEF QuantitiesOf, MapThenSumSet, MapThenFoldSet
<1>. HIDE DEF Is, f
<1>4. IsSum(CHOOSE g : Is(g), f, rows)
  BY <1>1, <1>2
<1>5. rows \subseteq rows
  OBVIOUS
<1>6. (CHOOSE g : Is(g))[rows] = h[rows]
  BY <1>2, <1>4, <1>5, SumsAgree
<1>. QED BY <1>2, <1>3, <1>6 DEF f

\* They are natural when the rows' are.
LEMMA RowsNat ==
  ASSUME NEW rows, IsFiniteSet(rows)
  PROVE  /\ (\A x \in rows : x.amount \in Nat) => AmountsOf(rows) \in Nat
         /\ (\A x \in rows : x.quantity \in Nat) => QuantitiesOf(rows) \in Nat
<1>. DEFINE f == [x \in rows |-> x.amount]
            k == [x \in rows |-> x.quantity]
<1>1. AmountsOf(rows) = SumOf(f, rows) /\ QuantitiesOf(rows) = SumOf(k, rows)
  BY AmountsAreSum, QuantitiesAreSum
<1>2. /\ (\A x \in rows : x.amount \in Nat) => \A x \in rows : f[x] \in Nat /\ f[x] \in Int
      /\ (\A x \in rows : x.quantity \in Nat) => \A x \in rows : k[x] \in Nat /\ k[x] \in Int
  OBVIOUS
<1>. HIDE DEF f, k
<1>. QED BY <1>1, <1>2, SumOfInt

\* One more row.
LEMMA AmountsAdded ==
  ASSUME NEW rows, IsFiniteSet(rows), NEW x, x \notin rows,
         \A y \in rows \cup {x} : y.amount \in Int
  PROVE  AmountsOf(rows \cup {x}) = AmountsOf(rows) + x.amount
<1>. DEFINE f == [y \in rows \cup {x} |-> y.amount]
            k == [y \in rows |-> y.amount]
<1>1. IsFiniteSet(rows \cup {x})
  BY FS_AddElement
<1>2. \A y \in rows : f[y] = k[y]
  OBVIOUS
<1>3. f[x] = x.amount /\ \A y \in rows \cup {x} : f[y] \in Int
  OBVIOUS
<1>4. AmountsOf(rows) = SumOf(k, rows) /\ AmountsOf(rows \cup {x}) = SumOf(f, rows \cup {x})
  BY <1>1, AmountsAreSum
<1>. HIDE DEF f, k
<1>5. SumOf(f, rows \cup {x}) = SumOf(f, rows) + f[x]
  BY <1>3, SumOfAdded
<1>6. SumOf(f, rows) = SumOf(k, rows)
  BY <1>2, SumOfSame
<1>. QED BY <1>3, <1>4, <1>5, <1>6

\* Likewise of quantities.
LEMMA QuantitiesAdded ==
  ASSUME NEW rows, IsFiniteSet(rows), NEW x, x \notin rows,
         \A y \in rows \cup {x} : y.quantity \in Int
  PROVE  QuantitiesOf(rows \cup {x}) = QuantitiesOf(rows) + x.quantity
<1>. DEFINE f == [y \in rows \cup {x} |-> y.quantity]
            k == [y \in rows |-> y.quantity]
<1>1. IsFiniteSet(rows \cup {x})
  BY FS_AddElement
<1>2. \A y \in rows : f[y] = k[y]
  OBVIOUS
<1>3. f[x] = x.quantity /\ \A y \in rows \cup {x} : f[y] \in Int
  OBVIOUS
<1>4. /\ QuantitiesOf(rows) = SumOf(k, rows)
      /\ QuantitiesOf(rows \cup {x}) = SumOf(f, rows \cup {x})
  BY <1>1, QuantitiesAreSum
<1>. HIDE DEF f, k
<1>5. SumOf(f, rows \cup {x}) = SumOf(f, rows) + f[x]
  BY <1>3, SumOfAdded
<1>6. SumOf(f, rows) = SumOf(k, rows)
  BY <1>2, SumOfSame
<1>. QED BY <1>3, <1>4, <1>5, <1>6

\* No rows.
LEMMA NoRows == AmountsOf({}) = 0 /\ QuantitiesOf({}) = 0
BY FS_EmptySet, AmountsAreSum, QuantitiesAreSum, SumOfNothing

=============================================================================
