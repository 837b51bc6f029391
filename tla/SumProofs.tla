------------------------------- MODULE SumProofs -------------------------------
(***************************************************************************)
(* Sums over finite sets.  The modules add up marks with the folds of the  *)
(* community modules, MapThenSumSet and FoldFunction, which take the       *)
(* elements one after the other in an order that nobody knows.  All they   *)
(* compute is Total below (a lemma beside each use says so by expanding    *)
(* them), and this module proves what a sum needs to be one: Total exists, *)
(* is natural, does not depend on the order, and adds up over parts.       *)
(* Induction is over a set of natural numbers or of sets, not over a       *)
(* predicate, which none of the provers could instantiate.                 *)
(***************************************************************************)
EXTENDS Integers, FiniteSets, FiniteSetTheorems, WellFoundedInduction, TLAPS

\* Every set of natural numbers that is not empty has a least one.
LEMMA LeastNumber ==
  ASSUME NEW T \in SUBSET Nat, T # {}
  PROVE  \E n \in T : \A m \in T : n <= m
<1>1. \E n \in T : \A m \in T : ~ (<<m, n>> \in OpToRel(<, Nat))
  BY NatLessThanWellFounded, WFMin
<1>2. PICK n \in T : \A m \in T : ~ (<<m, n>> \in OpToRel(<, Nat))
  BY <1>1
<1>3. ASSUME NEW m \in T PROVE n <= m
  <2>1. <<m, n>> \in Nat \X Nat OBVIOUS
  <2>2. m < n => <<m, n>> \in OpToRel(<, Nat)
    BY <2>1 DEF OpToRel
  <2>3. ~ (m < n) BY <1>2, <2>2
  <2>4. m \in Nat /\ n \in Nat OBVIOUS
  <2> QED BY <2>3, <2>4
<1> QED BY <1>3

\* What holds of 0, and of n + 1 when it holds of n, holds of every number.
LEMMA Induction ==
  ASSUME NEW T \in SUBSET Nat, 0 \in T, \A n \in T : n + 1 \in T
  PROVE  T = Nat
<1> SUFFICES ASSUME Nat \ T # {} PROVE FALSE
  OBVIOUS
<1>1. PICK n \in Nat \ T : \A m \in Nat \ T : n <= m
  BY LeastNumber
<1>2. n # 0 OBVIOUS
<1>3. n - 1 \in Nat /\ ~(n <= n - 1)
  BY <1>2
<1>4. n - 1 \in T
  BY <1>1, <1>3
<1> QED BY <1>3, <1>4, (n - 1) + 1 = n

\* What holds of the empty set, and stays true when an element is added,
\* holds of every finite set.
LEMMA SetInduction ==
  ASSUME NEW S, IsFiniteSet(S), NEW G, {} \in G,
         \A A \in SUBSET S : \A x \in S \ A : A \in G => A \cup {x} \in G
  PROVE  S \in G
<1> DEFINE N == {n \in Nat : \A A \in SUBSET S : Cardinality(A) = n => A \in G}
<1>1. N \in SUBSET Nat OBVIOUS
<1>2. 0 \in N
  <2> SUFFICES ASSUME NEW A \in SUBSET S, Cardinality(A) = 0 PROVE A \in G
    OBVIOUS
  <2>1. A = {} BY FS_Subset, FS_EmptySet
  <2> QED BY <2>1
<1>3. ASSUME NEW n \in N PROVE n + 1 \in N
  <2> SUFFICES ASSUME NEW A \in SUBSET S, Cardinality(A) = n + 1 PROVE A \in G
    OBVIOUS
  <2>1. IsFiniteSet(A) BY FS_Subset
  <2>2. n \in Nat /\ n + 1 # 0 OBVIOUS
  <2>3. A # {} BY <2>2, FS_EmptySet
  <2>4. PICK x \in A : TRUE BY <2>3
  <2>5. Cardinality(A \ {x}) = n
    <3> HIDE DEF N
    <3>1. Cardinality(A \ {x}) = Cardinality(A) - 1 BY <2>1, FS_RemoveElement
    <3> QED BY <2>2, <3>1
  <2>6. A \ {x} \in G BY <2>5
  <2>7. A = (A \ {x}) \cup {x} /\ A \ {x} \in SUBSET S /\ x \in S \ (A \ {x})
    BY <2>4
  <2> HIDE DEF N
  <2> QED BY <2>6, <2>7
<1> HIDE DEF N
<1>4. N = Nat BY <1>1, <1>2, <1>3, Induction
<1>5. Cardinality(S) \in Nat BY FS_CardinalityType
<1> QED BY <1>4, <1>5 DEF N

----------------------------------------------------------------------------
(* What the folds compute: the sums over all subsets at once.              *)

Choice(s) == CHOOSE x \in s : TRUE
SumStep(w, g, s) == IF s = {} THEN 0 ELSE w[Choice(s)] + g[s \ {Choice(s)}]
Sums(w, S, g) == g = [s \in SUBSET S |-> SumStep(w, g, s)]

\* Choice takes an element that is there.
LEMMA ChoiceIsMember == ASSUME NEW s, s # {} PROVE Choice(s) \in s
BY DEF Choice

\* There is a function that sums over every subset, so CHOOSE finds one.
LEMMA SumsExist ==
  ASSUME NEW S, IsFiniteSet(S), NEW w
  PROVE  \E g : Sums(w, S, g)
<1> DEFINE Small(n) == {s \in SUBSET S : Cardinality(s) <= n}
           Partial(n, g) == g = [s \in Small(n) |-> SumStep(w, g, s)]
           N == {n \in Nat : \E g : Partial(n, g)}
<1>1. N \in SUBSET Nat OBVIOUS
<1>2. \A s \in SUBSET S : IsFiniteSet(s) /\ Cardinality(s) \in Nat
  BY FS_Subset, FS_CardinalityType
<1>3. ASSUME NEW n \in Nat, NEW s \in Small(n + 1), s # {}
      PROVE  s \ {Choice(s)} \in Small(n)
  <2>1. Cardinality(s \ {Choice(s)}) = Cardinality(s) - 1
    BY <1>2, <1>3, ChoiceIsMember, FS_RemoveElement
  <2>2. s \ {Choice(s)} \in SUBSET S OBVIOUS
  <2> QED BY <1>2, <2>1, <2>2
<1>4. 0 \in N
  <2> DEFINE g == [s \in Small(0) |-> 0]
  <2>1. \A s \in Small(0) : s = {}
    BY <1>2, FS_EmptySet
  <2>2. Partial(0, g) BY <2>1 DEF SumStep
  <2> QED BY <2>2
<1>5. ASSUME NEW n \in N PROVE n + 1 \in N
  <2>1. n \in Nat OBVIOUS
  <2>2. PICK g : Partial(n, g) OBVIOUS
  <2> DEFINE h == [s \in Small(n + 1) |-> SumStep(w, g, s)]
  <2>3. Small(n) \subseteq Small(n + 1) BY <1>2, <2>1
  <2>4. \A s \in Small(n) : h[s] = g[s] BY <2>2, <2>3
  <2>5. \A s \in Small(n + 1) : SumStep(w, g, s) = SumStep(w, h, s)
    BY <1>3, <2>1, <2>4 DEF SumStep
  <2>6. Partial(n + 1, h) BY <2>5
  <2>7. n + 1 \in Nat /\ \E i : Partial(n + 1, i)
    <3> HIDE DEF N, Partial, h
    <3> QED BY <2>1, <2>6
  <2> HIDE DEF Partial
  <2> QED BY <2>7
<1> HIDE DEF N
<1>6. N = Nat BY <1>1, <1>4, <1>5, Induction
<1> DEFINE k == Cardinality(S)
<1>7. k \in Nat BY FS_CardinalityType
<1>8. Small(k) = SUBSET S BY FS_Subset
<1>9. PICK g : Partial(k, g) BY <1>6, <1>7 DEF N
<1> QED BY <1>8, <1>9 DEF Sums

\* Two such functions agree where both sum the same.
LEMMA SumsAgree ==
  ASSUME NEW S, NEW R, NEW v, NEW w, NEW f, NEW g, Sums(v, S, f), Sums(w, R, g),
         IsFiniteSet(S), \A x \in S \cap R : v[x] = w[x]
  PROVE  \A s \in SUBSET (S \cap R) : f[s] = g[s]
<1> DEFINE N == {n \in Nat : \A s \in SUBSET (S \cap R) : Cardinality(s) = n => f[s] = g[s]}
<1>1. N \in SUBSET Nat OBVIOUS
<1>2. \A s \in SUBSET (S \cap R) : IsFiniteSet(s) /\ Cardinality(s) \in Nat
  BY FS_Subset, FS_CardinalityType
<1>3. \A s \in SUBSET (S \cap R) : f[s] = SumStep(v, f, s) /\ g[s] = SumStep(w, g, s)
  BY DEF Sums
<1>4. 0 \in N
  BY <1>2, <1>3, FS_EmptySet DEF SumStep
<1>5. ASSUME NEW n \in N PROVE n + 1 \in N
  <2> SUFFICES ASSUME NEW s \in SUBSET (S \cap R), Cardinality(s) = n + 1
               PROVE  f[s] = g[s]
    OBVIOUS
  <2>1. n \in Nat /\ s # {} BY FS_EmptySet
  <2>2. Choice(s) \in s BY <2>1, ChoiceIsMember
  <2>3. Cardinality(s \ {Choice(s)}) = n
    <3> HIDE DEF N
    <3>1. Cardinality(s \ {Choice(s)}) = Cardinality(s) - 1
      BY <1>2, <2>2, FS_RemoveElement
    <3> QED BY <2>1, <3>1
  <2>4. f[s \ {Choice(s)}] = g[s \ {Choice(s)}] BY <2>3
  <2>5. v[Choice(s)] = w[Choice(s)] BY <2>2
  <2> HIDE DEF N
  <2> QED BY <1>3, <2>1, <2>4, <2>5 DEF SumStep
<1> HIDE DEF N
<1>6. N = Nat BY <1>1, <1>4, <1>5, Induction
<1> QED BY <1>2, <1>6 DEF N

----------------------------------------------------------------------------
(* The sum of w[x] for all x in S, as the folds of the modules compute it.  *)

Total(w, S) == (CHOOSE g : Sums(w, S, g))[S]

\* The chosen element and the rest make up the sum.
LEMMA TotalStep ==
  ASSUME NEW S, IsFiniteSet(S), NEW w
  PROVE  Total(w, S) = IF S = {} THEN 0
                       ELSE w[Choice(S)] + Total(w, S \ {Choice(S)})
<1> DEFINE x == Choice(S)
           R == S \ {x}
           f == CHOOSE g : Sums(w, S, g)
           h == CHOOSE g : Sums(w, R, g)
<1>1. IsFiniteSet(R)
  BY FS_Subset
<1>2. Sums(w, S, f) /\ Sums(w, R, h)
  BY <1>1, SumsExist
<1> HIDE DEF x, f, h
<1>3. \A s \in SUBSET (S \cap R) : f[s] = h[s]
  BY <1>2, SumsAgree
<1>4. R \in SUBSET (S \cap R)
  OBVIOUS
<1>5. f[R] = h[R]
  BY <1>3, <1>4
<1>6. f[S] = IF S = {} THEN 0 ELSE w[x] + f[R]
  BY <1>2 DEF Sums, SumStep, x
<1> QED
  BY <1>5, <1>6 DEF Total, f, h, x

\* All the numbers that are summed are natural.
Naturally(w, S) == \A x \in S : w[x] \in Nat

\* A sum of natural numbers is natural.
LEMMA TotalIsNatural ==
  ASSUME NEW S, IsFiniteSet(S), NEW w, Naturally(w, S)
  PROVE  Total(w, S) \in Nat
<1> DEFINE N == {n \in Nat : \A T \in SUBSET S : Cardinality(T) = n => Total(w, T) \in Nat}
<1>1. \A T \in SUBSET S : IsFiniteSet(T) /\ Cardinality(T) \in Nat
  BY FS_Subset, FS_CardinalityType
<1>2. 0 \in N
  BY <1>1, FS_EmptySet, TotalStep
<1>3. ASSUME NEW n \in N PROVE n + 1 \in N
  <2>1. n \in Nat /\ \A T \in SUBSET S : Cardinality(T) = n => Total(w, T) \in Nat
    OBVIOUS
  <2> HIDE DEF N
  <2> SUFFICES ASSUME NEW T \in SUBSET S, Cardinality(T) = n + 1 PROVE Total(w, T) \in Nat
    BY <2>1 DEF N
  <2> DEFINE c == Choice(T)
  <2>2. T # {} /\ c \in T
    BY <2>1, FS_EmptySet, ChoiceIsMember
  <2>3. Total(w, T) = w[c] + Total(w, T \ {c})
    BY <1>1, <2>2, TotalStep
  <2> HIDE DEF c
  <2>4. Cardinality(T \ {c}) = Cardinality(T) - 1 /\ T \ {c} \in SUBSET S
    BY <1>1, <2>2, FS_RemoveElement
  <2>5. Total(w, T \ {c}) \in Nat
    BY <2>1, <2>4
  <2> QED BY <2>2, <2>3, <2>5 DEF Naturally
<1> HIDE DEF N
<1>4. N = Nat
  BY <1>2, <1>3, Induction DEF N
<1> QED
  BY <1>1, <1>4 DEF N

\* Whatever element is taken first, the sum is the same.
LEMMA TotalRemoves ==
  ASSUME NEW S, IsFiniteSet(S), NEW w, Naturally(w, S)
  PROVE  \A x \in S : Total(w, S) = w[x] + Total(w, S \ {x})
<1> DEFINE Fine(T) == \A x \in T : Total(w, T) = w[x] + Total(w, T \ {x})
           N == {n \in Nat : \A T \in SUBSET S : Cardinality(T) = n => Fine(T)}
<1>1. \A T \in SUBSET S : IsFiniteSet(T) /\ Cardinality(T) \in Nat
  BY FS_Subset, FS_CardinalityType
<1>2. 0 \in N
  BY <1>1, FS_EmptySet, TotalStep
<1>3. ASSUME NEW n \in N PROVE n + 1 \in N
  <2> HIDE DEF Fine
  <2>1. n \in Nat /\ \A T \in SUBSET S : Cardinality(T) = n => Fine(T)
    OBVIOUS
  <2> HIDE DEF N
  <2> SUFFICES ASSUME NEW T \in SUBSET S, Cardinality(T) = n + 1 PROVE Fine(T)
    BY <2>1 DEF N
  <2> DEFINE c == Choice(T)
  <2>2. T # {} /\ c \in T
    BY <2>1, FS_EmptySet, ChoiceIsMember
  <2> HIDE DEF c
  <2>3. \A x \in T : Cardinality(T \ {x}) = n /\ T \ {x} \in SUBSET S
    <3> TAKE x \in T
    <3>1. Cardinality(T \ {x}) = Cardinality(T) - 1
      BY <1>1, FS_RemoveElement
    <3> QED BY <2>1, <3>1
  <2>4. Total(w, T) = w[c] + Total(w, T \ {c})
    BY <1>1, <2>2, TotalStep DEF c
  <2>5. \A x \in T : Fine(T \ {x})
    BY <2>1, <2>3
  <2>6. \A x \in T : w[x] \in Nat /\ Total(w, T \ {x}) \in Nat
    BY <1>1, <2>3, TotalIsNatural DEF Naturally
  <2>8. ASSUME NEW x \in T, x # c PROVE Total(w, T) = w[x] + Total(w, T \ {x})
    <3>1. /\ Total(w, T \ {c}) = w[x] + Total(w, (T \ {c}) \ {x})
          /\ Total(w, T \ {x}) = w[c] + Total(w, (T \ {x}) \ {c})
      BY <2>2, <2>5, <2>8 DEF Fine
    <3>2. (T \ {c}) \ {x} = (T \ {x}) \ {c}
      OBVIOUS
    <3>3. (T \ {c}) \ {x} \in SUBSET S
      OBVIOUS
    <3>4. Total(w, (T \ {c}) \ {x}) \in Nat
      BY <1>1, <3>3, TotalIsNatural DEF Naturally
    <3> QED BY <2>2, <2>4, <2>6, <3>1, <3>2, <3>4
  <2> QED BY <2>4, <2>8 DEF Fine
<1> HIDE DEF N, Fine
<1>4. N = Nat
  BY <1>2, <1>3, Induction DEF N
<1>5. S \in SUBSET S /\ Cardinality(S) \in Nat
  BY <1>1
<1> QED
  BY <1>4, <1>5 DEF N, Fine
\* Parts that do not overlap add up.
LEMMA TotalUnion ==
  ASSUME NEW A, IsFiniteSet(A), NEW B, IsFiniteSet(B), A \cap B = {},
         NEW w, Naturally(w, A \cup B)
  PROVE  Total(w, A \cup B) = Total(w, A) + Total(w, B)
<1> DEFINE G == {T \in SUBSET B : Total(w, A \cup T) = Total(w, A) + Total(w, T)}
<1>1. ASSUME NEW T \in SUBSET B
      PROVE  /\ IsFiniteSet(T) /\ IsFiniteSet(A \cup T)
             /\ Naturally(w, A) /\ Naturally(w, T) /\ Naturally(w, A \cup T)
             /\ Total(w, A) \in Nat /\ Total(w, T) \in Nat /\ Total(w, A \cup T) \in Nat
  <2>1. IsFiniteSet(T) /\ IsFiniteSet(A \cup T)
    BY FS_Subset, FS_Union
  <2>2. Naturally(w, A) /\ Naturally(w, T) /\ Naturally(w, A \cup T)
    BY DEF Naturally
  <2> QED BY <2>1, <2>2, TotalIsNatural
<1>2. {} \in G
  <2>1. A \cup {} = A /\ {} \in SUBSET B /\ Total(w, {}) = 0
    BY FS_EmptySet, TotalStep
  <2>2. Total(w, A) \in Nat
    BY <1>1, <2>1
  <2>3. Total(w, A \cup {}) = Total(w, A) + Total(w, {})
    BY <2>1, <2>2
  <2> QED BY <2>1, <2>3
<1>3. ASSUME NEW T \in SUBSET B, NEW x \in B \ T, T \in G PROVE T \cup {x} \in G
  <2> DEFINE U == T \cup {x}
  <2>1. U \in SUBSET B /\ x \in U /\ x \in A \cup U /\ U \ {x} = T
        /\ (A \cup U) \ {x} = A \cup T
    BY <1>3
  <2> HIDE DEF U
  <2>8. /\ IsFiniteSet(U) /\ IsFiniteSet(A \cup U)
        /\ Naturally(w, U) /\ Naturally(w, A \cup U)
    BY <1>1, <2>1
  <2>2. Total(w, U) = w[x] + Total(w, T)
    BY <2>1, <2>8, TotalRemoves
  <2>3. Total(w, A \cup U) = w[x] + Total(w, A \cup T)
    BY <2>1, <2>8, TotalRemoves
  <2>4. Total(w, A \cup T) = Total(w, A) + Total(w, T)
    BY <1>3
  <2>5. w[x] \in Nat /\ Total(w, A) \in Nat /\ Total(w, T) \in Nat
    BY <1>1, <1>3 DEF Naturally
  <2>6. Total(w, A \cup U) = Total(w, A) + Total(w, U)
    BY <2>2, <2>3, <2>4, <2>5
  <2>7. U \in G
    BY <2>1, <2>6
  <2> QED BY <2>7 DEF U
<1> HIDE DEF G
<1>4. B \in G
  BY <1>2, <1>3, SetInduction
<1> QED
  BY <1>4 DEF G

\* The sum over a single element.
LEMMA TotalOfOne ==
  ASSUME NEW x, NEW w, w[x] \in Nat PROVE Total(w, {x}) = w[x]
<1>1. /\ IsFiniteSet({x}) /\ IsFiniteSet({}) /\ {x} \ {x} = {}
      /\ Naturally(w, {x})
  BY FS_Singleton, FS_EmptySet DEF Naturally
<1>2. Total(w, {}) = 0
  BY <1>1, TotalStep
<1> QED
  BY <1>1, <1>2, TotalRemoves

\* Two tables of weights that agree on S have the same sum over it.
LEMMA TotalsAgree ==
  ASSUME NEW S, IsFiniteSet(S), NEW v, NEW w, \A x \in S : v[x] = w[x]
  PROVE  Total(v, S) = Total(w, S)
<1> DEFINE f == CHOOSE g : Sums(v, S, g)
           h == CHOOSE g : Sums(w, S, g)
<1>1. Sums(v, S, f) /\ Sums(w, S, h)
  BY SumsExist
<1> HIDE DEF f, h
<1>2. \A s \in SUBSET (S \cap S) : f[s] = h[s]
  BY <1>1, SumsAgree
<1>3. S \in SUBSET (S \cap S)
  OBVIOUS
<1> QED
  BY <1>2, <1>3 DEF Total, f, h

\* Greater numbers have a greater sum.
LEMMA TotalsGrow ==
  ASSUME NEW S, IsFiniteSet(S), NEW v, NEW w, Naturally(v, S), Naturally(w, S),
         \A x \in S : v[x] <= w[x]
  PROVE  Total(v, S) <= Total(w, S)
<1> DEFINE G == {T \in SUBSET S : Total(v, T) <= Total(w, T)}
<1>1. ASSUME NEW T \in SUBSET S
      PROVE  /\ IsFiniteSet(T) /\ Naturally(v, T) /\ Naturally(w, T)
             /\ Total(v, T) \in Nat /\ Total(w, T) \in Nat
  <2>1. IsFiniteSet(T)
    BY FS_Subset
  <2>2. Naturally(v, T) /\ Naturally(w, T)
    BY DEF Naturally
  <2> QED BY <2>1, <2>2, TotalIsNatural
<1>2. {} \in G
  BY FS_EmptySet, TotalStep
<1>3. ASSUME NEW T \in SUBSET S, NEW x \in S \ T, T \in G PROVE T \cup {x} \in G
  <2>1. PICK U : U = T \cup {x}
    OBVIOUS
  <2>2. U \in SUBSET S /\ x \in U /\ U \ {x} = T
    BY <1>3, <2>1
  <2>3. /\ Total(v, U) = v[x] + Total(v, T)
        /\ Total(w, U) = w[x] + Total(w, T)
    BY <1>1, <2>2, TotalRemoves
  <2>4. /\ v[x] \in Nat /\ w[x] \in Nat /\ v[x] <= w[x]
        /\ Total(v, T) <= Total(w, T)
    BY <1>3 DEF Naturally
  <2>5. Total(v, T) \in Nat /\ Total(w, T) \in Nat
    BY <1>1
  <2>6. Total(v, U) <= Total(w, U)
    BY <2>3, <2>4, <2>5
  <2> QED BY <2>1, <2>2, <2>6
<1> HIDE DEF G
<1>4. S \in G
  BY <1>2, <1>3, SetInduction
<1> QED
  BY <1>4 DEF G
================================================================================
