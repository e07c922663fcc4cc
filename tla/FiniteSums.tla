----------------------------- MODULE FiniteSums -----------------------------
(***************************************************************************)
(* Facts the proofs need about data: a set of naturals has a smallest      *)
(* element, a set closed under successor has them all, and what            *)
(* SumFunctionOnSet computes, which is defined by recursion over subsets.  *)
(* Induction is stated over sets: a set plays the part of the predicate.   *)
(***************************************************************************)
EXTENDS Integers, FiniteSets, Functions, FiniteSetTheorems, WellFoundedInduction, TLAPS

\* Every set of naturals that is not empty has a smallest element.
THEOREM SmallestOf ==
    ASSUME NEW T, T \subseteq Nat, T # {}
    PROVE  \E x \in T : \A y \in T : x <= y
<1> DEFINE R == OpToRel(<, Nat)
<1>1. IsWellFoundedOn(R, Nat)
  BY NatLessThanWellFounded
<1>2. \A x, y \in Nat : y < x => <<y, x>> \in R
  BY DEF OpToRel
<1> HIDE DEF R
<1>3. PICK x \in T : \A y \in T : <<y, x>> \notin R
  BY <1>1, WFMin
<1>4. \A y \in T : ~(y < x)
  BY <1>2, <1>3
<1> QED BY <1>3, <1>4

\* A set with zero and the successor of each of its naturals has all naturals.
THEOREM AllNaturals ==
    ASSUME NEW T, 0 \in T, \A n \in Nat : n \in T => n + 1 \in T
    PROVE  Nat \subseteq T
<1> SUFFICES ASSUME Nat \ T # {} PROVE FALSE
  OBVIOUS
<1>1. PICK x \in Nat \ T : \A y \in Nat \ T : x <= y
  BY SmallestOf
<1>2. x - 1 \in Nat /\ x - 1 \in T
  BY <1>1
<1> QED BY <1>1, <1>2

\* Among finite sets, one of the smallest of those in a family.
LEMMA SmallestSet ==
    ASSUME NEW S, IsFiniteSet(S), NEW F, F \subseteq SUBSET S, F # {}
    PROVE  \E U \in F : \A V \in F : ~(V \subseteq U /\ V # U)
<1> DEFINE T == {Cardinality(U) : U \in F}
<1>1. \A U \in F : IsFiniteSet(U) /\ Cardinality(U) \in Nat
  BY FS_Subset, FS_CardinalityType
<1>2. PICK n \in T : \A m \in T : n <= m
  <2>1. T \subseteq Nat /\ T # {}
    BY <1>1
  <2> HIDE DEF T
  <2> QED BY <2>1, SmallestOf
<1>3. PICK U \in F : Cardinality(U) = n
  BY <1>2
<1>4. ASSUME NEW V \in F, V \subseteq U, V # U
      PROVE  FALSE
  <2>1. Cardinality(V) < Cardinality(U)
    BY <1>1, <1>4, FS_Subset
  <2> QED BY <1>1, <1>2, <1>3, <1>4, <2>1
<1> QED BY <1>3, <1>4

-----------------------------------------------------------------------------
(* SumFunctionOnSet.                                                       *)

Picked(s) == CHOOSE x \in s : TRUE

\* it computes the sums of f over the sets in D, picking one element at a time.
Sums(f, D, it) ==
    it = [s \in D |-> IF s = {} THEN 0 ELSE f[Picked(s)] + it[s \ {Picked(s)}]]

\* The community modules' sum is the value at S of such a function.
LEMMA SumUnfolds ==
    ASSUME NEW f, NEW S
    PROVE  SumFunctionOnSet(f, S) = (CHOOSE it : Sums(f, SUBSET S, it))[S]
BY DEF SumFunctionOnSet, FoldFunctionOnSet, MapThenFoldSet, Sums, Picked

\* Such a function exists: by induction over the size of the sets, as a
\* set of natural numbers that holds 0 and the successor of each member.
LEMMA SumsExist ==
    ASSUME NEW S, IsFiniteSet(S), NEW f, \A x \in S : f[x] \in Int
    PROVE  \E it \in [SUBSET S -> Int] : Sums(f, SUBSET S, it)
<1> DEFINE D(n) == {s \in SUBSET S : Cardinality(s) <= n}
           T == {n \in Nat : \E it \in [D(n) -> Int] : Sums(f, D(n), it)}
<1>1. \A s \in SUBSET S : IsFiniteSet(s) /\ Cardinality(s) \in Nat /\ Cardinality(s) <= Cardinality(S)
  BY FS_Subset, FS_CardinalityType
<1>2. \A s \in SUBSET S : s # {} => /\ Picked(s) \in s
                                     /\ s \ {Picked(s)} \in SUBSET S
                                     /\ Cardinality(s \ {Picked(s)}) = Cardinality(s) - 1
  BY <1>1, FS_RemoveElement DEF Picked
<1>3. 0 \in T
  <2>1. \A s \in D(0) : s = {}
    BY <1>1, FS_EmptySet
  <2>2. [s \in D(0) |-> 0] \in [D(0) -> Int] /\ Sums(f, D(0), [s \in D(0) |-> 0])
    BY <2>1 DEF Sums
  <2> QED BY <2>2
<1>4. ASSUME NEW n \in Nat, n \in T
      PROVE  n + 1 \in T
  <2>1. PICK g \in [D(n) -> Int] : Sums(f, D(n), g)
    BY <1>4
  <2> DEFINE h == [s \in D(n + 1) |-> IF s = {} THEN 0 ELSE f[Picked(s)] + g[s \ {Picked(s)}]]
  <2>2. \A s \in D(n + 1) : s # {} => s \ {Picked(s)} \in D(n)
    BY <1>1, <1>2
  <2>3. D(n) \subseteq D(n + 1)
    BY <1>1
  <2>4. \A s \in D(n) : h[s] = g[s]
    BY <2>1, <2>3 DEF Sums
  <2>5. h \in [D(n + 1) -> Int]
    BY <1>2, <2>1, <2>2
  <2>6. Sums(f, D(n + 1), h)
    BY <2>2, <2>4 DEF Sums
  <2> HIDE DEF h
  <2>7. \E it \in [D(n + 1) -> Int] : Sums(f, D(n + 1), it)
    BY <2>5, <2>6
  <2> HIDE DEF D
  <2> QED BY <2>7
<1>5. Cardinality(S) \in T
  BY <1>3, <1>4, AllNaturals, FS_CardinalityType
<1>6. D(Cardinality(S)) = SUBSET S
  BY <1>1
<1> QED BY <1>5, <1>6

\* Whatever the domains, two such functions agree on the sets both have.
LEMMA SumsAgree ==
    ASSUME NEW S, IsFiniteSet(S), NEW A, NEW B, SUBSET S \subseteq A, SUBSET S \subseteq B,
           NEW f, NEW g, NEW h, Sums(f, A, g), Sums(f, B, h)
    PROVE  g[S] = h[S]
<1> DEFINE F == {s \in SUBSET S : g[s] # h[s]}
<1> SUFFICES ASSUME F # {} PROVE FALSE
  OBVIOUS
<1>1. PICK U \in F : \A V \in F : ~(V \subseteq U /\ V # U)
  <2>1. F \subseteq SUBSET S
    OBVIOUS
  <2> HIDE DEF F
  <2> QED BY <2>1, SmallestSet
<1>2. /\ g[U] = IF U = {} THEN 0 ELSE f[Picked(U)] + g[U \ {Picked(U)}]
      /\ h[U] = IF U = {} THEN 0 ELSE f[Picked(U)] + h[U \ {Picked(U)}]
  BY DEF Sums
<1>3. U # {} /\ Picked(U) \in U
  BY <1>1, <1>2 DEF Picked
<1>4. U \ {Picked(U)} \notin F
  BY <1>1, <1>3
<1>5. g[U \ {Picked(U)}] = h[U \ {Picked(U)}]
  BY <1>3, <1>4
<1> QED BY <1>1, <1>2, <1>5

\* A sum is an integer; taking out the element that CHOOSE picks takes
\* out its term.
LEMMA SumPicked ==
    ASSUME NEW S, IsFiniteSet(S), NEW f, \A x \in S : f[x] \in Int
    PROVE  /\ SumFunctionOnSet(f, S) \in Int
           /\ S # {} => SumFunctionOnSet(f, S) =
                          f[Picked(S)] + SumFunctionOnSet(f, S \ {Picked(S)})
<1> DEFINE It(U) == CHOOSE it : Sums(f, SUBSET U, it)
<1>1. ASSUME NEW U, U \subseteq S
      PROVE  Sums(f, SUBSET U, It(U)) /\ It(U)[U] \in Int
  <2>1. IsFiniteSet(U) /\ \A x \in U : f[x] \in Int
    BY <1>1, FS_Subset
  <2>2. PICK g \in [SUBSET U -> Int] : Sums(f, SUBSET U, g)
    BY <2>1, SumsExist
  <2>3. Sums(f, SUBSET U, It(U))
    BY <2>2
  <2>4. It(U)[U] = g[U]
    BY <2>1, <2>2, <2>3, SumsAgree
  <2> QED BY <2>2, <2>3, <2>4
<1>2. \A U : SumFunctionOnSet(f, U) = It(U)[U]
  BY SumUnfolds
<1>3. CASE S # {}
  <2> DEFINE V == S \ {Picked(S)}
  <2>1. V \subseteq S /\ IsFiniteSet(V)
    BY FS_Subset
  <2>2. Sums(f, SUBSET S, It(S)) /\ Sums(f, SUBSET V, It(V))
    BY <1>1, <2>1
  <2> HIDE DEF It
  <2> HIDE DEF V
  <2>4. It(S)[V] = It(V)[V]
    <3>1. SUBSET V \subseteq SUBSET S /\ SUBSET V \subseteq SUBSET V
      BY <2>1
    <3> QED BY <2>1, <2>2, <3>1, SumsAgree
  <2> USE DEF V
  <2>3. It(S)[S] = f[Picked(S)] + It(S)[V]
    BY <1>3, <2>2 DEF Sums
  <2> QED BY <1>1, <1>2, <2>3, <2>4
<1> QED BY <1>1, <1>2, <1>3

\* The sum over no element is 0.
THEOREM SumOfNone == ASSUME NEW f PROVE SumFunctionOnSet(f, {}) = 0
<1>1. PICK g \in [SUBSET {} -> Int] : Sums(f, SUBSET {}, g)
  BY SumsExist, FS_EmptySet
<1>2. Sums(f, SUBSET {}, CHOOSE it : Sums(f, SUBSET {}, it))
  BY <1>1
<1> QED BY <1>2, SumUnfolds DEF Sums

\* The sum of f over a finite set is that of the set without any one of its
\* elements plus the value of f there: the order of summation does not matter.
THEOREM SumTakesOut ==
    ASSUME NEW S, IsFiniteSet(S), NEW f, \A x \in S : f[x] \in Int, NEW x \in S
    PROVE  /\ SumFunctionOnSet(f, S) \in Int
           /\ SumFunctionOnSet(f, S \ {x}) \in Int
           /\ SumFunctionOnSet(f, S) = f[x] + SumFunctionOnSet(f, S \ {x})
<1> DEFINE Sum(U) == SumFunctionOnSet(f, U)
           F == {U \in SUBSET S : \E y \in U : Sum(U) # f[y] + Sum(U \ {y})}
<1>1. ASSUME NEW U, U \subseteq S
      PROVE  /\ Sum(U) \in Int
             /\ U # {} => Picked(U) \in U /\ Sum(U) = f[Picked(U)] + Sum(U \ {Picked(U)})
  <2>1. IsFiniteSet(U) /\ \A y \in U : f[y] \in Int
    BY <1>1, FS_Subset
  <2>2. U # {} => Picked(U) \in U
    BY DEF Picked
  <2> QED BY <2>1, <2>2, SumPicked
<1> HIDE DEF Sum
<1>2. CASE F # {}
  <2>1. PICK U \in F : \A V \in F : ~(V \subseteq U /\ V # U)
    <3>1. F \subseteq SUBSET S
      OBVIOUS
    <3> HIDE DEF F
    <3> QED BY <1>2, <3>1, SmallestSet
  <2>2. PICK y \in U : Sum(U) # f[y] + Sum(U \ {y})
    BY <2>1
  <2> DEFINE p == Picked(U)
  <2>3. p \in U /\ Sum(U) = f[p] + Sum(U \ {p})
    BY <1>1, <2>1, <2>2
  <2> HIDE DEF p
  <2>4. y # p
    BY <2>2, <2>3
  <2>5. U \ {p} \notin F /\ U \ {y} \notin F
    BY <2>1, <2>2, <2>3
  <2>6. Sum(U \ {p}) = f[y] + Sum((U \ {p}) \ {y})
    BY <2>1, <2>2, <2>4, <2>5
  <2>7. Sum(U \ {y}) = f[p] + Sum((U \ {y}) \ {p})
    BY <2>1, <2>3, <2>4, <2>5
  <2>8. (U \ {p}) \ {y} = (U \ {y}) \ {p}
    OBVIOUS
  <2>9. Sum((U \ {p}) \ {y}) \in Int /\ f[y] \in Int /\ f[p] \in Int
    BY <1>1, <2>1, <2>2, <2>3
  <2> DEFINE W == Sum((U \ {p}) \ {y})
  <2>11. \A a, b, w \in Int : a + (b + w) = b + (a + w)
    OBVIOUS
  <2>12. f[p] + (f[y] + W) = f[y] + (f[p] + W)
    BY <2>9, <2>11
  <2>10. Sum(U) = f[y] + Sum(U \ {y})
    BY <2>3, <2>6, <2>7, <2>8, <2>12
  <2> QED BY <2>2, <2>10
<1>3. CASE F = {}
  <2>1. Sum(S) = f[x] + Sum(S \ {x})
    BY <1>3
  <2> QED BY <1>1, <2>1 DEF Sum
<1> QED BY <1>2, <1>3

-----------------------------------------------------------------------------
(* Sums of one function and another.                                       *)

\* A family holds the finite set S if it holds the empty set and every subset
\* of S that it holds without one of its elements.
THEOREM AllSubsets ==
    ASSUME NEW S, IsFiniteSet(S), NEW F, {} \in F,
           \A U \in SUBSET S : (\E x \in U : U \ {x} \in F) => U \in F
    PROVE  S \in F
<1> DEFINE G == (SUBSET S) \ F
<1> SUFFICES ASSUME G # {} PROVE FALSE
  OBVIOUS
<1>1. PICK U \in G : \A V \in G : ~(V \subseteq U /\ V # U)
  <2>1. G \subseteq SUBSET S
    OBVIOUS
  <2> HIDE DEF G
  <2> QED BY <2>1, SmallestSet
<1>2. PICK x \in U : TRUE
  <2>1. U # {}
    BY <1>1
  <2> QED BY <2>1
<1>3. U \ {x} \notin G /\ U \ {x} \in SUBSET S
  BY <1>1, <1>2
<1> QED BY <1>1, <1>2, <1>3

\* Functions that agree on a finite set have the same sum over it.
THEOREM SumsOfSame ==
    ASSUME NEW S, IsFiniteSet(S), NEW f, NEW g, \A x \in S : f[x] \in Int /\ g[x] = f[x]
    PROVE  SumFunctionOnSet(g, S) = SumFunctionOnSet(f, S)
<1> DEFINE Same(U) == SumFunctionOnSet(g, U) = SumFunctionOnSet(f, U)
           F == {U \in SUBSET S : Same(U)}
<1>1. Same({})
  BY SumOfNone
<1>2. ASSUME NEW U \in SUBSET S, NEW x \in U, Same(U \ {x})
      PROVE  Same(U)
  <2>1. IsFiniteSet(U) /\ \A y \in U : f[y] \in Int /\ g[y] \in Int
    BY FS_Subset
  <2>2. /\ SumFunctionOnSet(f, U) = f[x] + SumFunctionOnSet(f, U \ {x})
        /\ SumFunctionOnSet(g, U) = g[x] + SumFunctionOnSet(g, U \ {x})
    BY <2>1, SumTakesOut
  <2> QED BY <1>2, <2>2
<1> HIDE DEF Same
<1>3. S \in F
  <2>1. {} \in F /\ \A U \in SUBSET S : (\E x \in U : U \ {x} \in F) => U \in F
    BY <1>1, <1>2
  <2> HIDE DEF F
  <2> QED BY <2>1, AllSubsets
<1> QED BY <1>3 DEF Same

\* A sum of naturals is a natural.
THEOREM SumOfNaturals ==
    ASSUME NEW S, IsFiniteSet(S), NEW f, \A x \in S : f[x] \in Nat
    PROVE  SumFunctionOnSet(f, S) \in Nat
<1> DEFINE Natural(U) == SumFunctionOnSet(f, U) \in Nat
           F == {U \in SUBSET S : Natural(U)}
<1>1. Natural({})
  BY SumOfNone
<1>2. ASSUME NEW U \in SUBSET S, NEW x \in U, Natural(U \ {x})
      PROVE  Natural(U)
  <2>1. IsFiniteSet(U) /\ \A y \in U : f[y] \in Int
    BY FS_Subset
  <2>2. SumFunctionOnSet(f, U) = f[x] + SumFunctionOnSet(f, U \ {x})
    BY <2>1, SumTakesOut
  <2> QED BY <1>2, <2>2
<1> HIDE DEF Natural
<1>3. S \in F
  <2>1. {} \in F /\ \A U \in SUBSET S : (\E x \in U : U \ {x} \in F) => U \in F
    BY <1>1, <1>2
  <2> HIDE DEF F
  <2> QED BY <2>1, AllSubsets
<1> QED BY <1>3 DEF Natural
=============================================================================
