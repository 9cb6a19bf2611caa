---------------------------- MODULE FiniteLemmas ----------------------------
(***************************************************************************)
(* Lemmas about finite sets that the proofs about several components need: *)
(* sums, extremes, ranks and initial segments.  The induction theorems of  *)
(* the library take an operator, which the provers cannot instantiate, so  *)
(* what holds of every finite set is proved from a smallest counterexample.*)
(***************************************************************************)
EXTENDS FiniteSetsExt, FiniteSetTheorems, TLAPS

\* A set of subsets of a finite set has a least one in it: what is false of
\* some finite set is false of one of whose strict subsets it is true.
LEMMA SmallestSubset ==
  ASSUME NEW S, IsFiniteSet(S), NEW Bad \in SUBSET SUBSET S, Bad # {}
  PROVE  \E T \in Bad : IsFiniteSet(T) /\ \A U \in Bad : U \subseteq T => U = T
<1>1. IsWellFoundedOn(StrictSubsetOrdering(S), FiniteSubsetsOf(S))
  BY FS_StrictSubsetOrderingWellFounded
<1>2. Bad \subseteq FiniteSubsetsOf(S)
  BY FS_FiniteSubsetsOfFinite
<1>3. PICK T \in Bad : \A U \in Bad : ~(<<U, T>> \in StrictSubsetOrdering(S))
  BY <1>1, <1>2, WFMin
<1>4. IsFiniteSet(T)
  BY FS_Subset
<1> QED BY <1>3, <1>4 DEF StrictSubsetOrdering

\* The same as a formula, for the provers that cannot instantiate a sequent
\* whose set has a type.
LEMMA SmallestInAny ==
  \A S, Bad : IsFiniteSet(S) /\ Bad # {} /\ (\A U \in Bad : U \subseteq S) =>
    \E T \in Bad : IsFiniteSet(T) /\ \A U \in Bad : U \subseteq T => U = T
<1> SUFFICES ASSUME NEW S, NEW Bad, IsFiniteSet(S), Bad # {}, \A U \in Bad : U \subseteq S
             PROVE  \E T \in Bad : IsFiniteSet(T) /\ \A U \in Bad : U \subseteq T => U = T
  OBVIOUS
<1>1. Bad \in SUBSET SUBSET S
  OBVIOUS
<1> QED BY <1>1, SmallestSubset

-----------------------------------------------------------------------------
\* The element the community module's sum takes next.
Pick(s) == CHOOSE x \in s : TRUE

\* h adds up f over the subsets of T, one element after the other.
Adds(h, f, T) ==
  h = [s \in SUBSET T |-> IF s = {} THEN 0 ELSE f[Pick(s)] + h[s \ {Pick(s)}]]

\* What is picked of a set is in it, unless the set is empty.
LEMMA PickIsIn == ASSUME NEW s, s # {} PROVE Pick(s) \in s
BY DEF Pick

\* One step of the recursion, at one subset.
LEMMA AddsSubset ==
  ASSUME NEW f, NEW T, NEW h, Adds(h, f, T), NEW s \in SUBSET T
  PROVE  h[s] = IF s = {} THEN 0 ELSE f[Pick(s)] + h[s \ {Pick(s)}]
<1> DEFINE body(x) == IF x = {} THEN 0 ELSE f[Pick(x)] + h[x \ {Pick(x)}]
<1>1. h = [x \in SUBSET T |-> body(x)]
  BY DEF Adds
<1> HIDE DEF body
<1>2. h[s] = body(s)
  BY <1>1
<1> QED BY <1>2 DEF body

\* Two functions that add up the same agree wherever both are defined.
LEMMA AddsAgree ==
  ASSUME NEW f, NEW S, IsFiniteSet(S), NEW T \in SUBSET S, NEW U \in SUBSET S,
         NEW g, Adds(g, f, T), NEW h, Adds(h, f, U), NEW s \in (SUBSET T) \cap (SUBSET U)
  PROVE  g[s] = h[s]
<1> DEFINE Bad == {x \in (SUBSET T) \cap (SUBSET U) : g[x] # h[x]}
<1> SUFFICES ASSUME Bad # {} PROVE FALSE
  OBVIOUS
<1>1. PICK x \in Bad : \A y \in Bad : y \subseteq x => y = x
  <2>1. Bad \in SUBSET SUBSET S
    OBVIOUS
  <2> HIDE DEF Bad
  <2> QED BY <2>1, SmallestSubset
<1>2. /\ g[x] = IF x = {} THEN 0 ELSE f[Pick(x)] + g[x \ {Pick(x)}]
      /\ h[x] = IF x = {} THEN 0 ELSE f[Pick(x)] + h[x \ {Pick(x)}]
  BY AddsSubset
<1>3. x # {}
  BY <1>2
<1>4. g[x \ {Pick(x)}] = h[x \ {Pick(x)}]
  BY <1>1, <1>3, PickIsIn
<1> QED BY <1>2, <1>3, <1>4

\* Over a finite set there is such a function.
LEMMA AddsExists ==
  ASSUME NEW f, NEW S, IsFiniteSet(S)
  PROVE  \E h : Adds(h, f, S)
<1> DEFINE Bad == {T \in SUBSET S : ~\E h : Adds(h, f, T)}
<1> SUFFICES ASSUME Bad # {} PROVE FALSE
  OBVIOUS
<1>1. PICK T \in Bad : \A U \in Bad : U \subseteq T => U = T
  <2>1. Bad \in SUBSET SUBSET S
    OBVIOUS
  <2> HIDE DEF Bad
  <2> QED BY <2>1, SmallestSubset
<1> DEFINE of(U) == CHOOSE h : Adds(h, f, U)
           less(s) == s \ {Pick(s)}
           value(s) == IF s = {} THEN 0 ELSE f[Pick(s)] + of(less(s))[less(s)]
           H == [s \in SUBSET T |-> value(s)]
<1>2. \A U \in SUBSET T : U # T => Adds(of(U), f, U)
  BY <1>1
<1>3. ASSUME NEW s \in SUBSET T, s # {}
      PROVE  H[less(s)] = of(less(s))[less(s)]
  <2> DEFINE r == less(s)
  <2>1. r \in SUBSET T /\ r # T /\ r \in SUBSET r
    BY <1>3, PickIsIn
  <2>2. Adds(of(r), f, r)
    BY <1>2, <2>1
  <2>3. of(r)[r] = IF r = {} THEN 0 ELSE f[Pick(r)] + of(r)[less(r)]
    <3> HIDE DEF of, r
    <3> QED BY <2>1, <2>2, AddsSubset
  <2>4. H[r] = value(r)
    BY <2>1
  <2>5. r # {} => of(less(r))[less(r)] = of(r)[less(r)]
    <3> SUFFICES ASSUME r # {} PROVE of(less(r))[less(r)] = of(r)[less(r)]
      OBVIOUS
    <3>1. /\ less(r) \in SUBSET T /\ less(r) # T /\ less(r) \in SUBSET r
          /\ less(r) \in SUBSET less(r)
      BY <2>1, PickIsIn
    <3>2. Adds(of(less(r)), f, less(r))
      BY <1>2, <3>1
    <3>3. /\ r \in SUBSET S /\ less(r) \in SUBSET S
          /\ less(r) \in (SUBSET less(r)) \cap (SUBSET r)
      BY <2>1, <3>1
    <3> DEFINE p == less(r)
               g == of(p)
               h == of(r)
    <3>4. Adds(g, f, p) /\ Adds(h, f, r)
      BY <2>2, <3>2
    <3>5. p \in SUBSET S /\ p \in (SUBSET p) \cap (SUBSET r)
      BY <3>3
    <3> HIDE DEF p, g, h, r
    <3>6. g[p] = h[p]
      BY <2>1, <3>3, <3>4, <3>5, AddsAgree
    <3> QED BY <3>6 DEF p, g, h
  <2> HIDE DEF of, less, H
  <2> QED BY <2>3, <2>4, <2>5
<1>4. Adds(H, f, T)
  <2>1. \A s \in SUBSET T : value(s) = IF s = {} THEN 0 ELSE f[Pick(s)] + H[s \ {Pick(s)}]
    <3> HIDE DEF H, of
    <3> QED BY <1>3
  <2>2. H = [s \in SUBSET T |-> IF s = {} THEN 0 ELSE f[Pick(s)] + H[s \ {Pick(s)}]]
    <3> DEFINE body(s) == IF s = {} THEN 0 ELSE f[Pick(s)] + H[s \ {Pick(s)}]
    <3>1. \A s \in SUBSET T : value(s) = body(s)
      BY <2>1
    <3>2. H = [s \in SUBSET T |-> value(s)]
      OBVIOUS
    <3> HIDE DEF value, body, H
    <3>3. H = [s \in SUBSET T |-> body(s)]
      BY <3>1, <3>2
    <3> QED BY <3>3 DEF body
  <2> HIDE DEF H
  <2> QED BY <2>2 DEF Adds
<1> QED BY <1>1, <1>4

\* The community module's sum is the value of such a function.
LEMMA SumIsChosen ==
  ASSUME NEW f, NEW S
  PROVE  SumFunctionOnSet(f, S) = (CHOOSE h : Adds(h, f, S))[S]
BY DEF SumFunctionOnSet, FoldFunctionOnSet, MapThenFoldSet, Adds, Pick

\* The sum is that of what is picked and of the rest.
LEMMA SumRecursion ==
  ASSUME NEW f, NEW S, IsFiniteSet(S)
  PROVE  SumFunctionOnSet(f, S) =
           IF S = {} THEN 0 ELSE f[Pick(S)] + SumFunctionOnSet(f, S \ {Pick(S)})
<1> DEFINE h == CHOOSE x : Adds(x, f, S)
           R == S \ {Pick(S)}
           g == CHOOSE x : Adds(x, f, R)
<1>1. Adds(h, f, S) /\ Adds(g, f, R)
  BY AddsExists, FS_Subset
<1>2. SumFunctionOnSet(f, S) = h[S] /\ SumFunctionOnSet(f, R) = g[R]
  BY SumIsChosen
<1>3. h[R] = g[R]
  <2>1. R \in SUBSET S /\ S \in SUBSET S /\ R \in (SUBSET S) \cap (SUBSET R)
    OBVIOUS
  <2> HIDE DEF h, g, R
  <2> QED BY <1>1, <2>1, AddsAgree
<1>4. h[S] = IF S = {} THEN 0 ELSE f[Pick(S)] + h[R]
  <2>1. S \in SUBSET S
    OBVIOUS
  <2> HIDE DEF h, g
  <2> QED BY <1>1, <2>1, AddsSubset
<1> HIDE DEF h, g
<1> QED BY <1>2, <1>3, <1>4

-----------------------------------------------------------------------------
\* A sum of integers is an integer.
LEMMA SumIsInt ==
  ASSUME NEW f, NEW S, IsFiniteSet(S), \A x \in S : f[x] \in Int
  PROVE  SumFunctionOnSet(f, S) \in Int
<1> DEFINE Bad == {U \in SUBSET S : SumFunctionOnSet(f, U) \notin Int}
<1> SUFFICES ASSUME Bad # {} PROVE FALSE
  <2>1. S \in SUBSET S
    OBVIOUS
  <2> QED BY <2>1
<1>1. PICK U \in Bad : IsFiniteSet(U) /\ \A V \in Bad : V \subseteq U => V = U
  <2>1. Bad \in SUBSET SUBSET S
    OBVIOUS
  <2> HIDE DEF Bad
  <2> QED BY <2>1, SmallestSubset
<1>2. SumFunctionOnSet(f, U) =
        IF U = {} THEN 0 ELSE f[Pick(U)] + SumFunctionOnSet(f, U \ {Pick(U)})
  BY <1>1, SumRecursion
<1>3. U # {}
  BY <1>2
<1>4. Pick(U) \in U
  BY <1>3, PickIsIn
<1>5. SumFunctionOnSet(f, U \ {Pick(U)}) \in Int
  BY <1>1, <1>4
<1>6. f[Pick(U)] \in Int
  BY <1>4
<1> QED BY <1>2, <1>3, <1>5, <1>6

\* A sum of naturals is a natural.
LEMMA SumIsNat ==
  ASSUME NEW f, NEW S, IsFiniteSet(S), \A x \in S : f[x] \in Nat
  PROVE  SumFunctionOnSet(f, S) \in Nat
<1> DEFINE Bad == {U \in SUBSET S : SumFunctionOnSet(f, U) \notin Nat}
<1> SUFFICES ASSUME Bad # {} PROVE FALSE
  <2>1. S \in SUBSET S
    OBVIOUS
  <2> QED BY <2>1
<1>1. PICK U \in Bad : IsFiniteSet(U) /\ \A V \in Bad : V \subseteq U => V = U
  <2>1. Bad \in SUBSET SUBSET S
    OBVIOUS
  <2> HIDE DEF Bad
  <2> QED BY <2>1, SmallestSubset
<1>2. SumFunctionOnSet(f, U) =
        IF U = {} THEN 0 ELSE f[Pick(U)] + SumFunctionOnSet(f, U \ {Pick(U)})
  BY <1>1, SumRecursion
<1>3. U # {}
  BY <1>2
<1>4. Pick(U) \in U
  BY <1>3, PickIsIn
<1>5. SumFunctionOnSet(f, U \ {Pick(U)}) \in Nat
  BY <1>1, <1>4
<1>6. f[Pick(U)] \in Nat
  BY <1>4
<1> QED BY <1>2, <1>3, <1>5, <1>6

\* Nothing adds up to zero.
LEMMA SumOfNone == ASSUME NEW f PROVE SumFunctionOnSet(f, {}) = 0
BY SumRecursion, FS_EmptySet

\* Any element may be taken out first.
LEMMA SumRemove ==
  ASSUME NEW f, NEW S, IsFiniteSet(S), \A x \in S : f[x] \in Int, NEW e \in S
  PROVE  SumFunctionOnSet(f, S) = f[e] + SumFunctionOnSet(f, S \ {e})
<1> DEFINE sum(U) == SumFunctionOnSet(f, U)
           Bad == {U \in SUBSET S : \E x \in U : sum(U) # f[x] + sum(U \ {x})}
<1> SUFFICES ASSUME Bad # {} PROVE FALSE
  <2>1. S \in SUBSET S
    OBVIOUS
  <2> QED BY <2>1
<1>1. PICK U \in Bad : IsFiniteSet(U) /\ \A V \in Bad : V \subseteq U => V = U
  <2>1. Bad \in SUBSET SUBSET S
    OBVIOUS
  <2> HIDE DEF Bad
  <2> QED BY <2>1, SmallestSubset
<1>2. PICK x \in U : sum(U) # f[x] + sum(U \ {x})
  BY <1>1
<1> DEFINE p == Pick(U)
<1>3. p \in U /\ sum(U) = f[p] + sum(U \ {p})
  BY <1>1, <1>2, PickIsIn, SumRecursion
<1>4. x # p
  BY <1>2, <1>3
<1>5. /\ sum(U \ {p}) = f[x] + sum((U \ {p}) \ {x})
      /\ sum(U \ {x}) = f[p] + sum((U \ {x}) \ {p})
  <2>1. U \ {p} \notin Bad /\ U \ {x} \notin Bad
    BY <1>1, <1>2, <1>3
  <2>2. U \ {p} \in SUBSET S /\ U \ {x} \in SUBSET S /\ x \in U \ {p} /\ p \in U \ {x}
    BY <1>2, <1>3, <1>4
  <2> HIDE DEF p, sum
  <2> QED BY <2>1, <2>2
<1>6. (U \ {p}) \ {x} = (U \ {x}) \ {p}
  OBVIOUS
<1>7. f[x] \in Int /\ f[p] \in Int /\ sum((U \ {p}) \ {x}) \in Int
  <2>1. IsFiniteSet((U \ {p}) \ {x}) /\ (U \ {p}) \ {x} \subseteq S
    BY <1>1, FS_Subset
  <2> QED BY <1>2, <1>3, <2>1, SumIsInt
<1> DEFINE both == sum((U \ {p}) \ {x})
<1>8. /\ sum(U) = f[p] + (f[x] + both) /\ sum(U \ {x}) = f[p] + both
      /\ f[x] \in Int /\ f[p] \in Int /\ both \in Int
  BY <1>3, <1>5, <1>6, <1>7
<1> HIDE DEF p, sum, both, Bad
<1> QED BY <1>2, <1>8

\* The sum over one element.
LEMMA SumOfOne ==
  ASSUME NEW f, NEW x, f[x] \in Int
  PROVE  SumFunctionOnSet(f, {x}) = f[x]
<1>1. IsFiniteSet({x})
  BY FS_Singleton
<1>2. SumFunctionOnSet(f, {x}) = f[x] + SumFunctionOnSet(f, {x} \ {x})
  BY <1>1, SumRemove
<1>3. {x} \ {x} = {}
  OBVIOUS
<1> QED BY <1>2, <1>3, SumOfNone

\* ... and one that was not there be added.
LEMMA SumAdd ==
  ASSUME NEW f, NEW S, IsFiniteSet(S), NEW e, e \notin S,
         \A x \in S \cup {e} : f[x] \in Int
  PROVE  SumFunctionOnSet(f, S \cup {e}) = f[e] + SumFunctionOnSet(f, S)
<1>1. IsFiniteSet(S \cup {e}) /\ (S \cup {e}) \ {e} = S /\ e \in S \cup {e}
  BY FS_AddElement
<1> QED BY <1>1, SumRemove

\* Sums of functions that agree are the same.
LEMMA SumSame ==
  ASSUME NEW f, NEW g, NEW S, IsFiniteSet(S), \A x \in S : f[x] = g[x]
  PROVE  SumFunctionOnSet(f, S) = SumFunctionOnSet(g, S)
<1> DEFINE Bad == {U \in SUBSET S : SumFunctionOnSet(f, U) # SumFunctionOnSet(g, U)}
<1> SUFFICES ASSUME Bad # {} PROVE FALSE
  <2>1. S \in SUBSET S
    OBVIOUS
  <2> QED BY <2>1
<1>1. PICK U \in Bad : IsFiniteSet(U) /\ \A V \in Bad : V \subseteq U => V = U
  <2>1. Bad \in SUBSET SUBSET S
    OBVIOUS
  <2> HIDE DEF Bad
  <2> QED BY <2>1, SmallestSubset
<1>2. /\ SumFunctionOnSet(f, U) =
           IF U = {} THEN 0 ELSE f[Pick(U)] + SumFunctionOnSet(f, U \ {Pick(U)})
      /\ SumFunctionOnSet(g, U) =
           IF U = {} THEN 0 ELSE g[Pick(U)] + SumFunctionOnSet(g, U \ {Pick(U)})
  BY <1>1, SumRecursion
<1>3. Pick(U) \in U
  BY <1>1, <1>2, PickIsIn
<1>4. SumFunctionOnSet(f, U \ {Pick(U)}) = SumFunctionOnSet(g, U \ {Pick(U)})
  BY <1>1, <1>3
<1> QED BY <1>1, <1>2, <1>3, <1>4

\* Sums add up point by point.
LEMMA SumPlus ==
  ASSUME NEW f, NEW g, NEW h, NEW S, IsFiniteSet(S),
         \A x \in S : f[x] \in Int /\ g[x] \in Int /\ h[x] = f[x] + g[x]
  PROVE  SumFunctionOnSet(h, S) = SumFunctionOnSet(f, S) + SumFunctionOnSet(g, S)
<1> DEFINE Bad == {U \in SUBSET S :
                     SumFunctionOnSet(h, U) # SumFunctionOnSet(f, U) + SumFunctionOnSet(g, U)}
<1> SUFFICES ASSUME Bad # {} PROVE FALSE
  <2>1. S \in SUBSET S
    OBVIOUS
  <2> QED BY <2>1
<1>1. PICK U \in Bad : IsFiniteSet(U) /\ \A V \in Bad : V \subseteq U => V = U
  <2>1. Bad \in SUBSET SUBSET S
    OBVIOUS
  <2> HIDE DEF Bad
  <2> QED BY <2>1, SmallestSubset
<1>2. U # {}
  <2>1. /\ SumFunctionOnSet(f, {}) = 0 /\ SumFunctionOnSet(g, {}) = 0
        /\ SumFunctionOnSet(h, {}) = 0
    BY SumOfNone
  <2>2. SumFunctionOnSet(h, U) # SumFunctionOnSet(f, U) + SumFunctionOnSet(g, U)
    BY <1>1
  <2> HIDE DEF Bad
  <2> QED BY <2>1, <2>2
<1>3. PICK e \in U : TRUE
  BY <1>2
<1>4. /\ SumFunctionOnSet(f, U) = f[e] + SumFunctionOnSet(f, U \ {e})
      /\ SumFunctionOnSet(g, U) = g[e] + SumFunctionOnSet(g, U \ {e})
      /\ SumFunctionOnSet(h, U) = h[e] + SumFunctionOnSet(h, U \ {e})
  <2>1. \A x \in U : f[x] \in Int /\ g[x] \in Int /\ h[x] \in Int
    OBVIOUS
  <2> QED BY <1>1, <1>3, <2>1, SumRemove
<1>5. IsFiniteSet(U \ {e})
  BY <1>1, FS_Subset
<1>6. /\ SumFunctionOnSet(f, U \ {e}) \in Int
      /\ SumFunctionOnSet(g, U \ {e}) \in Int
  BY <1>5, SumIsInt
<1>7. SumFunctionOnSet(h, U \ {e}) =
        SumFunctionOnSet(f, U \ {e}) + SumFunctionOnSet(g, U \ {e})
  BY <1>1, <1>3
<1> QED BY <1>1, <1>3, <1>4, <1>6, <1>7

\* A sum of larger terms is larger.
LEMMA SumMonotone ==
  ASSUME NEW f, NEW g, NEW S, IsFiniteSet(S),
         \A x \in S : f[x] \in Int /\ g[x] \in Int /\ f[x] <= g[x]
  PROVE  SumFunctionOnSet(f, S) <= SumFunctionOnSet(g, S)
<1> DEFINE d == [x \in S |-> g[x] - f[x]]
<1>1. /\ \A x \in S : d[x] \in Nat
      /\ \A x \in S : f[x] \in Int /\ d[x] \in Int /\ g[x] = f[x] + d[x]
  OBVIOUS
<1> HIDE DEF d
<1>2. SumFunctionOnSet(g, S) = SumFunctionOnSet(f, S) + SumFunctionOnSet(d, S)
  BY <1>1, SumPlus
<1>3. SumFunctionOnSet(f, S) \in Int /\ SumFunctionOnSet(d, S) \in Nat
  BY <1>1, SumIsInt, SumIsNat
<1> QED BY <1>2, <1>3

\* The sum over disjoint sets is that of their sums.
LEMMA SumOfUnion ==
  ASSUME NEW f, NEW S, NEW T, IsFiniteSet(S), IsFiniteSet(T), S \cap T = {},
         \A x \in S \cup T : f[x] \in Int
  PROVE  SumFunctionOnSet(f, S \cup T) = SumFunctionOnSet(f, S) + SumFunctionOnSet(f, T)
<1> DEFINE Bad == {U \in SUBSET T :
                     SumFunctionOnSet(f, S \cup U) # SumFunctionOnSet(f, S) + SumFunctionOnSet(f, U)}
<1> SUFFICES ASSUME Bad # {} PROVE FALSE
  <2>1. T \in SUBSET T
    OBVIOUS
  <2> QED BY <2>1
<1>1. PICK U \in Bad : IsFiniteSet(U) /\ \A V \in Bad : V \subseteq U => V = U
  <2>1. Bad \in SUBSET SUBSET T
    OBVIOUS
  <2> HIDE DEF Bad
  <2> QED BY <2>1, SmallestSubset
<1>2. SumFunctionOnSet(f, S) \in Int
  BY SumIsInt
<1>3. U # {}
  <2>1. (U = {} => S \cup U = S) /\ SumFunctionOnSet(f, {}) = 0
    BY SumOfNone
  <2>2. SumFunctionOnSet(f, S \cup U) # SumFunctionOnSet(f, S) + SumFunctionOnSet(f, U)
    BY <1>1
  <2> HIDE DEF Bad
  <2> QED BY <1>2, <2>1, <2>2
<1>4. PICK e \in U : TRUE
  BY <1>3
<1>5. IsFiniteSet(U \ {e}) /\ IsFiniteSet(S \cup U)
  BY <1>1, FS_Subset, FS_Union
<1>6. SumFunctionOnSet(f, U) = f[e] + SumFunctionOnSet(f, U \ {e})
  BY <1>1, <1>4, SumRemove
<1>7. SumFunctionOnSet(f, S \cup U) = f[e] + SumFunctionOnSet(f, (S \cup U) \ {e})
  <2>1. \A x \in S \cup U : f[x] \in Int
    OBVIOUS
  <2> QED BY <1>4, <1>5, <2>1, SumRemove
<1>8. (S \cup U) \ {e} = S \cup (U \ {e})
  BY <1>4
<1>9. SumFunctionOnSet(f, S \cup (U \ {e})) =
        SumFunctionOnSet(f, S) + SumFunctionOnSet(f, U \ {e})
  BY <1>1, <1>4
<1>10. SumFunctionOnSet(f, U \ {e}) \in Int /\ f[e] \in Int
  BY <1>4, <1>5, SumIsInt
<1> QED BY <1>1, <1>2, <1>6, <1>7, <1>8, <1>9, <1>10

\* Leaving out terms that are no less than zero makes no sum larger.
LEMMA SumOfSubset ==
  ASSUME NEW f, NEW S, IsFiniteSet(S), \A x \in S : f[x] \in Nat, NEW T \in SUBSET S
  PROVE  SumFunctionOnSet(f, T) <= SumFunctionOnSet(f, S)
<1>1. IsFiniteSet(T) /\ IsFiniteSet(S \ T) /\ T \cap (S \ T) = {} /\ T \cup (S \ T) = S
  BY FS_Subset
<1>2. SumFunctionOnSet(f, T) \in Nat /\ SumFunctionOnSet(f, S \ T) \in Nat
  BY <1>1, SumIsNat
<1>3. SumFunctionOnSet(f, S) = SumFunctionOnSet(f, T) + SumFunctionOnSet(f, S \ T)
  <2>1. \A x \in T \cup (S \ T) : f[x] \in Int
    OBVIOUS
  <2>2. SumFunctionOnSet(f, T \cup (S \ T)) =
          SumFunctionOnSet(f, T) + SumFunctionOnSet(f, S \ T)
    BY <1>1, <2>1, SumOfUnion
  <2> QED BY <1>1, <2>2
<1> QED BY <1>2, <1>3

\* Zeros add up to zero.
LEMMA SumOfZeros ==
  ASSUME NEW f, NEW S, IsFiniteSet(S), \A x \in S : f[x] = 0
  PROVE  SumFunctionOnSet(f, S) = 0
<1> DEFINE Bad == {U \in SUBSET S : SumFunctionOnSet(f, U) # 0}
<1> SUFFICES ASSUME Bad # {} PROVE FALSE
  <2>1. S \in SUBSET S
    OBVIOUS
  <2> QED BY <2>1
<1>1. PICK U \in Bad : IsFiniteSet(U) /\ \A V \in Bad : V \subseteq U => V = U
  <2>1. \A U \in Bad : U \subseteq S
    OBVIOUS
  <2> HIDE DEF Bad
  <2> QED BY <2>1, SmallestInAny
<1>2. SumFunctionOnSet(f, U) =
        IF U = {} THEN 0 ELSE f[Pick(U)] + SumFunctionOnSet(f, U \ {Pick(U)})
  BY <1>1, SumRecursion
<1>3. U # {}
  BY <1>1, <1>2
<1>4. Pick(U) \in U
  BY <1>3, PickIsIn
<1>5. SumFunctionOnSet(f, U \ {Pick(U)}) = 0
  BY <1>1, <1>4
<1> QED BY <1>1, <1>2, <1>3, <1>4, <1>5

\* A factor can be taken out.
LEMMA SumScaled ==
  ASSUME NEW f, NEW g, NEW S, IsFiniteSet(S), NEW k \in Int,
         \A x \in S : f[x] \in Int /\ g[x] = k * f[x]
  PROVE  SumFunctionOnSet(g, S) = k * SumFunctionOnSet(f, S)
<1> DEFINE Bad == {U \in SUBSET S : SumFunctionOnSet(g, U) # k * SumFunctionOnSet(f, U)}
<1> SUFFICES ASSUME Bad # {} PROVE FALSE
  <2>1. S \in SUBSET S
    OBVIOUS
  <2> QED BY <2>1
<1>1. PICK U \in Bad : IsFiniteSet(U) /\ \A V \in Bad : V \subseteq U => V = U
  <2>1. \A U \in Bad : U \subseteq S
    OBVIOUS
  <2> HIDE DEF Bad
  <2> QED BY <2>1, SmallestInAny
<1> DEFINE p    == Pick(U)
           sumf == SumFunctionOnSet(f, U \ {p})
           sumg == SumFunctionOnSet(g, U \ {p})
<1>2. /\ SumFunctionOnSet(f, U) = IF U = {} THEN 0 ELSE f[p] + sumf
      /\ SumFunctionOnSet(g, U) = IF U = {} THEN 0 ELSE g[p] + sumg
  BY <1>1, SumRecursion
<1>3. U # {}
  <2>1. k * 0 = 0
    OBVIOUS
  <2> QED BY <1>1, <1>2, <2>1
<1>4. p \in U
  BY <1>3, PickIsIn
<1>5. sumg = k * sumf
  BY <1>1, <1>4
<1>6. sumf \in Int
  <2>1. IsFiniteSet(U \ {p}) /\ \A x \in U \ {p} : f[x] \in Int
    BY <1>1, FS_Subset
  <2> HIDE DEF p
  <2> QED BY <2>1, SumIsInt
<1>7. f[p] \in Int /\ g[p] = k * f[p]
  BY <1>4
<1>8. SumFunctionOnSet(g, U) # k * SumFunctionOnSet(f, U)
  BY <1>1
<1>9. k * (f[p] + sumf) = k * f[p] + k * sumf
  BY <1>6, <1>7
<1> HIDE DEF p, sumf, sumg, Bad
<1> QED BY <1>2, <1>3, <1>5, <1>7, <1>8, <1>9

\* Parts that share no term but zeros add up to no more than the whole.
LEMMA SumOfParts ==
  ASSUME NEW f, NEW S, IsFiniteSet(S), \A x \in S : f[x] \in Nat,
         NEW I, IsFiniteSet(I), NEW W, \A i \in I : W[i] \subseteq S,
         \A i, j \in I : i # j => \A x \in W[i] \cap W[j] : f[x] = 0,
         NEW h, \A i \in I : h[i] = SumFunctionOnSet(f, W[i])
  PROVE  SumFunctionOnSet(h, I) <= SumFunctionOnSet(f, S)
<1> DEFINE all(J) == UNION {W[i] : i \in J}
           sum(V) == SumFunctionOnSet(f, V)
           Bad == {J \in SUBSET I : ~(SumFunctionOnSet(h, J) <= sum(all(J)))}
<1>a. \A V \in SUBSET S : IsFiniteSet(V) /\ sum(V) \in Nat
  <2> SUFFICES ASSUME NEW V \in SUBSET S PROVE IsFiniteSet(V) /\ sum(V) \in Nat
    OBVIOUS
  <2>1. IsFiniteSet(V) /\ \A x \in V : f[x] \in Nat
    BY FS_Subset
  <2> QED BY <2>1, SumIsNat
<1>b. \A J \in SUBSET I : all(J) \in SUBSET S
  OBVIOUS
<1>c. SUFFICES ASSUME Bad # {} PROVE FALSE
  <2>1. I \in SUBSET I
    OBVIOUS
  <2>2. SumFunctionOnSet(h, I) <= sum(all(I))
    BY <2>1
  <2>3. sum(all(I)) <= sum(S)
    BY <1>b, SumOfSubset
  <2>4. \A i \in I : h[i] \in Nat
    BY <1>a
  <2>5. SumFunctionOnSet(h, I) \in Nat
    BY <2>4, SumIsNat
  <2>6. sum(all(I)) \in Nat /\ sum(S) \in Nat
    BY <1>a, <1>b
  <2> HIDE DEF all
  <2> QED BY <2>2, <2>3, <2>5, <2>6
<1>1. PICK J \in Bad : IsFiniteSet(J) /\ \A V \in Bad : V \subseteq J => V = J
  <2>1. \A U \in Bad : U \subseteq I
    OBVIOUS
  <2> HIDE DEF Bad
  <2> QED BY <1>c, <2>1, SmallestInAny
<1>2. J # {}
  <2>1. all({}) = {}
    OBVIOUS
  <2>2. SumFunctionOnSet(h, {}) = 0 /\ sum({}) = 0
    BY SumOfNone
  <2>3. ~(SumFunctionOnSet(h, J) <= sum(all(J)))
    BY <1>1
  <2> HIDE DEF Bad, all, sum
  <2> QED BY <2>1, <2>2, <2>3
<1>3. PICK e \in J : TRUE
  BY <1>2
<1> DEFINE R == J \ {e}
           V == all(R)
<1>4. V \in SUBSET S /\ W[e] \in SUBSET S /\ all(J) = W[e] \cup V
  BY <1>3
<1>5. SumFunctionOnSet(h, J) = sum(W[e]) + SumFunctionOnSet(h, R)
  <2>1. \A i \in J : h[i] \in Int
    BY <1>a
  <2>2. SumFunctionOnSet(h, J) = h[e] + SumFunctionOnSet(h, J \ {e})
    BY <1>1, <1>3, <2>1, SumRemove
  <2> QED BY <1>3, <2>2
<1>6. SumFunctionOnSet(h, R) <= sum(V) /\ SumFunctionOnSet(h, R) \in Nat
  <2>1. R \in SUBSET I /\ R \notin Bad
    BY <1>1, <1>3
  <2>2. IsFiniteSet(R) /\ \A i \in R : h[i] \in Nat
    BY <1>1, <1>a, FS_Subset
  <2>3. SumFunctionOnSet(h, R) \in Nat
    <3> HIDE DEF R
    <3> QED BY <2>2, SumIsNat
  <2> QED BY <2>1, <2>3
<1>7. sum(V) = sum(V \ W[e])
  <2>1. (V \ W[e]) \cup (V \cap W[e]) = V /\ (V \ W[e]) \cap (V \cap W[e]) = {}
    OBVIOUS
  <2>2. \A x \in V \cap W[e] : f[x] = 0
    BY <1>3
  <2>3. /\ V \ W[e] \in SUBSET S /\ V \cap W[e] \in SUBSET S
    BY <1>4
  <2> DEFINE A == V \ W[e]
             B == V \cap W[e]
  <2>4. IsFiniteSet(A) /\ IsFiniteSet(B) /\ sum(A) \in Nat
    BY <2>3, <1>a
  <2>5. \A x \in A \cup B : f[x] \in Int
    BY <2>3
  <2>6. A \cup B = V /\ A \cap B = {} /\ \A x \in B : f[x] = 0
    BY <2>1, <2>2
  <2> HIDE DEF V, A, B
  <2>7. SumFunctionOnSet(f, A \cup B) = SumFunctionOnSet(f, A) + SumFunctionOnSet(f, B)
    BY <2>4, <2>5, <2>6, SumOfUnion
  <2>8. SumFunctionOnSet(f, B) = 0
    BY <2>4, <2>6, SumOfZeros
  <2>9. sum(V) = sum(A)
    <3>1. sum(V) = SumFunctionOnSet(f, A) + SumFunctionOnSet(f, B)
      BY <2>6, <2>7
    <3> QED BY <2>4, <2>8, <3>1
  <2> QED BY <2>9 DEF A
<1>8. sum(all(J)) = sum(W[e]) + sum(V \ W[e])
  <2> DEFINE A == W[e]
             B == V \ W[e]
  <2>1. A \cup B = all(J) /\ A \cap B = {} /\ A \in SUBSET S /\ B \in SUBSET S
    BY <1>4
  <2>2. IsFiniteSet(A) /\ IsFiniteSet(B) /\ \A x \in A \cup B : f[x] \in Int
    BY <2>1, <1>a
  <2> HIDE DEF A, B, all
  <2>3. SumFunctionOnSet(f, A \cup B) = SumFunctionOnSet(f, A) + SumFunctionOnSet(f, B)
    BY <2>1, <2>2, SumOfUnion
  <2>4. sum(all(J)) = sum(A) + sum(B)
    BY <2>1, <2>3
  <2> QED BY <2>4 DEF A, B
<1>9. sum(W[e]) \in Nat /\ sum(V) \in Nat /\ ~(SumFunctionOnSet(h, J) <= sum(all(J)))
  BY <1>a, <1>4, <1>1
<1> HIDE DEF all, sum, V, R, Bad
<1> QED BY <1>5, <1>6, <1>7, <1>8, <1>9

\* What stays of a division by a positive number is less than it.
LEMMA Division ==
  ASSUME NEW n \in Nat, NEW u \in Nat \ {0}
  PROVE  /\ n \div u \in Nat
         /\ u * (n \div u) <= n
         /\ \A q \in Nat : u * q <= n => q <= n \div u
<1>1. n \div u \in Nat /\ u * (n \div u) <= n /\ n < u * (n \div u) + u
  OBVIOUS
<1>2. ASSUME NEW q \in Nat, u * q <= n PROVE q <= n \div u
  <2> SUFFICES ASSUME q >= n \div u + 1 PROVE FALSE
    BY <1>1
  <2>1. u * q >= u * (n \div u + 1)
    BY <1>1
  <2>2. u * (n \div u + 1) = u * (n \div u) + u
    BY <1>1
  <2> QED BY <1>1, <1>2, <2>1, <2>2
<1> QED BY <1>1, <1>2

\* The only element of a set is its sum.
LEMMA SumSetOfOne ==
  ASSUME NEW x \in Int
  PROVE  SumSet({x}) = x
<1> DEFINE adds(h) == h = [s \in SUBSET {x} |-> IF s = {} THEN 0 ELSE Pick(s) + h[s \ {Pick(s)}]]
           h == CHOOSE g : adds(g)
<1>1. Pick({x}) = x
  BY DEF Pick
<1>2. adds([s \in SUBSET {x} |-> IF s = {} THEN 0 ELSE x])
  <2> DEFINE g == [s \in SUBSET {x} |-> IF s = {} THEN 0 ELSE x]
             step == [s \in SUBSET {x} |-> IF s = {} THEN 0 ELSE Pick(s) + g[s \ {Pick(s)}]]
  <2>1. \A s \in SUBSET {x} : s = {} \/ s = {x}
    OBVIOUS
  <2>2. {x} \ {x} = {} /\ {} \in SUBSET {x} /\ g[{}] = 0
    OBVIOUS
  <2>3. \A s \in SUBSET {x} : g[s] = step[s]
    <3> SUFFICES ASSUME NEW s \in SUBSET {x} PROVE g[s] = step[s]
      OBVIOUS
    <3>1. CASE s = {}
      BY <3>1
    <3>2. CASE s = {x}
      <4>1. Pick(s) = x /\ s \ {x} = {}
        BY <1>1, <3>2
      <4>2. g[s \ {Pick(s)}] = 0
        BY <2>2, <4>1
      <4>3. g[s] = x
        BY <3>2
      <4>4. step[s] = Pick(s) + g[s \ {Pick(s)}]
        BY <3>2
      <4> HIDE DEF g, step
      <4> QED BY <4>1, <4>2, <4>3, <4>4
    <3> QED BY <2>1, <3>1, <3>2
  <2>4. g = step
    BY <2>3
  <2> QED BY <2>4
<1>3. adds(h)
  BY <1>2
<1>4. SumSet({x}) = h[{x}]
  BY DEF SumSet, FoldSet, MapThenFoldSet, Pick
<1>5. \A s \in SUBSET {x} : h[s] = IF s = {} THEN 0 ELSE Pick(s) + h[s \ {Pick(s)}]
  <2> DEFINE value(s) == IF s = {} THEN 0 ELSE Pick(s) + h[s \ {Pick(s)}]
  <2>1. h = [s \in SUBSET {x} |-> value(s)]
    BY <1>3
  <2> HIDE DEF value, h
  <2>2. \A s \in SUBSET {x} : h[s] = value(s)
    BY <2>1
  <2> QED BY <2>2 DEF value
<1>6. {x} \in SUBSET {x} /\ {} \in SUBSET {x} /\ {x} \ {x} = {}
  OBVIOUS
<1> HIDE DEF h, adds
<1>7. h[{}] = 0 /\ h[{x}] = x + h[{}]
  BY <1>1, <1>5, <1>6
<1> QED BY <1>4, <1>7

\* The empty set sums to zero.
LEMMA SumSetOfNone == SumSet({}) = 0
<1> DEFINE adds(h) == h = [s \in SUBSET {} |-> IF s = {} THEN 0 ELSE Pick(s) + h[s \ {Pick(s)}]]
           h == CHOOSE g : adds(g)
<1>1. adds([s \in SUBSET {} |-> 0])
  <2> DEFINE g == [s \in SUBSET {} |-> 0]
             step == [s \in SUBSET {} |-> IF s = {} THEN 0 ELSE Pick(s) + g[s \ {Pick(s)}]]
  <2>1. \A s \in SUBSET {} : s = {}
    OBVIOUS
  <2>2. \A s \in SUBSET {} : g[s] = step[s]
    BY <2>1
  <2>3. g = step
    BY <2>2
  <2> QED BY <2>3
<1>2. adds(h)
  BY <1>1
<1>3. SumSet({}) = h[{}]
  BY DEF SumSet, FoldSet, MapThenFoldSet, Pick
<1>4. h[{}] = 0
  <2> DEFINE value(s) == IF s = {} THEN 0 ELSE Pick(s) + h[s \ {Pick(s)}]
  <2>1. h = [s \in SUBSET {} |-> value(s)] /\ {} \in SUBSET {} /\ value({}) = 0
    BY <1>2
  <2> HIDE DEF value, h
  <2> QED BY <2>1
<1> QED BY <1>3, <1>4

-----------------------------------------------------------------------------
\* A finite set of integers that is not empty has a greatest element.
LEMMA GreatestExists ==
  ASSUME NEW S \in SUBSET Int, IsFiniteSet(S), S # {}
  PROVE  \E m \in S : \A x \in S : x <= m
<1> DEFINE Bad == {U \in SUBSET S : U # {} /\ ~\E m \in U : \A x \in U : x <= m}
<1> SUFFICES ASSUME Bad # {} PROVE FALSE
  <2>1. S \in SUBSET S
    OBVIOUS
  <2> QED BY <2>1
<1>1. PICK U \in Bad : IsFiniteSet(U) /\ \A V \in Bad : V \subseteq U => V = U
  <2>1. \A U \in Bad : U \subseteq S
    OBVIOUS
  <2> HIDE DEF Bad
  <2> QED BY <2>1, SmallestInAny
<1>2. PICK e \in U : TRUE
  OBVIOUS
<1>3. U \ {e} # {}
  <2>1. U # {e}
    BY <1>1, <1>2
  <2> QED BY <1>2, <2>1
<1>4. PICK m \in U \ {e} : \A x \in U \ {e} : x <= m
  <2>1. U \ {e} \notin Bad
    BY <1>1, <1>2
  <2> QED BY <1>3, <2>1
<1>5. e \in Int /\ m \in Int /\ \A x \in U : x \in Int
  BY <1>2
<1>6. (\A x \in U : x <= m) \/ (\A x \in U : x <= e)
  BY <1>4, <1>5
<1> QED BY <1>2, <1>4, <1>6

\* ... and a least one.
LEMMA LeastExists ==
  ASSUME NEW S \in SUBSET Int, IsFiniteSet(S), S # {}
  PROVE  \E m \in S : \A x \in S : m <= x
<1> DEFINE Bad == {U \in SUBSET S : U # {} /\ ~\E m \in U : \A x \in U : m <= x}
<1> SUFFICES ASSUME Bad # {} PROVE FALSE
  <2>1. S \in SUBSET S
    OBVIOUS
  <2> QED BY <2>1
<1>1. PICK U \in Bad : IsFiniteSet(U) /\ \A V \in Bad : V \subseteq U => V = U
  <2>1. \A U \in Bad : U \subseteq S
    OBVIOUS
  <2> HIDE DEF Bad
  <2> QED BY <2>1, SmallestInAny
<1>2. PICK e \in U : TRUE
  OBVIOUS
<1>3. U \ {e} # {}
  <2>1. U # {e}
    BY <1>1, <1>2
  <2> QED BY <1>2, <2>1
<1>4. PICK m \in U \ {e} : \A x \in U \ {e} : m <= x
  <2>1. U \ {e} \notin Bad
    BY <1>1, <1>2
  <2> QED BY <1>3, <2>1
<1>5. e \in Int /\ m \in Int /\ \A x \in U : x \in Int
  BY <1>2
<1>6. (\A x \in U : m <= x) \/ (\A x \in U : e <= x)
  BY <1>4, <1>5
<1> QED BY <1>2, <1>4, <1>6

\* The operators of the community modules find them.
LEMMA MaxIsGreatest ==
  ASSUME NEW S \in SUBSET Int, IsFiniteSet(S), S # {}
  PROVE  Max(S) \in S /\ \A x \in S : x <= Max(S)
<1>1. \E m \in S : \A x \in S : m >= x
  BY GreatestExists
<1> QED BY <1>1 DEF Max

\* The minimum of a finite set of integers is its least element.
LEMMA MinIsLeast ==
  ASSUME NEW S \in SUBSET Int, IsFiniteSet(S), S # {}
  PROVE  Min(S) \in S /\ \A x \in S : Min(S) <= x
BY LeastExists DEF Min

\* The greater and the smaller of two numbers.
LEMMA OfTwo ==
  ASSUME NEW a \in Int, NEW b \in Int
  PROVE  /\ Max({a, b}) = IF a <= b THEN b ELSE a
         /\ Min({a, b}) = IF a <= b THEN a ELSE b
<1> DEFINE S == {a, b}
<1>1. S \in SUBSET Int /\ S # {} /\ IsFiniteSet(S)
  <2>1. IsFiniteSet({a}) /\ S = {a} \cup {b}
    BY FS_Singleton
  <2> QED BY <2>1, FS_AddElement
<1> HIDE DEF S
<1>2. /\ Max(S) \in S /\ \A x \in S : x <= Max(S)
      /\ Min(S) \in S /\ \A x \in S : Min(S) <= x
  BY <1>1, MaxIsGreatest, MinIsLeast
<1> QED BY <1>2 DEF S

-----------------------------------------------------------------------------
\* Positions that go down to the first are those up to their number.
LEMMA InitialSegment ==
  ASSUME NEW n \in Nat, NEW A \in SUBSET (1..n),
         \A i \in A, j \in 1..n : j <= i => j \in A
  PROVE  /\ Cardinality(A) \in 0..n
         /\ A = 1..Cardinality(A)
<1>1. IsFiniteSet(A) /\ A \in SUBSET Int
  <2>1. IsFiniteSet(1..n) /\ A \in SUBSET (1..n)
    BY FS_Interval
  <2>2. IsFiniteSet(A)
    BY <2>1, FS_Subset
  <2> QED BY <2>2
<1>2. CASE A = {}
  BY <1>2, FS_EmptySet
<1>3. CASE A # {}
  <2>1. PICK m \in A : \A x \in A : x <= m
    BY <1>1, <1>3, GreatestExists
  <2>2. A = 1..m
    <3>1. m \in 1..n /\ \A x \in A : x \in 1..m
      BY <2>1
    <3>2. \A x \in 1..m : x \in 1..n /\ x <= m
      BY <3>1
    <3> QED BY <2>1, <3>1, <3>2
  <2>3. Cardinality(1..m) = m
    BY <2>1, FS_Interval
  <2> QED BY <2>1, <2>2, <2>3
<1> QED BY <1>2, <1>3

\* What never falls from one position to the next never falls.
LEMMA Rising ==
  ASSUME NEW n \in Nat, NEW f, \A i \in 1..n : f[i] \in Int,
         \A i \in 1..(n - 1) : f[i] <= f[i + 1],
         NEW a \in 1..n, NEW b \in 1..n, a <= b
  PROVE  f[a] <= f[b]
<1> DEFINE Bad == {k \in a..n : ~(f[a] <= f[k])}
<1> SUFFICES ASSUME Bad # {} PROVE FALSE
  OBVIOUS
<1>1. Bad \in SUBSET Int /\ IsFiniteSet(Bad)
  <2>1. IsFiniteSet(a..n) /\ Bad \in SUBSET (a..n)
    BY FS_Interval
  <2>2. IsFiniteSet(Bad)
    BY <2>1, FS_Subset
  <2> QED BY <2>2
<1>2. PICK k \in Bad : \A x \in Bad : k <= x
  BY <1>1, LeastExists
<1>3. k # a
  BY <1>2
<1>4. k - 1 \in a..n /\ k - 1 \in 1..(n - 1) /\ (k - 1) + 1 = k
  BY <1>2, <1>3
<1>5. f[a] <= f[k - 1]
  BY <1>2, <1>4
<1>6. f[k - 1] <= f[k]
  BY <1>4
<1>7. f[a] \in Int /\ f[k - 1] \in Int /\ f[k] \in Int /\ ~(f[a] <= f[k])
  BY <1>2, <1>4
<1> QED BY <1>5, <1>6, <1>7

\* In a finite set of integers there is one of every rank.
LEMMA RankExists ==
  ASSUME NEW S \in SUBSET Int, IsFiniteSet(S), NEW n \in Nat, n < Cardinality(S)
  PROVE  \E d \in S : Cardinality({e \in S : e < d}) = n
<1> DEFINE Ranked(U, d) == {e \in U : e < d}
           Bad == {U \in SUBSET S : n < Cardinality(U)
                                      /\ ~\E d \in U : Cardinality(Ranked(U, d)) = n}
<1> SUFFICES ASSUME Bad # {} PROVE FALSE
  <2>1. S \in SUBSET S
    OBVIOUS
  <2> QED BY <2>1
<1>1. PICK U \in Bad : IsFiniteSet(U) /\ \A V \in Bad : V \subseteq U => V = U
  <2>1. \A U \in Bad : U \subseteq S
    OBVIOUS
  <2> HIDE DEF Bad
  <2> QED BY <2>1, SmallestInAny
<1>2. Cardinality(U) \in Nat /\ n < Cardinality(U) /\ U # {}
  BY <1>1, FS_CardinalityType, FS_EmptySet
<1>3. PICK m \in U : \A x \in U : x <= m
  BY <1>1, <1>2, GreatestExists
<1> DEFINE R == U \ {m}
<1>4. Cardinality(R) = Cardinality(U) - 1
  BY <1>1, FS_RemoveElement
<1>5. Ranked(U, m) = R
  <2>1. \A x \in U : x \in Int
    OBVIOUS
  <2>2. \A x \in U : x < m <=> x # m
    BY <1>3, <2>1
  <2> QED BY <2>2
<1>6. n # Cardinality(R)
  BY <1>3, <1>5
<1>7. n < Cardinality(R)
  <2> HIDE DEF R, Bad
  <2> QED BY <1>2, <1>4, <1>6
<1>8. PICK d \in R : Cardinality(Ranked(R, d)) = n
  <2>1. R \in SUBSET S /\ R \notin Bad
    BY <1>1, <1>3
  <2> QED BY <1>7, <2>1
<1>9. Ranked(U, d) = Ranked(R, d)
  BY <1>3, <1>8
<1> QED BY <1>8, <1>9

-----------------------------------------------------------------------------
\* The sum of the first k is that of one less, and the k-th.
LEMMA SumUpTo ==
  \A k \in Nat \ {0} : \A f : (\A i \in 1..k : f[i] \in Int) =>
    SumFunctionOnSet(f, 1..k) = f[k] + SumFunctionOnSet(f, 1..(k - 1))
<1> SUFFICES ASSUME NEW k \in Nat \ {0}, NEW f, \A i \in 1..k : f[i] \in Int
             PROVE  SumFunctionOnSet(f, 1..k) = f[k] + SumFunctionOnSet(f, 1..(k - 1))
  OBVIOUS
<1>1. 1..k = (1..(k - 1)) \cup {k} /\ k \notin 1..(k - 1)
  OBVIOUS
<1>2. IsFiniteSet(1..(k - 1))
  BY FS_Interval
<1>3. \A x \in (1..(k - 1)) \cup {k} : f[x] \in Int
  BY <1>1
<1>4. SumFunctionOnSet(f, (1..(k - 1)) \cup {k}) = f[k] + SumFunctionOnSet(f, 1..(k - 1))
  BY <1>1, <1>2, <1>3, SumAdd
<1> QED BY <1>1, <1>4

\* It is a natural number when they all are.
LEMMA SumUpToIsNat ==
  \A k \in Nat : \A f : (\A i \in 1..k : f[i] \in Nat) => SumFunctionOnSet(f, 1..k) \in Nat
<1> SUFFICES ASSUME NEW k \in Nat, NEW f, \A i \in 1..k : f[i] \in Nat
             PROVE  SumFunctionOnSet(f, 1..k) \in Nat
  OBVIOUS
<1>1. IsFiniteSet(1..k)
  BY FS_Interval
<1> QED BY <1>1, SumIsNat

\* The sum of differences is the difference of the ends.
LEMMA Telescopes ==
  \A n \in Nat : \A f, g :
    /\ \A i \in 0..n : g[i] \in Int
    /\ \A i \in 1..n : f[i] = g[i] - g[i - 1]
    => SumFunctionOnSet(f, 1..n) = g[n] - g[0]
<1> SUFFICES ASSUME NEW n \in Nat, NEW f, NEW g, \A i \in 0..n : g[i] \in Int,
                    \A i \in 1..n : f[i] = g[i] - g[i - 1]
             PROVE  SumFunctionOnSet(f, 1..n) = g[n] - g[0]
  OBVIOUS
<1> DEFINE Bad == {k \in 0..n : SumFunctionOnSet(f, 1..k) # g[k] - g[0]}
<1> SUFFICES ASSUME Bad # {} PROVE FALSE
  OBVIOUS
<1>1. Bad \in SUBSET Int /\ IsFiniteSet(Bad)
  <2>1. IsFiniteSet(0..n) /\ Bad \in SUBSET (0..n)
    BY FS_Interval
  <2>2. IsFiniteSet(Bad)
    BY <2>1, FS_Subset
  <2> QED BY <2>2
<1>2. PICK k \in Bad : \A x \in Bad : k <= x
  BY <1>1, LeastExists
<1>3. k \in 0..n /\ SumFunctionOnSet(f, 1..k) # g[k] - g[0]
  OBVIOUS
<1>4. k # 0
  <2>1. 1..0 = {} /\ g[0] \in Int
    OBVIOUS
  <2> QED BY <1>3, <2>1, SumOfNone
<1>5. k - 1 \in 0..n /\ k - 1 \notin Bad
  BY <1>2, <1>3, <1>4
<1>6. SumFunctionOnSet(f, 1..(k - 1)) = g[k - 1] - g[0]
  BY <1>5
<1> HIDE DEF Bad
<1>7. k \in Nat \ {0} /\ \A i \in 1..k : f[i] \in Int
  <2>1. k \in Nat \ {0} /\ \A i \in 1..k : i \in 1..n /\ i - 1 \in 0..n /\ i \in 0..n
    BY <1>3, <1>4
  <2> QED BY <2>1
<1>8. SumFunctionOnSet(f, 1..k) = f[k] + SumFunctionOnSet(f, 1..(k - 1))
  BY <1>7, SumUpTo
<1>9. f[k] = g[k] - g[k - 1] /\ g[k] \in Int /\ g[k - 1] \in Int /\ g[0] \in Int
  BY <1>3, <1>4, <1>5
<1> QED BY <1>3, <1>6, <1>8, <1>9

\* As many times the same.
LEMMA SumOfConstant ==
  ASSUME NEW n \in Nat, NEW c \in Int, NEW f, \A i \in 1..n : f[i] = c
  PROVE  SumFunctionOnSet(f, 1..n) = c * n
<1> DEFINE g == [i \in 0..n |-> c * i]
<1>1. \A i \in 0..n : g[i] \in Int
  OBVIOUS
<1>2. \A i \in 1..n : f[i] = g[i] - g[i - 1]
  <2> SUFFICES ASSUME NEW i \in 1..n PROVE c = g[i] - g[i - 1]
    OBVIOUS
  <2>1. g[i] = c * i /\ g[i - 1] = c * (i - 1)
    OBVIOUS
  <2>2. c * i - c * (i - 1) = c
    OBVIOUS
  <2> QED BY <2>1, <2>2
<1>3. g[n] = c * n /\ g[0] = 0 /\ c * n \in Int
  OBVIOUS
<1> HIDE DEF g
<1>4. SumFunctionOnSet(f, 1..n) = g[n] - g[0]
  BY <1>1, <1>2, Telescopes
<1> QED BY <1>3, <1>4

-----------------------------------------------------------------------------
\* The places of any finite part of a sequence can be sorted by what they hold.
LEMMA SortedPart ==
  ASSUME NEW s, NEW D \in SUBSET Int, IsFiniteSet(D), \A i \in D : s[i] \in Int
  PROVE  \E p \in Bijection(1..Cardinality(D), D) :
           \A i, j \in 1..Cardinality(D) : i < j => s[p[i]] <= s[p[j]]
<1> DEFINE Sorts(p, T) == /\ p \in Bijection(1..Cardinality(T), T)
                          /\ \A i, j \in 1..Cardinality(T) : i < j => s[p[i]] <= s[p[j]]
           Bad == {T \in SUBSET D : ~\E p : Sorts(p, T)}
<1> SUFFICES ASSUME Bad # {} PROVE FALSE
  <2>1. D \notin Bad => \E p : Sorts(p, D)
    OBVIOUS
  <2> QED BY <2>1
<1>1. PICK T \in Bad : IsFiniteSet(T) /\ \A V \in Bad : V \subseteq T => V = T
  <2>1. \A T \in Bad : T \subseteq D
    OBVIOUS
  <2> HIDE DEF Bad
  <2> QED BY <2>1, SmallestInAny
<1>2. T # {}
  <2> SUFFICES ASSUME T = {} PROVE \E p : Sorts(p, T)
    BY <1>1
  <2>1. Cardinality(T) = 0 /\ 1..0 = {}
    BY FS_EmptySet
  <2>2. [i \in {} |-> 0] \in Bijection({}, {})
    BY DEF Bijection, Injection, Surjection, IsInjective
  <2> QED BY <2>1, <2>2
<1> DEFINE Values == {s[i] : i \in T}
<1>3. Values \in SUBSET Int /\ IsFiniteSet(Values) /\ Values # {}
  <2>1. \A i \in T : s[i] \in Int
    OBVIOUS
  <2>2. IsFiniteSet(Values)
    <3> DEFINE held == [i \in T |-> s[i]]
    <3>1. held \in Surjection(T, Values)
      BY DEF Surjection
    <3> HIDE DEF held, Values
    <3> QED BY <1>1, <3>1, FS_Surjection
  <2> QED BY <1>2, <2>1, <2>2
<1>4. PICK v \in Values : \A x \in Values : x <= v
  <2> HIDE DEF Values
  <2> QED BY <1>3, GreatestExists
<1>5. PICK m \in T : s[m] = v
  OBVIOUS
<1>6. \A i \in T : s[i] <= s[m]
  BY <1>4, <1>5
<1> DEFINE R == T \ {m}
           c == Cardinality(R)
<1>7. IsFiniteSet(R) /\ c \in Nat /\ Cardinality(T) = c + 1
  <2>1. IsFiniteSet(R) /\ c = Cardinality(T) - 1
    BY <1>1, FS_RemoveElement
  <2>2. Cardinality(R) \in Nat /\ Cardinality(T) \in Nat
    BY <1>1, <2>1, FS_CardinalityType
  <2> QED BY <2>1, <2>2
<1>8. PICK q : Sorts(q, R)
  <2>1. R \in SUBSET D /\ R \notin Bad
    BY <1>1, <1>5
  <2> QED BY <2>1
<1>9. /\ q \in [1..c -> R]
      /\ \A i, j \in 1..c : q[i] = q[j] => i = j
      /\ \A x \in R : \E i \in 1..c : q[i] = x
      /\ \A i, j \in 1..c : i < j => s[q[i]] <= s[q[j]]
  BY <1>8 DEF Bijection, Injection, Surjection, IsInjective
<1> HIDE DEF c
<1> DEFINE p == [i \in 1..(c + 1) |-> IF i = c + 1 THEN m ELSE q[i]]
<1>10. \A i \in 1..(c + 1) : i # c + 1 => i \in 1..c
  BY <1>7
<1>11. p \in [1..(c + 1) -> T]
  BY <1>5, <1>9, <1>10
<1>12. \A i, j \in 1..(c + 1) : p[i] = p[j] => i = j
  BY <1>9, <1>10
<1>13. \A x \in T : \E i \in 1..(c + 1) : p[i] = x
  <2> SUFFICES ASSUME NEW x \in T PROVE \E i \in 1..(c + 1) : p[i] = x
    OBVIOUS
  <2>1. CASE x = m
    <3>1. c + 1 \in 1..(c + 1) /\ p[c + 1] = x
      BY <1>7, <2>1
    <3> QED BY <3>1
  <2>2. CASE x # m
    <3>1. PICK i \in 1..c : q[i] = x
      BY <1>9, <2>2
    <3>2. i \in 1..(c + 1) /\ p[i] = x
      BY <1>7, <3>1
    <3> QED BY <3>2
  <2> QED BY <2>1, <2>2
<1>14. p \in Bijection(1..(c + 1), T)
  <2>1. DOMAIN p = 1..(c + 1)
    OBVIOUS
  <2> HIDE DEF p
  <2> QED BY <1>11, <1>12, <1>13, <2>1 DEF Bijection, Injection, Surjection, IsInjective
<1>15. \A i, j \in 1..(c + 1) : i < j => s[p[i]] <= s[p[j]]
  <2> SUFFICES ASSUME NEW i \in 1..(c + 1), NEW j \in 1..(c + 1), i < j
               PROVE  s[p[i]] <= s[p[j]]
    OBVIOUS
  <2>1. i \in 1..c /\ p[i] = q[i] /\ q[i] \in T
    BY <1>7, <1>9
  <2>2. CASE j = c + 1
    BY <1>6, <2>1, <2>2
  <2>3. CASE j # c + 1
    BY <1>9, <1>10, <2>1, <2>3
  <2> QED BY <2>2, <2>3
<1>16. Sorts(p, T)
  <2> HIDE DEF p
  <2> QED BY <1>7, <1>14, <1>15 DEF c
<1> QED BY <1>1, <1>16
=============================================================================
