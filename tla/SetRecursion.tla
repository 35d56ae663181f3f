---------------------------- MODULE SetRecursion ----------------------------
(* Functions defined by recursion on a finite set: the form the community      *)
(* modules' folds and sums have.                                               *)
EXTENDS Integers, Functions, FiniteSetTheorems, WellFoundedInduction, TLAPS

\* f is the function that pick, step and base define by recursion on the subsets
\* of D.
RecursiveOn(D, pick, step, base, f) ==
    f = [s \in SUBSET D |-> IF s = {} THEN base
                            ELSE step[<<pick[s], f[s \ {pick[s]}]>>]]

Picks(D, pick) == \A s \in SUBSET D : s # {} => pick[s] \in s

-----------------------------------------------------------------------------
\* The least relation that contains what the recursion derives.
ClosedUnder(D, V, pick, step, base, Z) ==
    /\ Z \subseteq (SUBSET D) \X V
    /\ <<{}, base>> \in Z
    /\ \A s \in SUBSET D, v \in V :
          s # {} /\ <<s \ {pick[s]}, v>> \in Z => <<s, step[<<pick[s], v>>]>> \in Z

Derived(D, V, pick, step, base) ==
    {p \in (SUBSET D) \X V :
        \A Z \in SUBSET ((SUBSET D) \X V) : ClosedUnder(D, V, pick, step, base, Z) => p \in Z}

\* Of a non-empty collection of subsets of a finite set, one has no proper subset
\* in it.
LEMMA LeastSubset ==
    ASSUME NEW D, IsFiniteSet(D), NEW C, C \subseteq SUBSET D, C # {}
    PROVE  \E s \in C : \A t \in C : ~ (t \subseteq s /\ t # s)
  <1>1. IsWellFoundedOn(StrictSubsetOrdering(D), FiniteSubsetsOf(D))
    BY FS_StrictSubsetOrderingWellFounded
  <1>2. FiniteSubsetsOf(D) = SUBSET D
    BY FS_FiniteSubsetsOfFinite
  <1>3. PICK s \in C : \A t \in C : <<t, s>> \notin StrictSubsetOrdering(D)
    BY <1>1, <1>2, WFMin
  <1>4. ASSUME NEW t \in C, t \subseteq s, t # s PROVE FALSE
    <2>1. t \in SUBSET D /\ s \in SUBSET D
      OBVIOUS
    <2>2. QED
      BY <1>3, <1>4, <2>1 DEF StrictSubsetOrdering
  <1>5. QED
    BY <1>4

\* The hypotheses of the recursion, named once.
Recursion(D, V, pick, step, base) ==
    /\ IsFiniteSet(D)
    /\ Picks(D, pick)
    /\ base \in V
    /\ \A x \in D, v \in V : step[<<x, v>>] \in V

LEMMA DerivedIsClosed ==
    ASSUME NEW D, NEW V, NEW pick, NEW step, NEW base, Recursion(D, V, pick, step, base)
    PROVE  ClosedUnder(D, V, pick, step, base, Derived(D, V, pick, step, base))
  <1> DEFINE U == (SUBSET D) \X V
             R == Derived(D, V, pick, step, base)
  <1>1. R \subseteq U
    BY DEF Derived
  <1>2. <<{}, base>> \in R
    BY DEF Derived, ClosedUnder, Recursion
  <1>3. ASSUME NEW s \in SUBSET D, NEW v \in V, s # {}, <<s \ {pick[s]}, v>> \in R
        PROVE  <<s, step[<<pick[s], v>>]>> \in R
    <2>1. pick[s] \in D
      BY <1>3 DEF Recursion, Picks
    <2>2. <<s, step[<<pick[s], v>>]>> \in U
      BY <2>1 DEF Recursion
    <2>3. ASSUME NEW Z \in SUBSET U, ClosedUnder(D, V, pick, step, base, Z)
          PROVE  <<s, step[<<pick[s], v>>]>> \in Z
      <3>1. <<s \ {pick[s]}, v>> \in Z
        BY <1>3, <2>3 DEF Derived
      <3>2. QED
        BY <1>3, <2>3, <3>1 DEF ClosedUnder
    <2>4. QED
      BY <2>2, <2>3 DEF Derived
  <1>4. QED
    BY <1>1, <1>2, <1>3 DEF ClosedUnder

LEMMA DerivedIsLeast ==
    ASSUME NEW D, NEW V, NEW pick, NEW step, NEW base, NEW Z,
           ClosedUnder(D, V, pick, step, base, Z)
    PROVE  Derived(D, V, pick, step, base) \subseteq Z
  BY DEF Derived, ClosedUnder

\* Every subset gets one value.
LEMMA DerivedIsTotal ==
    ASSUME NEW D, NEW V, NEW pick, NEW step, NEW base, Recursion(D, V, pick, step, base),
           NEW a \in SUBSET D
    PROVE  \E v \in V : <<a, v>> \in Derived(D, V, pick, step, base)
  <1> DEFINE R == Derived(D, V, pick, step, base)
             C == {s \in SUBSET D : ~ \E v \in V : <<s, v>> \in R}
  <1>1. SUFFICES ASSUME a \in C PROVE FALSE
    OBVIOUS
  <1>2. ClosedUnder(D, V, pick, step, base, R)
    BY DerivedIsClosed
  <1>3. IsFiniteSet(D) /\ base \in V /\ Picks(D, pick)
    BY DEF Recursion
  <1>4. PICK s \in C : \A t \in C : ~ (t \subseteq s /\ t # s)
    <2>1. C \subseteq SUBSET D /\ C # {}
      BY <1>1
    <2> HIDE DEF C
    <2>2. QED
      BY <1>3, <2>1, LeastSubset
  <1> HIDE DEF R
  <1>5. s # {}
    BY <1>2, <1>3 DEF ClosedUnder
  <1>6. s \ {pick[s]} \in SUBSET D /\ s \ {pick[s]} \subseteq s /\ s \ {pick[s]} # s
    BY <1>3, <1>5 DEF Picks
  <1>7. PICK v \in V : <<s \ {pick[s]}, v>> \in R
    BY <1>4, <1>6
  <1>8. <<s, step[<<pick[s], v>>]>> \in R
    BY <1>2, <1>5, <1>7 DEF ClosedUnder
  <1>9. R \subseteq (SUBSET D) \X V
    BY <1>2 DEF ClosedUnder
  <1>10. QED
    BY <1>8, <1>9

LEMMA DerivedIsSingle ==
    ASSUME NEW D, NEW V, NEW pick, NEW step, NEW base, Recursion(D, V, pick, step, base),
           NEW a \in SUBSET D, NEW p \in V, NEW q \in V,
           <<a, p>> \in Derived(D, V, pick, step, base),
           <<a, q>> \in Derived(D, V, pick, step, base)
    PROVE  p = q
  <1> DEFINE R == Derived(D, V, pick, step, base)
             C == {s \in SUBSET D : \E v, w \in V : v # w /\ <<s, v>> \in R /\ <<s, w>> \in R}
  <1>1. SUFFICES ASSUME a \in C PROVE FALSE
    OBVIOUS
  <1>2. ClosedUnder(D, V, pick, step, base, R)
    BY DerivedIsClosed
  <1>3. IsFiniteSet(D) /\ base \in V /\ Picks(D, pick)
    BY DEF Recursion
  <1>4. PICK s \in C : \A t \in C : ~ (t \subseteq s /\ t # s)
    <2>1. C \subseteq SUBSET D /\ C # {}
      BY <1>1
    <2> HIDE DEF C
    <2>2. QED
      BY <1>3, <2>1, LeastSubset
  <1>5. PICK v, w \in V : v # w /\ <<s, v>> \in R /\ <<s, w>> \in R
    OBVIOUS
  <1>6. \A Z : ClosedUnder(D, V, pick, step, base, Z) => R \subseteq Z
    BY DerivedIsLeast
  <1>7. CASE s = {}
    <2>1. PICK z \in V : z # base /\ <<s, z>> \in R
      BY <1>5
    <2> DEFINE Z == R \ {<<s, z>>}
    <2>2. ClosedUnder(D, V, pick, step, base, Z)
      <3> HIDE DEF R
      <3>1. Z \subseteq (SUBSET D) \X V
        BY <1>2 DEF ClosedUnder
      <3>2. <<{}, base>> \in Z
        BY <1>2, <2>1 DEF ClosedUnder
      <3>3. ASSUME NEW t \in SUBSET D, NEW x \in V, t # {}, <<t \ {pick[t]}, x>> \in Z
            PROVE  <<t, step[<<pick[t], x>>]>> \in Z
        BY <1>2, <1>7, <3>3 DEF ClosedUnder
      <3>4. QED
        BY <3>1, <3>2, <3>3 DEF ClosedUnder
    <2> HIDE DEF R
    <2>3. QED
      BY <1>6, <2>1, <2>2
  <1>8. CASE s # {}
    <2> DEFINE rest == s \ {pick[s]}
    <2>1. rest \in SUBSET D /\ rest \subseteq s /\ rest # s
      BY <1>3, <1>8 DEF Picks
    <2>2. PICK u \in V : <<rest, u>> \in R
      <3> HIDE DEF rest
      <3>1. QED
        BY <2>1, DerivedIsTotal
    <2>3. \A x \in V : <<rest, x>> \in R => x = u
      BY <1>4, <2>1, <2>2
    <2>4. PICK z \in V : z # step[<<pick[s], u>>] /\ <<s, z>> \in R
      BY <1>5
    <2> DEFINE Z == R \ {<<s, z>>}
    <2>5. ClosedUnder(D, V, pick, step, base, Z)
      <3> HIDE DEF R
      <3>1. Z \subseteq (SUBSET D) \X V
        BY <1>2 DEF ClosedUnder
      <3>2. <<{}, base>> \in Z
        BY <1>2, <1>8 DEF ClosedUnder
      <3>3. ASSUME NEW t \in SUBSET D, NEW x \in V, t # {}, <<t \ {pick[t]}, x>> \in Z
            PROVE  <<t, step[<<pick[t], x>>]>> \in Z
        <4>1. <<t, step[<<pick[t], x>>]>> \in R
          BY <1>2, <3>3 DEF ClosedUnder
        <4>2. t = s => x = u
          BY <2>3, <3>3
        <4>3. QED
          BY <2>4, <4>1, <4>2
      <3>4. QED
        BY <3>1, <3>2, <3>3 DEF ClosedUnder
    <2> HIDE DEF R
    <2>6. QED
      BY <1>6, <2>4, <2>5
  <1>9. QED
    BY <1>7, <1>8

\* A recursion on the subsets of a finite set defines a function: what a sum over
\* days, rows or sources computes is what its recursion says.
THEOREM RecursionDefines ==
    ASSUME NEW D, NEW V, NEW pick, NEW step, NEW base, Recursion(D, V, pick, step, base)
    PROVE  \E f \in [SUBSET D -> V] : RecursiveOn(D, pick, step, base, f)
  <1> DEFINE R == Derived(D, V, pick, step, base)
             f == [s \in SUBSET D |-> CHOOSE v \in V : <<s, v>> \in R]
  <1>1. ASSUME NEW s \in SUBSET D PROVE f[s] \in V /\ <<s, f[s]>> \in R
    BY DerivedIsTotal
  <1>2. ASSUME NEW s \in SUBSET D, NEW v \in V, <<s, v>> \in R PROVE f[s] = v
    <2>1. f[s] \in V /\ <<s, f[s]>> \in R
      BY <1>1
    <2> HIDE DEF f
    <2>2. QED
      BY <1>2, <2>1, DerivedIsSingle
  <1>3. ClosedUnder(D, V, pick, step, base, R)
    BY DerivedIsClosed
  <1>4. f \in [SUBSET D -> V]
    BY <1>1
  <1> HIDE DEF R
  <1>5. ASSUME NEW s \in SUBSET D
        PROVE  f[s] = IF s = {} THEN base ELSE step[<<pick[s], f[s \ {pick[s]}]>>]
    <2>1. CASE s = {}
      BY <1>2, <1>3, <2>1 DEF ClosedUnder, Recursion
    <2>2. CASE s # {}
      <3>1. s \ {pick[s]} \in SUBSET D /\ pick[s] \in D
        BY <2>2 DEF Recursion, Picks
      <3>2. f[s \ {pick[s]}] \in V /\ <<s \ {pick[s]}, f[s \ {pick[s]}]>> \in R
        BY <1>1, <3>1
      <3> HIDE DEF f
      <3>3. step[<<pick[s], f[s \ {pick[s]}]>>] \in V
        BY <3>1, <3>2 DEF Recursion
      <3>4. <<s, step[<<pick[s], f[s \ {pick[s]}]>>]>> \in R
        BY <1>3, <2>2, <3>2 DEF ClosedUnder
      <3>5. QED
        BY <1>2, <2>2, <3>3, <3>4
    <2>3. QED
      BY <2>1, <2>2
  <1> DEFINE g == [s \in SUBSET D |-> IF s = {} THEN base
                                      ELSE step[<<pick[s], f[s \ {pick[s]}]>>]]
  <1>6. f = g
    <2>1. ASSUME NEW s \in SUBSET D PROVE f[s] = g[s]
      <3> HIDE DEF f
      <3>1. g[s] = IF s = {} THEN base ELSE step[<<pick[s], f[s \ {pick[s]}]>>]
        OBVIOUS
      <3> HIDE DEF g
      <3>2. QED
        BY <1>5, <3>1
    <2>2. f = [s \in SUBSET D |-> f[s]]
      <3>1. f \in [SUBSET D -> V]
        BY <1>4
      <3> HIDE DEF f
      <3>2. QED
        BY <3>1
    <2>3. g = [s \in SUBSET D |-> g[s]]
      <3>1. g \in [SUBSET D -> {g[s] : s \in SUBSET D}]
        OBVIOUS
      <3> HIDE DEF g
      <3>2. QED
        BY <3>1
    <2> HIDE DEF f, g
    <2>4. [s \in SUBSET D |-> f[s]] = [s \in SUBSET D |-> g[s]]
      BY <2>1
    <2>5. QED
      BY <2>2, <2>3, <2>4
  <1>7. RecursiveOn(D, pick, step, base, f)
    BY <1>6 DEF RecursiveOn
  <1>8. QED
    BY <1>4, <1>7

-----------------------------------------------------------------------------
(* Sums over finite sets. *)

Some(s) == CHOOSE x \in s : TRUE

\* sum is the function that adds up f over the subsets of D.
Sums(D, f, sum) ==
    sum = [s \in SUBSET D |-> IF s = {} THEN 0 ELSE f[Some(s)] + sum[s \ {Some(s)}]]

LEMMA SumsExist ==
    ASSUME NEW D, IsFiniteSet(D), NEW f, \A x \in D : f[x] \in Int
    PROVE  \E sum \in [SUBSET D -> Int] : Sums(D, f, sum)
  <1> DEFINE pick == [s \in SUBSET D |-> Some(s)]
             step == [p \in D \X Int |-> f[p[1]] + p[2]]
  <1>1. Picks(D, pick)
    BY DEF Picks, Some
  <1>2. \A x \in D, v \in Int : step[<<x, v>>] = f[x] + v
    OBVIOUS
  <1>3. \A s \in SUBSET D : pick[s] = Some(s)
    OBVIOUS
  <1> HIDE DEF pick, step
  <1>4. Recursion(D, Int, pick, step, 0)
    BY <1>1, <1>2 DEF Recursion
  <1>5. PICK sum \in [SUBSET D -> Int] : RecursiveOn(D, pick, step, 0, sum)
    BY <1>4, RecursionDefines
  <1>6. ASSUME NEW s \in SUBSET D, s # {}
        PROVE  step[<<pick[s], sum[s \ {pick[s]}]>>] = f[Some(s)] + sum[s \ {Some(s)}]
    <2>1. pick[s] \in D /\ s \ {pick[s]} \in SUBSET D
      BY <1>1, <1>6 DEF Picks
    <2>2. sum[s \ {pick[s]}] \in Int
      BY <2>1
    <2>3. QED
      BY <1>2, <1>3, <2>1, <2>2
  <1>7. [s \in SUBSET D |-> IF s = {} THEN 0 ELSE step[<<pick[s], sum[s \ {pick[s]}]>>]]
         = [s \in SUBSET D |-> IF s = {} THEN 0 ELSE f[Some(s)] + sum[s \ {Some(s)}]]
    BY <1>6
  <1>8. QED
    BY <1>5, <1>7 DEF RecursiveOn, Sums

LEMMA SumIsSums ==
    ASSUME NEW D, IsFiniteSet(D), NEW f, \A x \in D : f[x] \in Int
    PROVE  \E sum : Sums(D, f, sum) /\ SumFunctionOnSet(f, D) = sum[D]
  <1> DEFINE Body(g) == [s \in SUBSET D |-> IF s = {} THEN 0 ELSE f[Some(s)] + g[s \ {Some(s)}]]
  <1>1. SumFunctionOnSet(f, D) = (CHOOSE g : g = Body(g))[D]
    BY DEF SumFunctionOnSet, FoldFunctionOnSet, MapThenFoldSet, Some
  <1>2. PICK g \in [SUBSET D -> Int] : Sums(D, f, g)
    BY SumsExist
  <1>3. g = Body(g)
    BY <1>2 DEF Sums
  <1> HIDE DEF Body
  <1>4. (CHOOSE h : h = Body(h)) = Body(CHOOSE h : h = Body(h))
    BY <1>3
  <1>5. Sums(D, f, CHOOSE h : h = Body(h))
    BY <1>4 DEF Sums, Body
  <1>6. QED
    BY <1>1, <1>5

\* Adding up has one result, which only the elements of the set decide.
LEMMA SumsUnique ==
    ASSUME NEW D, IsFiniteSet(D), NEW f, NEW E \in SUBSET D, NEW g,
           \A x \in E : f[x] = g[x],
           NEW a, NEW b, Sums(D, f, a), Sums(E, g, b)
    PROVE  \A s \in SUBSET E : a[s] = b[s]
  <1> DEFINE C == {s \in SUBSET E : a[s] # b[s]}
  <1>1. SUFFICES ASSUME C # {} PROVE FALSE
    OBVIOUS
  <1>2. IsFiniteSet(E) /\ C \subseteq SUBSET E
    BY FS_Subset
  <1>3. PICK s \in C : \A t \in C : ~ (t \subseteq s /\ t # s)
    <2> HIDE DEF C
    <2>1. QED
      BY <1>1, <1>2, LeastSubset
  <1>4. s \in SUBSET E /\ s \in SUBSET D /\ a[s] # b[s]
    OBVIOUS
  <1>5. a[s] = IF s = {} THEN 0 ELSE f[Some(s)] + a[s \ {Some(s)}]
    BY <1>4 DEF Sums
  <1>6. b[s] = IF s = {} THEN 0 ELSE g[Some(s)] + b[s \ {Some(s)}]
    BY <1>4 DEF Sums
  <1>7. s # {}
    BY <1>4, <1>5, <1>6
  <1>8. Some(s) \in s
    BY <1>7 DEF Some
  <1>9. s \ {Some(s)} \notin C
    BY <1>3, <1>8
  <1>10. a[s \ {Some(s)}] = b[s \ {Some(s)}]
    BY <1>4, <1>9
  <1>11. f[Some(s)] = g[Some(s)]
    BY <1>4, <1>8
  <1>12. QED
    BY <1>4, <1>5, <1>6, <1>10, <1>11

LEMMA SumOfSubset ==
    ASSUME NEW D, IsFiniteSet(D), NEW f, \A x \in D : f[x] \in Int,
           NEW sum, Sums(D, f, sum), NEW E \in SUBSET D
    PROVE  SumFunctionOnSet(f, E) = sum[E]
  <1>1. IsFiniteSet(E)
    BY FS_Subset
  <1>2. PICK b : Sums(E, f, b) /\ SumFunctionOnSet(f, E) = b[E]
    BY <1>1, SumIsSums
  <1>3. sum[E] = b[E]
    BY <1>2, SumsUnique
  <1>4. QED
    BY <1>2, <1>3

\* The equation of the sum.
LEMMA SumUnfolds ==
    ASSUME NEW D, IsFiniteSet(D), NEW f, \A x \in D : f[x] \in Int
    PROVE  /\ SumFunctionOnSet(f, D) \in Int
           /\ D = {} => SumFunctionOnSet(f, D) = 0
           /\ D # {} => /\ Some(D) \in D
                        /\ SumFunctionOnSet(f, D)
                             = f[Some(D)] + SumFunctionOnSet(f, D \ {Some(D)})
  <1>1. PICK sum \in [SUBSET D -> Int] : Sums(D, f, sum)
    BY SumsExist
  <1>2. \A E \in SUBSET D : SumFunctionOnSet(f, E) = sum[E]
    BY <1>1, SumOfSubset
  <1>3. sum[D] = IF D = {} THEN 0 ELSE f[Some(D)] + sum[D \ {Some(D)}]
    BY <1>1 DEF Sums
  <1>4. D \ {Some(D)} \in SUBSET D /\ D \in SUBSET D
    OBVIOUS
  <1>5. D # {} => Some(D) \in D
    BY DEF Some
  <1>6. QED
    BY <1>1, <1>2, <1>3, <1>4, <1>5

LEMMA SumIsInt ==
    ASSUME NEW D, IsFiniteSet(D), NEW f, \A x \in D : f[x] \in Int
    PROVE  SumFunctionOnSet(f, D) \in Int
  BY SumUnfolds

LEMMA SumOfEmpty ==
    ASSUME NEW f
    PROVE  SumFunctionOnSet(f, {}) = 0
  BY FS_EmptySet, SumUnfolds

\* Two functions that agree on a set have the same sum over it.
LEMMA SumCongruence ==
    ASSUME NEW D, IsFiniteSet(D), NEW f, NEW g,
           \A x \in D : f[x] \in Int, \A x \in D : f[x] = g[x]
    PROVE  SumFunctionOnSet(f, D) = SumFunctionOnSet(g, D)
  <1>1. PICK a : Sums(D, f, a) /\ SumFunctionOnSet(f, D) = a[D]
    BY SumIsSums
  <1>2. \A x \in D : g[x] \in Int
    OBVIOUS
  <1>3. PICK b : Sums(D, g, b) /\ SumFunctionOnSet(g, D) = b[D]
    BY <1>2, SumIsSums
  <1>4. a[D] = b[D]
    BY <1>1, <1>3, SumsUnique
  <1>5. QED
    BY <1>1, <1>3, <1>4

\* Any element can be taken out of a sum.
LEMMA SumTakesOut ==
    ASSUME NEW D, IsFiniteSet(D), NEW f, \A x \in D : f[x] \in Int, NEW d \in D
    PROVE  SumFunctionOnSet(f, D) = f[d] + SumFunctionOnSet(f, D \ {d})
  <1> DEFINE S(E) == SumFunctionOnSet(f, E)
             C == {E \in SUBSET D : \E x \in E : S(E) # f[x] + S(E \ {x})}
  <1>1. SUFFICES ASSUME D \in C PROVE FALSE
    OBVIOUS
  <1>2. PICK E \in C : \A t \in C : ~ (t \subseteq E /\ t # E)
    <2>1. C \subseteq SUBSET D /\ C # {}
      BY <1>1
    <2> HIDE DEF C
    <2>2. QED
      BY <2>1, LeastSubset
  <1>3. PICK x \in E : S(E) # f[x] + S(E \ {x})
    OBVIOUS
  <1>4. \A F \in SUBSET D : IsFiniteSet(F)
    BY FS_Subset
  <1>5. \A F \in SUBSET D : /\ S(F) \in Int
                            /\ F # {} => Some(F) \in F /\ S(F) = f[Some(F)] + S(F \ {Some(F)})
    BY <1>4, SumUnfolds
  <1> DEFINE y == Some(E)
  <1>6. E \in SUBSET D /\ E # {} /\ y \in E
    BY <1>5
  <1> HIDE DEF S
  <1>7. x # y
    BY <1>3, <1>5, <1>6
  <1>8. E \ {y} \notin C /\ E \ {x} \notin C /\ E \ {y} \in SUBSET D /\ E \ {x} \in SUBSET D
    BY <1>2, <1>6
  <1> HIDE DEF y
  <1>9. x \in E \ {y} /\ y \in E \ {x}
    BY <1>6, <1>7
  <1>10. S(E \ {y}) = f[x] + S((E \ {y}) \ {x})
    BY <1>8, <1>9
  <1>11. S(E \ {x}) = f[y] + S((E \ {x}) \ {y})
    BY <1>8, <1>9
  <1>12. (E \ {y}) \ {x} = (E \ {x}) \ {y}
    OBVIOUS
  <1>13. S(E) = f[y] + S(E \ {y})
    BY <1>5, <1>6 DEF y
  <1>14. f[x] \in Int /\ f[y] \in Int /\ S((E \ {y}) \ {x}) \in Int
    BY <1>5, <1>6
  <1>15. S(E) = f[x] + S(E \ {x})
    <2>1. PICK r \in Int : r = S((E \ {y}) \ {x}) /\ r = S((E \ {x}) \ {y})
      BY <1>12, <1>14
    <2>2. S(E \ {y}) = f[x] + r /\ S(E \ {x}) = f[y] + r
      BY <1>10, <1>11, <2>1
    <2>3. S(E) = f[y] + (f[x] + r)
      BY <1>13, <2>2
    <2>4. f[y] + (f[x] + r) = f[x] + (f[y] + r)
      BY <1>14
    <2>5. QED
      BY <2>2, <2>3, <2>4
  <1>16. QED
    BY <1>3, <1>15

\* A set without negative terms adds up to at least any part of it.
LEMMA SumIsMonotonic ==
    ASSUME NEW D, IsFiniteSet(D), NEW f, \A x \in D : f[x] \in Nat, NEW E \in SUBSET D
    PROVE  /\ SumFunctionOnSet(f, D) \in Nat
           /\ SumFunctionOnSet(f, E) \in Nat
           /\ SumFunctionOnSet(f, E) <= SumFunctionOnSet(f, D)
  <1> DEFINE S(F) == SumFunctionOnSet(f, F)
             C == {F \in SUBSET D : ~ (/\ S(F) \in Nat
                                       /\ \A G \in SUBSET F : S(G) \in Nat /\ S(G) <= S(F))}
  <1>1. SUFFICES ASSUME D \in C PROVE FALSE
    OBVIOUS
  <1>2. PICK F \in C : \A t \in C : ~ (t \subseteq F /\ t # F)
    <2>1. C \subseteq SUBSET D /\ C # {}
      BY <1>1
    <2> HIDE DEF C
    <2>2. QED
      BY <2>1, LeastSubset
  <1>3. \A G \in SUBSET D : IsFiniteSet(G)
    BY FS_Subset
  <1>4. S({}) = 0
    BY SumOfEmpty
  <1>5. ASSUME NEW G \in SUBSET D, NEW x \in G PROVE S(G) = f[x] + S(G \ {x})
    BY <1>3, SumTakesOut
  <1> HIDE DEF S
  <1>6. F # {}
    BY <1>4
  <1>7. ASSUME NEW x \in F
        PROVE  S(F \ {x}) \in Nat /\ \A G \in SUBSET (F \ {x}) : S(G) \in Nat /\ S(G) <= S(F \ {x})
    BY <1>2
  <1>8. ASSUME NEW x \in F PROVE S(F) \in Nat /\ S(F \ {x}) <= S(F)
    <2>1. PICK r \in Nat : r = S(F \ {x})
      BY <1>7, <1>8
    <2>2. F \in SUBSET D /\ x \in D
      OBVIOUS
    <2>3. PICK v \in Nat : v = f[x]
      BY <2>2
    <2>4. S(F) = v + r
      BY <1>5, <1>8, <2>1, <2>2, <2>3
    <2>5. QED
      BY <2>1, <2>4
  <1>9. S(F) \in Nat
    BY <1>6, <1>8
  <1>10. ASSUME NEW G \in SUBSET F PROVE S(G) \in Nat /\ S(G) <= S(F)
    <2>1. CASE G = F
      BY <1>9, <2>1
    <2>2. CASE G # F
      <3>1. PICK x \in F : x \notin G
        BY <2>2
      <3>2. G \in SUBSET (F \ {x})
        BY <3>1
      <3>3. S(G) \in Nat /\ S(G) <= S(F \ {x}) /\ S(F \ {x}) \in Nat
        BY <1>7, <3>2
      <3>4. QED
        BY <1>8, <3>3
    <2>3. QED
      BY <2>1, <2>2
  <1>11. QED
    BY <1>9, <1>10

\* Zeros add nothing.
LEMMA SumOverSupport ==
    ASSUME NEW D, IsFiniteSet(D), NEW f, \A x \in D : f[x] \in Int,
           NEW E \in SUBSET D, \A x \in D : x \notin E => f[x] = 0
    PROVE  SumFunctionOnSet(f, D) = SumFunctionOnSet(f, E)
  <1> DEFINE S(F) == SumFunctionOnSet(f, F)
             C == {F \in SUBSET D : E \subseteq F /\ S(F) # S(E)}
  <1>1. SUFFICES ASSUME D \in C PROVE FALSE
    OBVIOUS
  <1>2. PICK F \in C : \A t \in C : ~ (t \subseteq F /\ t # F)
    <2>1. C \subseteq SUBSET D /\ C # {}
      BY <1>1
    <2> HIDE DEF C
    <2>2. QED
      BY <2>1, LeastSubset
  <1>3. \A G \in SUBSET D : IsFiniteSet(G) /\ S(G) \in Int
    <2>1. ASSUME NEW G \in SUBSET D PROVE IsFiniteSet(G)
      BY FS_Subset
    <2>2. QED
      BY <2>1, SumIsInt
  <1>4. ASSUME NEW G \in SUBSET D, NEW x \in G PROVE S(G) = f[x] + S(G \ {x})
    BY <1>3, SumTakesOut
  <1> HIDE DEF S
  <1>5. F \in SUBSET D /\ E \subseteq F /\ S(F) # S(E)
    OBVIOUS
  <1>6. PICK x \in F : x \notin E
    BY <1>5
  <1>7. S(F \ {x}) = S(E)
    <2>1. F \ {x} \in SUBSET D /\ E \subseteq F \ {x} /\ F \ {x} # F
      BY <1>5, <1>6
    <2>2. QED
      BY <1>2, <2>1
  <1>8. f[x] = 0
    BY <1>5, <1>6
  <1>9. PICK r \in Int : r = S(E)
    BY <1>3
  <1>10. S(F) = 0 + r
    BY <1>4, <1>5, <1>7, <1>8, <1>9
  <1>11. QED
    BY <1>5, <1>9, <1>10

\* Parts that have nothing in common, what they hold together, and their sizes.
Apart(Z, part) == \A y, z \in Z : y # z => part[y] \intersect part[z] = {}

AllOf(Z, part) == UNION {part[z] : z \in Z}

SizesOf(Z, part) == [z \in Z |-> Cardinality(part[z])]

\* The sizes of sets that have nothing in common add up to the size of their union.
LEMMA SizesAddUp ==
    ASSUME NEW Z, IsFiniteSet(Z), NEW part, \A z \in Z : IsFiniteSet(part[z]),
           Apart(Z, part)
    PROVE  /\ IsFiniteSet(AllOf(Z, part))
           /\ SumFunctionOnSet(SizesOf(Z, part), Z) = Cardinality(AllOf(Z, part))
  <1> USE DEF Apart, AllOf, SizesOf
  <1> DEFINE f == [z \in Z |-> Cardinality(part[z])]
             S(E) == SumFunctionOnSet(f, E)
             all(E) == UNION {part[z] : z \in E}
             C == {E \in SUBSET Z : ~ (IsFiniteSet(all(E)) /\ S(E) = Cardinality(all(E)))}
  <1>1. SUFFICES ASSUME Z \in C PROVE FALSE
    OBVIOUS
  <1>2. PICK E \in C : \A t \in C : ~ (t \subseteq E /\ t # E)
    <2>1. C \subseteq SUBSET Z /\ C # {}
      BY <1>1
    <2> HIDE DEF C
    <2>2. QED
      BY <2>1, LeastSubset
  <1>3. \A z \in Z : f[z] = Cardinality(part[z]) /\ f[z] \in Nat
    BY FS_CardinalityType
  <1>4. ASSUME NEW z \in E PROVE S(E) = f[z] + S(E \ {z})
    <2>1. E \in SUBSET Z
      OBVIOUS
    <2>2. IsFiniteSet(E) /\ \A x \in E : f[x] \in Int
      BY <1>3, <2>1, FS_Subset
    <2> HIDE DEF f
    <2>3. QED
      BY <2>2, SumTakesOut
  <1>5. S({}) = 0
    BY SumOfEmpty
  <1> HIDE DEF f, S
  <1>6. E \in SUBSET Z /\ ~ (IsFiniteSet(all(E)) /\ S(E) = Cardinality(all(E)))
    OBVIOUS
  <1>7. E # {}
    <2>1. all({}) = {}
      OBVIOUS
    <2>2. QED
      BY <1>5, <1>6, <2>1, FS_EmptySet
  <1>8. PICK z \in E : TRUE
    BY <1>7
  <1>9. E \ {z} \in SUBSET Z /\ E \ {z} \subseteq E /\ E \ {z} # E
    BY <1>6, <1>8
  <1>10. E \ {z} \notin C
    BY <1>2, <1>9
  <1>11. IsFiniteSet(all(E \ {z})) /\ S(E \ {z}) = Cardinality(all(E \ {z}))
    BY <1>9, <1>10
  <1>12. all(E) = part[z] \union all(E \ {z})
    BY <1>8
  <1>13. part[z] \intersect all(E \ {z}) = {}
    BY <1>6, <1>8
  <1> HIDE DEF all, C
  <1>14. IsFiniteSet(part[z])
    BY <1>6, <1>8
  <1>15. /\ IsFiniteSet(all(E))
         /\ Cardinality(all(E)) = Cardinality(part[z]) + Cardinality(all(E \ {z})) - Cardinality({})
    <2>1. ASSUME NEW A, IsFiniteSet(A), NEW B, IsFiniteSet(B), A \intersect B = {}
          PROVE  /\ IsFiniteSet(A \union B)
                 /\ Cardinality(A \union B) = Cardinality(A) + Cardinality(B) - Cardinality({})
      BY <2>1, FS_Union
    <2>2. PICK A, B : A = part[z] /\ B = all(E \ {z})
      OBVIOUS
    <2>3. IsFiniteSet(A) /\ IsFiniteSet(B) /\ A \intersect B = {} /\ all(E) = A \union B
      BY <1>11, <1>12, <1>13, <1>14, <2>2
    <2>4. /\ IsFiniteSet(A \union B)
          /\ Cardinality(A \union B) = Cardinality(A) + Cardinality(B) - Cardinality({})
      BY <2>1, <2>3
    <2>5. QED
      BY <2>2, <2>3, <2>4
  <1>16. PICK a \in Nat, b \in Nat : a = Cardinality(part[z]) /\ b = Cardinality(all(E \ {z}))
    BY <1>11, <1>14, FS_CardinalityType
  <1>17. Cardinality({}) = 0
    BY FS_EmptySet
  <1>18. Cardinality(all(E)) = a + b
    BY <1>15, <1>16, <1>17
  <1>19. S(E) = a + b
    BY <1>3, <1>4, <1>6, <1>8, <1>11, <1>16
  <1>20. QED
    BY <1>6, <1>15, <1>18, <1>19

-----------------------------------------------------------------------------
(* First and last elements. *)

Less == {pair \in Nat \X Nat : pair[1] < pair[2]}

LEMMA LessIsWellFounded == IsWellFoundedOn(Less, Nat)
  BY NatLessThanWellFounded DEF OpToRel, Less

\* A non-empty set of naturals has a first element.
LEMMA FirstOf ==
    ASSUME NEW S, S \subseteq Nat, S # {}
    PROVE  \E e \in S : \A p \in S : e <= p
  <1>1. PICK e \in S : \A p \in S : <<p, e>> \notin Less
    BY LessIsWellFounded, WFMin
  <1>2. ASSUME NEW p \in S PROVE e <= p
    <2>1. p \in Nat /\ e \in Nat /\ <<p, e>> \notin Less
      BY <1>1
    <2>2. QED
      BY <2>1 DEF Less
  <1>3. QED
    BY <1>2

\* A non-empty finite set of integers has a first and a last element.
LEMMA FirstAndLastOf ==
    ASSUME NEW S, IsFiniteSet(S), \A x \in S : x \in Int, S # {}
    PROVE  /\ \E e \in S : \A p \in S : e <= p
           /\ \E e \in S : \A p \in S : e >= p
  <1> DEFINE Ends(T) == /\ \E e \in T : \A p \in T : e <= p
                        /\ \E e \in T : \A p \in T : e >= p
             C == {T \in SUBSET S : T # {} /\ ~Ends(T)}
  <1>1. SUFFICES ASSUME S \in C PROVE FALSE
    OBVIOUS
  <1>2. PICK T \in C : \A U \in C : ~ (U \subseteq T /\ U # T)
    <2>1. C \subseteq SUBSET S /\ C # {}
      BY <1>1
    <2> HIDE DEF Ends, C
    <2>2. QED
      BY <2>1, LeastSubset
  <1>3. T \subseteq S /\ T # {} /\ ~Ends(T)
    OBVIOUS
  <1>4. PICK x \in T : TRUE
    BY <1>3
  <1>5. CASE T = {x}
    <2>1. \A p \in T : x <= p /\ x >= p
      BY <1>5, <1>3
    <2>2. QED
      BY <2>1, <1>3
  <1>6. CASE T # {x}
    <2>1. T \ {x} # {} /\ T \ {x} \subseteq T /\ T \ {x} # T /\ T \ {x} \in SUBSET S
      BY <1>4, <1>6
    <2>2. Ends(T \ {x})
      BY <1>2, <2>1
    <2>3. PICK a \in T \ {x} : \A p \in T \ {x} : a <= p
      BY <2>2
    <2>4. PICK b \in T \ {x} : \A p \in T \ {x} : b >= p
      BY <2>2
    <2>5. \E e \in T : \A p \in T : e <= p
      <3>1. CASE x <= a
        <4>1. \A p \in T : x <= p
          BY <1>3, <1>4, <2>3, <3>1
        <4>2. QED
          BY <1>4, <4>1
      <3>2. CASE ~(x <= a)
        <4>1. \A p \in T : a <= p
          BY <1>3, <1>4, <2>3, <3>2
        <4>2. QED
          BY <2>3, <4>1
      <3>3. QED
        BY <3>1, <3>2
    <2>6. \E e \in T : \A p \in T : e >= p
      <3>1. CASE x >= b
        <4>1. \A p \in T : x >= p
          BY <1>3, <1>4, <2>4, <3>1
        <4>2. QED
          BY <1>4, <4>1
      <3>2. CASE ~(x >= b)
        <4>1. \A p \in T : b >= p
          BY <1>3, <1>4, <2>4, <3>2
        <4>2. QED
          BY <2>4, <4>1
      <3>3. QED
        BY <3>1, <3>2
    <2>7. QED
      BY <1>3, <2>5, <2>6
  <1>7. QED
    BY <1>5, <1>6

-----------------------------------------------------------------------------
(* Putting a finite set in order. *)

\* A finite set has finitely many images.
LEMMA ImageIsFinite ==
    ASSUME NEW D, IsFiniteSet(D), NEW f
    PROVE  IsFiniteSet({f[x] : x \in D})
  <1> DEFINE g == [x \in D |-> f[x]]
  <1>1. g \in Surjection(D, {f[x] : x \in D})
    BY DEF Surjection
  <1>2. QED
    BY <1>1, FS_Surjection

Place(S, key, x) == Cardinality({y \in S : key[y] <= key[x]})

Keyed(S, key) ==
    /\ IsFiniteSet(S)
    /\ \A x \in S : key[x] \in Int
    /\ \A x, y \in S : key[x] = key[y] => x = y

LEMMA PlaceIsStrict ==
    ASSUME NEW S, NEW key, Keyed(S, key), NEW x \in S, NEW y \in S
    PROVE  /\ Place(S, key, x) \in 1 .. Cardinality(S)
           /\ key[x] < key[y] <=> Place(S, key, x) < Place(S, key, y)
  <1> DEFINE Up(z) == {w \in S : key[w] <= key[z]}
  <1>1. ASSUME NEW z \in S
        PROVE  /\ IsFiniteSet(Up(z)) /\ Cardinality(Up(z)) \in Nat
               /\ Cardinality(Up(z)) <= Cardinality(S) /\ Cardinality(Up(z)) # 0
    <2>1. Up(z) \in SUBSET S /\ z \in Up(z) /\ IsFiniteSet(S)
      BY DEF Keyed
    <2> HIDE DEF Up
    <2>2. QED
      BY <2>1, FS_Subset, FS_CardinalityType, FS_EmptySet
  <1>2. ASSUME NEW a \in S, NEW b \in S, key[a] < key[b]
        PROVE  Cardinality(Up(a)) < Cardinality(Up(b))
    <2>1. Up(a) \in SUBSET Up(b) /\ b \in Up(b) /\ b \notin Up(a)
      BY <1>2 DEF Keyed
    <2>2. IsFiniteSet(Up(b)) /\ Cardinality(Up(a)) \in Nat /\ Cardinality(Up(b)) \in Nat
      BY <1>1
    <2> HIDE DEF Up
    <2>3. Cardinality(Up(a)) <= Cardinality(Up(b)) /\ Cardinality(Up(a)) # Cardinality(Up(b))
      BY <2>1, <2>2, FS_Subset
    <2>4. QED
      BY <2>2, <2>3
  <1>3. Cardinality(S) \in Nat
    BY FS_CardinalityType DEF Keyed
  <1>4. Place(S, key, x) = Cardinality(Up(x)) /\ Place(S, key, y) = Cardinality(Up(y))
    BY DEF Place
  <1>5. Cardinality(Up(x)) \in 1 .. Cardinality(S) /\ Cardinality(Up(y)) \in 1 .. Cardinality(S)
    BY <1>1, <1>3
  <1>6. key[x] < key[y] => Cardinality(Up(x)) < Cardinality(Up(y))
    BY <1>2
  <1>7. key[y] < key[x] => Cardinality(Up(y)) < Cardinality(Up(x))
    BY <1>2
  <1>8. key[x] = key[y] => Cardinality(Up(y)) = Cardinality(Up(x))
    BY DEF Keyed
  <1> HIDE DEF Up
  <1>9. key[x] \in Int /\ key[y] \in Int
    BY DEF Keyed
  <1>10. key[x] < key[y] <=> Cardinality(Up(x)) < Cardinality(Up(y))
    BY <1>5, <1>6, <1>7, <1>8, <1>9
  <1>11. QED
    BY <1>4, <1>5, <1>10

\* Every place is taken by one element.
LEMMA PlaceIsOnto ==
    ASSUME NEW S, NEW key, Keyed(S, key), NEW i \in 1 .. Cardinality(S)
    PROVE  \E x \in S : Place(S, key, x) = i
  <1> DEFINE n == Cardinality(S)
             place == [x \in S |-> Place(S, key, x)]
  <1>1. place \in [S -> 1 .. n]
    BY PlaceIsStrict
  <1>2. IsFiniteSet(S) /\ n \in Nat
    BY FS_CardinalityType DEF Keyed
  <1>3. IsFiniteSet(1 .. n) /\ Cardinality(1 .. n) = n
    BY <1>2, FS_Interval
  <1>4. ASSUME NEW x \in S, NEW y \in S, place[x] = place[y] PROVE x = y
    <2>1. Place(S, key, x) \in Int /\ Place(S, key, x) = Place(S, key, y)
      BY <1>4, PlaceIsStrict
    <2>2. ~(key[x] < key[y]) /\ ~(key[y] < key[x])
      BY <2>1, PlaceIsStrict
    <2>3. QED
      BY <2>2 DEF Keyed
  <1> HIDE DEF place
  <1>5. place \in Injection(S, 1 .. n)
    BY <1>1, <1>4 DEF Injection, IsInjective
  <1> HIDE DEF n
  <1>6. place \in Surjection(S, 1 .. n)
    BY <1>3, <1>5, FS_Injection DEF n
  <1>7. \E x \in S : place[x] = i
    BY <1>6 DEF Surjection, n
  <1>8. QED
    BY <1>7 DEF place
=============================================================================
