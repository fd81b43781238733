----------------------------- MODULE SumTheorems ------------------------------
(* What a sum over a finite set is: the sums of Refunds and Migration.       *)
(* SumFunctionOnSet is a recursive function over the subsets of the set; that *)
(* there is one, and that it does not matter in which order the elements are *)
(* taken, is shown by looking at a smallest subset for which it fails.       *)
EXTENDS Integers, FiniteSets, Functions, FiniteSetTheorems, WellFoundedInduction, TLAPS

Pick(s) == CHOOSE x \in s : TRUE
Ints(g, S) == \A x \in S : g[x] \in Int

\* What SumFunctionOnSet says of its recursive function.
IsSums(f, g, S) ==
  f = [s \in SUBSET S |-> IF s = {} THEN 0 ELSE g[Pick(s)] + f[s \ {Pick(s)}]]
Sums(g, S) == CHOOSE f : IsSums(f, g, S)

LEMMA SumIsSums ==
  ASSUME NEW g, NEW S
  PROVE  SumFunctionOnSet(g, S) = Sums(g, S)[S]
BY DEF SumFunctionOnSet, FoldFunctionOnSet, MapThenFoldSet, Sums, Pick, IsSums

\* A set of numbers has a least one.
LEMMA Least ==
  ASSUME NEW N \in SUBSET Nat, N # {}
  PROVE  \E n \in N : \A m \in N : n <= m
<1> DEFINE R == OpToRel(<, Nat)
<1>1. \A x, y \in Nat : x < y => <<x, y>> \in R
  BY DEF OpToRel
<1>2. IsWellFoundedOn(R, Nat)
  BY NatLessThanWellFounded
<1> HIDE DEF R
<1>3. PICK n \in N : \A m \in N : ~ (<<m, n>> \in R)
  BY <1>2, WFMin
<1>4. \A m \in N : ~ (m < n)
  BY <1>1, <1>3
<1> QED BY <1>4

LEMMA Picked ==
  ASSUME NEW s, s # {}, IsFiniteSet(s)
  PROVE  /\ Pick(s) \in s /\ IsFiniteSet(s \ {Pick(s)})
         /\ Cardinality(s) \in Nat /\ Cardinality(s \ {Pick(s)}) \in Nat
         /\ Cardinality(s \ {Pick(s)}) = Cardinality(s) - 1
<1>1. Pick(s) \in s
  BY DEF Pick
<1> QED BY <1>1, FS_RemoveElement, FS_CardinalityType

\* There is such a function: up to any cardinality, and so up to that of S.
LEMMA SumsExist ==
  ASSUME NEW S, IsFiniteSet(S), NEW g, Ints(g, S)
  PROVE  \E f : IsSums(f, g, S)
<1> DEFINE Upto(n) == {s \in SUBSET S : Cardinality(s) <= n}
           E(f, s) == IF s = {} THEN 0 ELSE g[Pick(s)] + f[s \ {Pick(s)}]
           Fits(f, n) == f \in [Upto(n) -> Int] /\ \A s \in Upto(n) : f[s] = E(f, s)
           Bad == {n \in Nat : ~ \E f : Fits(f, n)}
<1>0. \A s \in SUBSET S : IsFiniteSet(s) /\ Cardinality(s) \in Nat /\ Cardinality(s) <= Cardinality(S)
  BY FS_Subset, FS_CardinalityType
<1>1. ASSUME NEW n \in Nat, NEW f, Fits(f, n)
      PROVE  \E h : Fits(h, n + 1)
  <2> DEFINE h == [s \in Upto(n + 1) |-> E(f, s)]
  <2>1. ASSUME NEW s \in Upto(n + 1), s # {}
        PROVE  s \ {Pick(s)} \in Upto(n) /\ g[Pick(s)] \in Int
    <3>1. IsFiniteSet(s) /\ Cardinality(s) \in Nat /\ Cardinality(s) <= n + 1
      BY <1>0
    <3>2. Pick(s) \in s /\ Cardinality(s \ {Pick(s)}) = Cardinality(s) - 1
      BY <2>1, <3>1, Picked
    <3>3. Cardinality(s \ {Pick(s)}) <= n
      BY <3>1, <3>2
    <3> QED BY <3>2, <3>3 DEF Ints
  <2>2. \A s \in Upto(n + 1) : E(f, s) \in Int
    BY <1>1, <2>1
  <2>3. h \in [Upto(n + 1) -> Int]
    <3> HIDE DEF E, Upto
    <3> QED BY <2>2
  <2>4. \A s \in Upto(n) : s \in Upto(n + 1) /\ h[s] = f[s]
    <3> SUFFICES ASSUME NEW s \in Upto(n) PROVE s \in Upto(n + 1) /\ h[s] = f[s]
      OBVIOUS
    <3>1. s \in Upto(n + 1)
      BY <1>0
    <3>2. h[s] = E(f, s) /\ f[s] = E(f, s)
      <4> HIDE DEF E, Upto
      <4> QED BY <1>1, <3>1
    <3> QED BY <3>1, <3>2
  <2>5. \A s \in Upto(n + 1) : h[s] = E(h, s)
    <3> SUFFICES ASSUME NEW s \in Upto(n + 1) PROVE h[s] = E(h, s)
      OBVIOUS
    <3>1. h[s] = E(f, s)
      <4> HIDE DEF E, Upto
      <4> QED OBVIOUS
    <3>2. s # {} => h[s \ {Pick(s)}] = f[s \ {Pick(s)}]
      <4> HIDE DEF h
      <4> QED BY <2>1, <2>4
    <3> HIDE DEF h
    <3> QED BY <3>1, <3>2
  <2> HIDE DEF h, E, Upto
  <2> QED BY <2>3, <2>5
<1>2. \E f : Fits(f, 0)
  <2> DEFINE h == [s \in Upto(0) |-> 0]
  <2>1. \A s \in Upto(0) : s = {}
    BY <1>0, FS_EmptySet
  <2>2. h \in [Upto(0) -> Int]
    OBVIOUS
  <2>3. \A s \in Upto(0) : h[s] = E(h, s)
    BY <2>1
  <2> HIDE DEF h, E, Upto
  <2> QED BY <2>2, <2>3
<1>3. Bad = {}
  <2> SUFFICES ASSUME Bad # {} PROVE FALSE
    OBVIOUS
  <2> HIDE DEF Fits
  <2>1. PICK n \in Bad : \A m \in Bad : n <= m
    <3>1. Bad \in SUBSET Nat
      OBVIOUS
    <3> HIDE DEF Bad
    <3> QED BY <3>1, Least
  <2>2. n # 0
    BY <1>2
  <2>3. n - 1 \in Nat /\ n - 1 \notin Bad
    BY <2>1, <2>2
  <2>4. \E f : Fits(f, n - 1)
    BY <2>3
  <2>5. \E f : Fits(f, (n - 1) + 1)
    BY <1>1, <2>3, <2>4
  <2> QED BY <2>1, <2>5
<1>4. PICK f : Fits(f, Cardinality(S))
  <2>1. Cardinality(S) \in Nat
    BY FS_CardinalityType
  <2> HIDE DEF Fits
  <2> QED BY <1>3, <2>1
<1>5. Upto(Cardinality(S)) = SUBSET S
  BY <1>0
<1>6. f = [s \in SUBSET S |-> E(f, s)]
  <2> HIDE DEF E, Upto
  <2> QED BY <1>4, <1>5
<1> QED BY <1>6 DEF IsSums

LEMMA SumsStep ==
  ASSUME NEW S, IsFiniteSet(S), NEW g, Ints(g, S), NEW s \in SUBSET S
  PROVE  Sums(g, S)[s] = IF s = {} THEN 0 ELSE g[Pick(s)] + Sums(g, S)[s \ {Pick(s)}]
<1>1. IsSums(Sums(g, S), g, S)
  BY SumsExist DEF Sums
<1> QED BY <1>1 DEF IsSums

\* Two such functions agree where the sets and the summands do.
LEMMA SumsAgree ==
  ASSUME NEW S, IsFiniteSet(S), NEW g, Ints(g, S),
         NEW T, IsFiniteSet(T), NEW h, Ints(h, T),
         NEW U \in SUBSET (S \cap T), \A x \in U : g[x] = h[x]
  PROVE  Sums(g, S)[U] = Sums(h, T)[U] /\ Sums(g, S)[U] \in Int
<1> DEFINE Same(s) == Sums(g, S)[s] = Sums(h, T)[s] /\ Sums(g, S)[s] \in Int
           Bad == {n \in Nat : \E s \in SUBSET U : Cardinality(s) = n /\ ~ Same(s)}
<1>1. U \in SUBSET S /\ IsFiniteSet(U)
  BY FS_Subset
<1>2. \A s \in SUBSET U : IsFiniteSet(s) /\ Cardinality(s) \in Nat
  BY <1>1, FS_Subset, FS_CardinalityType
<1>3. Bad = {}
  <2> SUFFICES ASSUME Bad # {} PROVE FALSE
    OBVIOUS
  <2>1. PICK n \in Bad : \A m \in Bad : n <= m
    <3>1. Bad \in SUBSET Nat
      OBVIOUS
    <3> HIDE DEF Bad
    <3> QED BY <3>1, Least
  <2>2. PICK s \in SUBSET U : Cardinality(s) = n /\ ~ Same(s)
    BY <2>1
  <2>3. /\ Sums(g, S)[s] = IF s = {} THEN 0 ELSE g[Pick(s)] + Sums(g, S)[s \ {Pick(s)}]
        /\ Sums(h, T)[s] = IF s = {} THEN 0 ELSE h[Pick(s)] + Sums(h, T)[s \ {Pick(s)}]
    <3>1. s \in SUBSET S /\ s \in SUBSET T
      OBVIOUS
    <3> QED BY <3>1, SumsStep
  <2>4. s # {}
    BY <2>2, <2>3
  <2> DEFINE r == s \ {Pick(s)}
  <2>5. Pick(s) \in s /\ Cardinality(r) = Cardinality(s) - 1
    BY <1>2, <2>4, Picked
  <2>6. r \in SUBSET U /\ Cardinality(r) \in Nat /\ n \in Nat
    BY <1>2, <2>1
  <2>7. Cardinality(r) \notin Bad
    <3> HIDE DEF r, Bad
    <3> QED BY <2>1, <2>2, <2>5, <2>6
  <2>8. Same(r)
    <3> HIDE DEF r, Same
    <3> QED BY <2>6, <2>7
  <2>9. g[Pick(s)] = h[Pick(s)] /\ g[Pick(s)] \in Int
    BY <1>1, <2>2, <2>5 DEF Ints
  <2>10. Same(s)
    BY <2>3, <2>4, <2>8, <2>9
  <2> QED BY <2>2, <2>10
<1>4. U \in SUBSET U /\ Cardinality(U) \in Nat
  BY <1>2
<1>5. Same(U)
  <2> HIDE DEF Same
  <2> QED BY <1>3, <1>4
<1> QED BY <1>5

\* The sum of integers is one, and depends on the summands only.
LEMMA SumIsInt ==
  ASSUME NEW S, IsFiniteSet(S), NEW g, Ints(g, S)
  PROVE  SumFunctionOnSet(g, S) \in Int
BY SumIsSums, SumsAgree

LEMMA SumOfSame ==
  ASSUME NEW S, IsFiniteSet(S), NEW g, Ints(g, S), NEW h, \A x \in S : g[x] = h[x]
  PROVE  SumFunctionOnSet(g, S) = SumFunctionOnSet(h, S)
<1>1. Ints(h, S)
  BY DEF Ints
<1>2. Sums(g, S)[S] = Sums(h, S)[S]
  BY <1>1, SumsAgree
<1> QED BY <1>2, SumIsSums

LEMMA SumOfNone ==
  ASSUME NEW g
  PROVE  SumFunctionOnSet(g, {}) = 0
<1>1. IsFiniteSet({}) /\ Ints(g, {})
  BY FS_EmptySet DEF Ints
<1> QED BY <1>1, SumIsSums, SumsStep

LEMMA SumWithoutPicked ==
  ASSUME NEW S, IsFiniteSet(S), NEW g, Ints(g, S), S # {}
  PROVE  SumFunctionOnSet(g, S) = g[Pick(S)] + SumFunctionOnSet(g, S \ {Pick(S)})
<1> DEFINE R == S \ {Pick(S)}
<1>1. IsFiniteSet(R) /\ Ints(g, R) /\ R \in SUBSET (S \cap R)
  BY Picked DEF Ints
<1>2. Sums(g, S)[R] = Sums(g, R)[R]
  <2> HIDE DEF R
  <2> QED BY <1>1, SumsAgree
<1>3. Sums(g, S)[S] = g[Pick(S)] + Sums(g, S)[R]
  BY SumsStep
<1>4. SumFunctionOnSet(g, S) = Sums(g, S)[S] /\ SumFunctionOnSet(g, R) = Sums(g, R)[R]
  BY SumIsSums
<1> QED BY <1>2, <1>3, <1>4

\* Which element is taken first does not matter.
LEMMA SumAddsAny ==
  ASSUME NEW U, IsFiniteSet(U), NEW g, Ints(g, U)
  PROVE  \A s \in SUBSET U : \A x \in U \ s :
           SumFunctionOnSet(g, s \cup {x}) = g[x] + SumFunctionOnSet(g, s)
<1> DEFINE Adds(s) == \A x \in U \ s :
             SumFunctionOnSet(g, s \cup {x}) = g[x] + SumFunctionOnSet(g, s)
           Bad == {n \in Nat : \E s \in SUBSET U : Cardinality(s) = n /\ ~ Adds(s)}
<1>1. \A s \in SUBSET U : /\ IsFiniteSet(s) /\ Cardinality(s) \in Nat /\ Ints(g, s)
                          /\ SumFunctionOnSet(g, s) \in Int
  BY FS_Subset, FS_CardinalityType, SumIsInt DEF Ints
<1>2. Bad = {}
  <2> SUFFICES ASSUME Bad # {} PROVE FALSE
    OBVIOUS
  <2>1. PICK n \in Bad : \A m \in Bad : n <= m
    <3>1. Bad \in SUBSET Nat
      OBVIOUS
    <3> HIDE DEF Bad
    <3> QED BY <3>1, Least
  <2>2. PICK s \in SUBSET U : Cardinality(s) = n /\ ~ Adds(s)
    BY <2>1
  <2>3. PICK x \in U \ s : SumFunctionOnSet(g, s \cup {x}) # g[x] + SumFunctionOnSet(g, s)
    BY <2>2
  <2> DEFINE t == s \cup {x}
             y == Pick(t)
             r == s \ {y}
  <2>4. t \in SUBSET U /\ t # {}
    BY <2>2, <2>3
  <2>5. y \in t /\ SumFunctionOnSet(g, t) = g[y] + SumFunctionOnSet(g, t \ {y})
    <3> HIDE DEF t
    <3> QED BY <1>1, <2>4, SumWithoutPicked, Picked
  <2>6. y # x
    <3> SUFFICES ASSUME y = x PROVE FALSE
      OBVIOUS
    <3>1. t \ {y} = s
      BY <2>3
    <3> HIDE DEF y
    <3> QED BY <2>3, <2>5, <3>1
  <2>7. y \in s /\ t \ {y} = r \cup {x} /\ s = r \cup {y}
    <3> HIDE DEF y
    <3> QED BY <2>5, <2>6
  <2>8. /\ r \in SUBSET U /\ Cardinality(r) \in Nat /\ Cardinality(r) < n
        /\ n \in Nat /\ x \in U \ r /\ y \in U \ r
    <3> HIDE DEF y
    <3>1. r \in SUBSET U /\ x \in U \ r /\ y \in U \ r
      BY <2>2, <2>3, <2>7
    <3>2. Cardinality(r) = Cardinality(s) - 1
      BY <1>1, <2>2, <2>7, FS_RemoveElement
    <3>3. Cardinality(r) \in Nat
      BY <1>1, <3>1
    <3> HIDE DEF r
    <3> QED BY <1>1, <2>1, <2>2, <3>1, <3>2, <3>3
  <2>9. Adds(r)
    <3>1. Cardinality(r) \notin Bad
      <4> HIDE DEF r, Bad
      <4> QED BY <2>1, <2>8
    <3> HIDE DEF r, Adds
    <3> QED BY <2>8, <3>1
  <2>10. /\ SumFunctionOnSet(g, r \cup {y}) = g[y] + SumFunctionOnSet(g, r)
         /\ SumFunctionOnSet(g, r \cup {x}) = g[x] + SumFunctionOnSet(g, r)
    <3> HIDE DEF r, y
    <3> QED BY <2>8, <2>9
  <2>11. g[x] \in Int /\ g[y] \in Int /\ SumFunctionOnSet(g, r) \in Int
    <3> HIDE DEF r, y
    <3> QED BY <1>1, <2>8 DEF Ints
  <2>12. SumFunctionOnSet(g, s \cup {x}) = g[y] + SumFunctionOnSet(g, r \cup {x})
    <3> HIDE DEF y, r
    <3> QED BY <2>5, <2>7
  <2>13. SumFunctionOnSet(g, s) = g[y] + SumFunctionOnSet(g, r)
    <3> HIDE DEF y, r
    <3> QED BY <2>7, <2>10
  <2> HIDE DEF y, r, t
  <2> QED BY <2>3, <2>10, <2>11, <2>12, <2>13
<1> QED BY <1>1, <1>2

\* One more element adds its summand, one element less takes it away.
THEOREM SumAdd ==
  ASSUME NEW S, IsFiniteSet(S), NEW x, x \notin S, NEW g, Ints(g, S \cup {x})
  PROVE  SumFunctionOnSet(g, S \cup {x}) = g[x] + SumFunctionOnSet(g, S)
<1>1. IsFiniteSet(S \cup {x}) /\ S \in SUBSET (S \cup {x}) /\ x \in (S \cup {x}) \ S
  BY FS_AddElement
<1> QED BY <1>1, SumAddsAny

LEMMA SumRemove ==
  ASSUME NEW S, IsFiniteSet(S), NEW x \in S, NEW g, Ints(g, S)
  PROVE  /\ SumFunctionOnSet(g, S) = g[x] + SumFunctionOnSet(g, S \ {x})
         /\ SumFunctionOnSet(g, S \ {x}) \in Int
<1> DEFINE R == S \ {x}
<1>1. IsFiniteSet(R) /\ x \notin R /\ S = R \cup {x} /\ Ints(g, R)
  BY FS_RemoveElement DEF Ints
<1> HIDE DEF R
<1>2. SumFunctionOnSet(g, R \cup {x}) = g[x] + SumFunctionOnSet(g, R)
  BY <1>1, SumAdd
<1>3. SumFunctionOnSet(g, R) \in Int
  BY <1>1, SumIsInt
<1> QED BY <1>1, <1>2, <1>3 DEF R

\* A sum over the image of an injective function.
LEMMA SumOfImage ==
  ASSUME NEW S, IsFiniteSet(S), NEW g, Ints(g, S), NEW T, NEW h, NEW f \in Bijection(S, T),
         \A s \in S : h[f[s]] = g[s]
  PROVE  SumFunctionOnSet(h, T) = SumFunctionOnSet(g, S)
<1> DEFINE Im(s) == {f[x] : x \in s}
           Bad == {n \in Nat : \E s \in SUBSET S : Cardinality(s) = n
                     /\ SumFunctionOnSet(h, Im(s)) # SumFunctionOnSet(g, s)}
<1>1. \A s \in SUBSET S : IsFiniteSet(s) /\ Cardinality(s) \in Nat /\ Ints(g, s)
                          /\ IsFiniteSet(Im(s)) /\ Ints(h, Im(s))
  <2> SUFFICES ASSUME NEW s \in SUBSET S
               PROVE  IsFiniteSet(s) /\ Cardinality(s) \in Nat /\ Ints(g, s)
                      /\ IsFiniteSet(Im(s)) /\ Ints(h, Im(s))
    OBVIOUS
  <2>1. IsFiniteSet(s) /\ Cardinality(s) \in Nat /\ Ints(g, s)
    BY FS_Subset, FS_CardinalityType DEF Ints
  <2>2. IsFiniteSet(Im(s))
    <3> DEFINE k == [x \in s |-> f[x]]
    <3>1. k \in Surjection(s, Im(s))
      BY DEF Surjection
    <3> HIDE DEF k, Im
    <3> QED BY <2>1, <3>1, FS_Surjection
  <2>3. Ints(h, Im(s))
    BY DEF Ints
  <2> QED BY <2>1, <2>2, <2>3
<1>2. \A x, y \in S : f[x] = f[y] => x = y
  BY DEF Bijection, Injection, IsInjective
<1>3. Bad = {}
  <2> SUFFICES ASSUME Bad # {} PROVE FALSE
    OBVIOUS
  <2>1. PICK n \in Bad : \A m \in Bad : n <= m
    <3>1. Bad \in SUBSET Nat
      OBVIOUS
    <3> HIDE DEF Bad
    <3> QED BY <3>1, Least
  <2>2. PICK s \in SUBSET S : Cardinality(s) = n
                               /\ SumFunctionOnSet(h, Im(s)) # SumFunctionOnSet(g, s)
    BY <2>1
  <2>3. s # {}
    <3>1. Im({}) = {}
      OBVIOUS
    <3> HIDE DEF Im
    <3> QED BY <2>2, <3>1, SumOfNone
  <2>4. PICK x \in s : TRUE
    BY <2>3
  <2> DEFINE r == s \ {x}
  <2>5. r \in SUBSET S /\ x \notin r /\ s = r \cup {x}
    BY <2>4
  <2>6. n \in Nat /\ Cardinality(r) \in Nat /\ Cardinality(r) < n
    <3>1. Cardinality(r) = Cardinality(s) - 1
      BY <1>1, <2>4, FS_RemoveElement
    <3>2. Cardinality(r) \in Nat
      BY <1>1, <2>5
    <3> HIDE DEF r
    <3> QED BY <2>2, <3>1, <3>2
  <2>7. SumFunctionOnSet(h, Im(r)) = SumFunctionOnSet(g, r)
    <3>1. Cardinality(r) \notin Bad
      <4> HIDE DEF r, Bad
      <4> QED BY <2>1, <2>6
    <3> HIDE DEF r, Im
    <3> QED BY <2>5, <2>6, <3>1
  <2>8. Im(s) = Im(r) \cup {f[x]} /\ f[x] \notin Im(r)
    BY <1>2, <2>4
  <2>9. SumFunctionOnSet(h, Im(s)) = h[f[x]] + SumFunctionOnSet(h, Im(r))
    <3>1. IsFiniteSet(Im(r)) /\ Ints(h, Im(r) \cup {f[x]})
      <4>1. s \in SUBSET S /\ r \in SUBSET S
        BY <2>5
      <4> HIDE DEF r, Im
      <4> QED BY <1>1, <2>8, <4>1
    <3> HIDE DEF r, Im
    <3> QED BY <2>8, <3>1, SumAdd
  <2>10. SumFunctionOnSet(g, s) = g[x] + SumFunctionOnSet(g, r)
    <3> HIDE DEF r, Im
    <3> QED BY <1>1, <2>5, SumAdd
  <2>11. h[f[x]] = g[x]
    BY <2>4
  <2> HIDE DEF r, Im
  <2> QED BY <2>2, <2>7, <2>9, <2>10, <2>11
<1>4. Im(S) = T
  BY DEF Bijection, Surjection, Injection
<1>5. S \in SUBSET S /\ Cardinality(S) \in Nat
  BY <1>1
<1> HIDE DEF Im
<1> QED BY <1>3, <1>4, <1>5

\* A part of a sum of what is never negative is at most the whole.
LEMMA SumOfPart ==
  ASSUME NEW S, IsFiniteSet(S), NEW g, Ints(g, S), \A x \in S : g[x] >= 0, NEW T \in SUBSET S
  PROVE  SumFunctionOnSet(g, T) <= SumFunctionOnSet(g, S)
<1> DEFINE Less(U) == SumFunctionOnSet(g, T) <= SumFunctionOnSet(g, T \cup U)
           Bad == {n \in Nat : \E U \in SUBSET (S \ T) : Cardinality(U) = n /\ ~ Less(U)}
<1>1. \A s \in SUBSET S : /\ IsFiniteSet(s) /\ Cardinality(s) \in Nat /\ Ints(g, s)
                          /\ SumFunctionOnSet(g, s) \in Int
  BY FS_Subset, FS_CardinalityType, SumIsInt DEF Ints
<1>2. Bad = {}
  <2> SUFFICES ASSUME Bad # {} PROVE FALSE
    OBVIOUS
  <2>1. PICK n \in Bad : \A m \in Bad : n <= m
    <3>1. Bad \in SUBSET Nat
      OBVIOUS
    <3> HIDE DEF Bad
    <3> QED BY <3>1, Least
  <2>2. PICK U \in SUBSET (S \ T) : Cardinality(U) = n /\ ~ Less(U)
    BY <2>1
  <2>3. U # {}
    <3>1. T \cup {} = T
      OBVIOUS
    <3> QED BY <1>1, <2>2, <3>1
  <2>4. PICK x \in U : TRUE
    BY <2>3
  <2> DEFINE R == U \ {x}
             B == T \cup R
  <2>5. R \in SUBSET (S \ T) /\ B \in SUBSET S /\ x \notin B /\ T \cup U = B \cup {x} /\ x \in S
        /\ U \in SUBSET S /\ R \in SUBSET S
    BY <2>4
  <2>6. n \in Nat /\ Cardinality(R) \in Nat /\ Cardinality(R) < n
    <3>1. Cardinality(R) = Cardinality(U) - 1
      BY <1>1, <2>4, <2>5, FS_RemoveElement
    <3>2. Cardinality(R) \in Nat
      BY <1>1, <2>5
    <3> HIDE DEF R
    <3> QED BY <2>2, <3>1, <3>2
  <2>7. Less(R)
    <3>1. Cardinality(R) \notin Bad
      <4> HIDE DEF R, Bad
      <4> QED BY <2>1, <2>6
    <3> HIDE DEF R, Less
    <3> QED BY <2>5, <2>6, <3>1
  <2>8. SumFunctionOnSet(g, B \cup {x}) = g[x] + SumFunctionOnSet(g, B)
    <3>1. IsFiniteSet(B) /\ Ints(g, B \cup {x})
      BY <1>1, <2>5 DEF Ints
    <3> HIDE DEF B
    <3> QED BY <2>5, <3>1, SumAdd
  <2>9. /\ g[x] >= 0 /\ g[x] \in Int
        /\ SumFunctionOnSet(g, B) \in Int /\ SumFunctionOnSet(g, T) \in Int
    BY <1>1, <2>5 DEF Ints
  <2> HIDE DEF R
  <2>10. Less(U)
    BY <2>5, <2>7, <2>8, <2>9
  <2> QED BY <2>2, <2>10
<1>3. S \ T \in SUBSET (S \ T) /\ Cardinality(S \ T) \in Nat /\ T \cup (S \ T) = S
  BY <1>1
<1>4. Less(S \ T)
  <2> HIDE DEF Less
  <2> QED BY <1>2, <1>3
<1> QED BY <1>3, <1>4

\* One summand that changes changes the sum by as much.
LEMMA SumChange ==
  ASSUME NEW S, IsFiniteSet(S), NEW g, Ints(g, S), NEW h, Ints(h, S), NEW x \in S,
         \A y \in S : y # x => h[y] = g[y]
  PROVE  SumFunctionOnSet(h, S) = SumFunctionOnSet(g, S) - g[x] + h[x]
<1> DEFINE R == S \ {x}
<1>1. IsFiniteSet(R) /\ Ints(g, R) /\ \A y \in R : g[y] = h[y]
  BY FS_RemoveElement DEF Ints
<1> HIDE DEF R
<1>2. SumFunctionOnSet(g, R) = SumFunctionOnSet(h, R)
  BY <1>1, SumOfSame
<1>3. /\ SumFunctionOnSet(g, S) = g[x] + SumFunctionOnSet(g, R)
      /\ SumFunctionOnSet(h, S) = h[x] + SumFunctionOnSet(h, R)
      /\ SumFunctionOnSet(g, R) \in Int
  BY SumRemove DEF R
<1>4. g[x] \in Int /\ h[x] \in Int
  BY DEF Ints
<1> QED BY <1>2, <1>3, <1>4

LEMMA SumOfOne ==
  ASSUME NEW g, NEW x, g[x] \in Int
  PROVE  SumFunctionOnSet(g, {x}) = g[x]
<1>1. IsFiniteSet({}) /\ Ints(g, {} \cup {x}) /\ {} \cup {x} = {x}
  BY FS_EmptySet DEF Ints
<1>2. SumFunctionOnSet(g, {} \cup {x}) = g[x] + SumFunctionOnSet(g, {})
  BY <1>1, SumAdd
<1> QED BY <1>1, <1>2, SumOfNone
=============================================================================
