------------------------------ MODULE SumLemmas ------------------------------
(***************************************************************************)
(* What a sum over a finite set is: the recursive function behind          *)
(* SumFunction has a value, and any element can be taken out of the sum.   *)
(***************************************************************************)
EXTENDS Integers, Functions, FiniteSets, FiniteSetTheorems, WellFoundedInduction, TLAPS

(* Every nonempty set of naturals has a least element.                     *)
LEMMA LeastNat ==
  ASSUME NEW T \in SUBSET Nat, T # {}
  PROVE  \E n \in T : \A m \in T : n <= m
<1> DEFINE R == OpToRel(<, Nat)
<1>1. IsWellFoundedOn(R, Nat)
  BY NatLessThanWellFounded
<1>2. \A m, n \in Nat : <<m, n>> \in R <=> m < n
  BY DEF OpToRel
<1> HIDE DEF R
<1>3. PICK n \in T : \A m \in T : ~(<<m, n>> \in R)
  BY <1>1, WFMin
<1>4. ASSUME NEW m \in T PROVE n <= m
  <2>1. m \in Nat /\ n \in Nat /\ ~(<<m, n>> \in R)
    BY <1>3
  <2>2. ~(m < n)
    BY <1>2, <2>1
  <2> QED
    BY <2>1, <2>2
<1> QED
  BY <1>4

-----------------------------------------------------------------------------
(* One unfolding of the sum: an element is picked, and the rest summed.    *)

Picked(s) == CHOOSE x \in s : TRUE

Unfolding(f, it, s) == IF s = {} THEN 0 ELSE f[Picked(s)] + it[s \ {Picked(s)}]

LEMMA PickedIsIn == \A s : s # {} => Picked(s) \in s
BY DEF Picked

(* Such a function exists on the sets of at most n elements, for every n.  *)
Small(D, n) == {s \in SUBSET D : Cardinality(s) <= n}

Sums(f, D, n) ==
  \E it \in [Small(D, n) -> Nat] : \A s \in Small(D, n) : it[s] = Unfolding(f, it, s)

LEMMA Smaller ==
  ASSUME NEW D, IsFiniteSet(D), NEW s \in SUBSET D, NEW x \in s
  PROVE  /\ s \ {x} \in SUBSET D /\ IsFiniteSet(s) /\ IsFiniteSet(s \ {x})
         /\ Cardinality(s) \in Nat /\ Cardinality(s \ {x}) = Cardinality(s) - 1
         /\ Cardinality(s \ {x}) \in Nat
<1>1. IsFiniteSet(s)
  BY FS_Subset
<1> QED
  BY <1>1, FS_CardinalityType, FS_RemoveElement

LEMMA SumsGrow ==
  ASSUME NEW D, IsFiniteSet(D), NEW f \in [D -> Nat], NEW n \in Nat, Sums(f, D, n)
  PROVE  Sums(f, D, n + 1)
<1>1. PICK it \in [Small(D, n) -> Nat] : \A s \in Small(D, n) : it[s] = Unfolding(f, it, s)
  BY DEF Sums
<1> DEFINE more == [s \in Small(D, n + 1) |-> Unfolding(f, it, s)]
<1>2. ASSUME NEW s \in Small(D, n + 1), s # {}
      PROVE  s \ {Picked(s)} \in Small(D, n) /\ f[Picked(s)] \in Nat
  <2>1. Picked(s) \in s /\ s \in SUBSET D /\ Cardinality(s) <= n + 1
    BY <1>2, PickedIsIn DEF Small
  <2>2. s \ {Picked(s)} \in SUBSET D /\ Cardinality(s) \in Nat
        /\ Cardinality(s \ {Picked(s)}) = Cardinality(s) - 1
    BY <2>1, Smaller
  <2> QED
    BY <2>1, <2>2 DEF Small
<1>3. \A s \in Small(D, n) : s \in Small(D, n + 1) /\ more[s] = it[s]
  <2> SUFFICES ASSUME NEW s \in Small(D, n) PROVE s \in Small(D, n + 1) /\ more[s] = it[s]
    OBVIOUS
  <2>1. s \in SUBSET D /\ Cardinality(s) <= n /\ Cardinality(s) \in Nat
    BY FS_Subset, FS_CardinalityType DEF Small
  <2>2. s \in Small(D, n + 1)
    BY <2>1 DEF Small
  <2> QED
    BY <1>1, <2>2
<1>4. more \in [Small(D, n + 1) -> Nat]
  BY <1>2 DEF Unfolding
<1>5. ASSUME NEW s \in Small(D, n + 1) PROVE more[s] = Unfolding(f, more, s)
  BY <1>2, <1>3 DEF Unfolding
<1> QED
  BY <1>4, <1>5 DEF Sums

LEMMA SumsExist ==
  ASSUME NEW D, IsFiniteSet(D), NEW f \in [D -> Nat]
  PROVE  \A n \in Nat : Sums(f, D, n)
<1> DEFINE T == {n \in Nat : ~Sums(f, D, n)}
<1>1. Sums(f, D, 0)
  <2> DEFINE zero == [s \in Small(D, 0) |-> 0]
  <2>1. ASSUME NEW s \in Small(D, 0) PROVE s = {}
    <3>1. IsFiniteSet(s) /\ Cardinality(s) = 0
      BY FS_Subset, FS_CardinalityType DEF Small
    <3> QED
      BY <3>1, FS_EmptySet
  <2>2. zero \in [Small(D, 0) -> Nat] /\ \A s \in Small(D, 0) : zero[s] = Unfolding(f, zero, s)
    BY <2>1 DEF Unfolding
  <2> QED
    BY <2>2 DEF Sums
<1>2. CASE T # {}
  <2>1. PICK n \in T : \A m \in T : n <= m
    BY <1>2, LeastNat
  <2>2. n \in Nat /\ n # 0 /\ ~Sums(f, D, n)
    BY <1>1
  <2>3. n - 1 \in Nat /\ n - 1 \notin T /\ (n - 1) + 1 = n
    BY <2>1, <2>2
  <2>4. Sums(f, D, n - 1)
    BY <2>3
  <2> QED
    BY <2>2, <2>3, <2>4, SumsGrow
<1> QED
  BY <1>2

(* What holds of a set when it holds of the set less any one element, holds*)
(* of every finite set.                                                    *)
LEMMA ElementwiseInduction ==
  ASSUME NEW D, IsFiniteSet(D), NEW B,
         \A s \in SUBSET D : (\A x \in s : s \ {x} \in B) => s \in B
  PROVE  \A s \in SUBSET D : s \in B
<1> DEFINE T == {n \in Nat : \E s \in SUBSET D : Cardinality(s) = n /\ s \notin B}
<1>1. ASSUME NEW s \in SUBSET D, s \notin B PROVE Cardinality(s) \in T
  BY <1>1, FS_Subset, FS_CardinalityType
<1>2. CASE T # {}
  <2>1. PICK n \in T : \A m \in T : n <= m
    BY <1>2, LeastNat
  <2>2. PICK s \in SUBSET D : Cardinality(s) = n /\ s \notin B
    OBVIOUS
  <2>3. PICK x \in s : s \ {x} \notin B
    BY <2>2
  <2>4. /\ s \ {x} \in SUBSET D /\ Cardinality(s \ {x}) = n - 1 /\ n \in Nat
    BY <2>2, Smaller
  <2>5. n - 1 \in T
    BY <1>1, <2>3, <2>4
  <2> QED
    BY <2>1, <2>4, <2>5
<1> QED
  BY <1>1, <1>2

(* The sums over the subsets of a set depend only on the values there.     *)
LEMMA SumsAgree ==
  ASSUME NEW D, IsFiniteSet(D), NEW f, NEW g, NEW it, NEW jt,
         \A x \in D : f[x] = g[x],
         \A s \in SUBSET D : it[s] = Unfolding(f, it, s),
         \A s \in SUBSET D : jt[s] = Unfolding(g, jt, s)
  PROVE  \A s \in SUBSET D : it[s] = jt[s]
<1> DEFINE B == {s \in SUBSET D : it[s] = jt[s]}
<1>1. ASSUME NEW s \in SUBSET D, \A x \in s : s \ {x} \in B PROVE s \in B
  <2>1. CASE s = {}
    BY <2>1 DEF Unfolding
  <2>2. CASE s # {}
    <3>1. Picked(s) \in s
      BY <2>2, PickedIsIn
    <3>2. it[s \ {Picked(s)}] = jt[s \ {Picked(s)}] /\ f[Picked(s)] = g[Picked(s)]
      BY <1>1, <3>1
    <3>3. it[s] = f[Picked(s)] + it[s \ {Picked(s)}] /\ jt[s] = g[Picked(s)] + jt[s \ {Picked(s)}]
      BY <2>2 DEF Unfolding
    <3> QED
      BY <3>2, <3>3
  <2> QED
    BY <2>1, <2>2
<1> HIDE DEF B
<1>2. \A s \in SUBSET D : s \in B
  BY <1>1, ElementwiseInduction
<1> QED
  BY <1>2 DEF B

(* SumFunction is one of these sums.                                       *)
LEMMA SumIsSome ==
  ASSUME NEW D, IsFiniteSet(D), NEW f \in [D -> Nat]
  PROVE  \E it \in [SUBSET D -> Nat] :
           /\ \A s \in SUBSET D : it[s] = Unfolding(f, it, s)
           /\ SumFunction(f) = it[D]
<1>1. DOMAIN f = D
  OBVIOUS
<1> DEFINE Body(it) == [s \in SUBSET D |-> Unfolding(f, it, s)]
<1>2. SumFunction(f) = (CHOOSE it : it = Body(it))[D]
  BY <1>1 DEF SumFunction, SumFunctionOnSet, FoldFunctionOnSet, MapThenFoldSet, Unfolding, Picked
<1>3. PICK n \in Nat : Small(D, n) = SUBSET D
  <2>1. Cardinality(D) \in Nat
    BY FS_CardinalityType
  <2>2. \A s \in SUBSET D : Cardinality(s) <= Cardinality(D)
    BY FS_Subset
  <2> QED
    BY <2>1, <2>2 DEF Small
<1>4. PICK it \in [SUBSET D -> Nat] : \A s \in SUBSET D : it[s] = Unfolding(f, it, s)
  <2>1. Sums(f, D, n)
    BY SumsExist
  <2> QED
    BY <1>3, <2>1 DEF Sums
<1>5. it = Body(it)
  BY <1>4
<1> DEFINE sum == CHOOSE g : g = Body(g)
<1>6. sum = Body(sum)
  BY <1>5
<1>7. SumFunction(f) = sum[D]
  BY <1>2
<1> HIDE DEF sum
<1>8. \A s \in SUBSET D : sum[s] = Unfolding(f, sum, s)
  BY <1>6
<1>9. \A s \in SUBSET D : it[s] = sum[s]
  BY <1>4, <1>8, SumsAgree
<1>10. sum \in [SUBSET D -> Nat]
  BY <1>6, <1>9
<1> QED
  BY <1>7, <1>8, <1>10

(* The order does not matter: any element may be taken out first.          *)
LEMMA AnyFirst ==
  ASSUME NEW D, IsFiniteSet(D), NEW f \in [D -> Nat], NEW it \in [SUBSET D -> Nat],
         \A s \in SUBSET D : it[s] = Unfolding(f, it, s)
  PROVE  \A s \in SUBSET D : \A x \in s : it[s] = f[x] + it[s \ {x}]
<1> DEFINE B == {s \in SUBSET D : \A x \in s : it[s] = f[x] + it[s \ {x}]}
<1>1. ASSUME NEW s \in SUBSET D, \A x \in s : s \ {x} \in B, NEW x \in s
      PROVE  it[s] = f[x] + it[s \ {x}]
  <2> DEFINE c == Picked(s)
             both == (s \ {x}) \ {c}
  <2>1. c \in s /\ it[s] = f[c] + it[s \ {c}]
    BY PickedIsIn DEF Unfolding
  <2> HIDE DEF c
  <2>2. CASE x = c
    BY <2>1, <2>2
  <2>3. CASE x # c
    <3>1. c \in s \ {x} /\ x \in s \ {c} /\ (s \ {c}) \ {x} = both
      BY <2>1, <2>3
    <3>2. it[s \ {x}] = f[c] + it[both]
      BY <1>1, <3>1
    <3>3. it[s \ {c}] = f[x] + it[both]
      BY <1>1, <2>1, <3>1
    <3>4. f[x] \in Nat /\ f[c] \in Nat /\ both \in SUBSET D
      BY <2>1
    <3>5. it[both] \in Nat
      BY <3>4
    <3> HIDE DEF both
    <3> QED
      BY <2>1, <3>2, <3>3, <3>4, <3>5
  <2> QED
    BY <2>2, <2>3
<1>2. \A s \in SUBSET D : (\A x \in s : s \ {x} \in B) => s \in B
  BY <1>1
<1> HIDE DEF B
<1>3. \A s \in SUBSET D : s \in B
  BY <1>2, ElementwiseInduction
<1> QED
  BY <1>3 DEF B

-----------------------------------------------------------------------------
(* What the modules use. *)

THEOREM SumIsNat ==
  ASSUME NEW D, IsFiniteSet(D), NEW f \in [D -> Nat]
  PROVE  SumFunction(f) \in Nat
<1>1. PICK it \in [SUBSET D -> Nat] : SumFunction(f) = it[D]
  BY SumIsSome
<1> QED
  BY <1>1

THEOREM EmptySum ==
  ASSUME NEW f \in [{} -> Nat]
  PROVE  SumFunction(f) = 0
<1>1. IsFiniteSet({})
  BY FS_EmptySet
<1>2. PICK it : it[{}] = Unfolding(f, it, {}) /\ SumFunction(f) = it[{}]
  BY <1>1, SumIsSome
<1> QED
  BY <1>2 DEF Unfolding

THEOREM SumWithout ==
  ASSUME NEW D, IsFiniteSet(D), NEW f \in [D -> Nat], NEW x \in D
  PROVE  SumFunction(f) = f[x] + SumFunction([y \in D \ {x} |-> f[y]])
<1> DEFINE E == D \ {x}
           g == [y \in E |-> f[y]]
<1>1. PICK it \in [SUBSET D -> Nat] :
        (\A s \in SUBSET D : it[s] = Unfolding(f, it, s)) /\ SumFunction(f) = it[D]
  BY SumIsSome
<1>2. IsFiniteSet(E) /\ g \in [E -> Nat] /\ E \in SUBSET D
  BY FS_RemoveElement
<1>g. \A y \in E : f[y] = g[y]
  OBVIOUS
<1>3. it[D] = f[x] + it[E]
  BY <1>1, AnyFirst
<1> HIDE DEF E, g
<1>4. PICK jt \in [SUBSET E -> Nat] :
        (\A s \in SUBSET E : jt[s] = Unfolding(g, jt, s)) /\ SumFunction(g) = jt[E]
  BY <1>2, SumIsSome
<1>5. \A s \in SUBSET E : it[s] = Unfolding(f, it, s)
  BY <1>1, <1>2
<1>6. it[E] = jt[E]
  BY <1>2, <1>4, <1>5, <1>g, SumsAgree
<1> QED
  BY <1>1, <1>3, <1>4, <1>6 DEF E, g

(* A sum follows the one entry that changes...                             *)
LEMMA SumOfChange ==
  ASSUME NEW D, IsFiniteSet(D), NEW f \in [D -> Nat], NEW g \in [D -> Nat], NEW x \in D,
         \A y \in D \ {x} : g[y] = f[y]
  PROVE  SumFunction(g) + f[x] = SumFunction(f) + g[x]
<1>1. [y \in D \ {x} |-> g[y]] = [y \in D \ {x} |-> f[y]]
  OBVIOUS
<1> DEFINE rest == SumFunction([y \in D \ {x} |-> f[y]])
<1>2. SumFunction(f) = f[x] + rest
  BY SumWithout
<1>g. SumFunction(g) = g[x] + rest
  <2>1. SumFunction(g) = g[x] + SumFunction([y \in D \ {x} |-> g[y]])
    BY SumWithout
  <2> QED
    BY <1>1, <2>1
<1>3. rest \in Nat /\ f[x] \in Nat /\ g[x] \in Nat
  <2>1. IsFiniteSet(D \ {x}) /\ [y \in D \ {x} |-> f[y]] \in [D \ {x} -> Nat]
    BY FS_RemoveElement
  <2> QED
    BY <2>1, SumIsNat
<1> HIDE DEF rest
<1> QED
  BY <1>2, <1>3, <1>g

(* ...grows by an entry that is new, and shrinks by one that goes.         *)
LEMMA SumOfMore ==
  ASSUME NEW D, NEW E, IsFiniteSet(D), NEW f \in [D -> Nat], NEW g \in [E -> Nat],
         NEW x \in E, x \notin D, E = D \cup {x}, \A y \in D : g[y] = f[y]
  PROVE  SumFunction(g) = SumFunction(f) + g[x]
<1>1. IsFiniteSet(E)
  BY FS_AddElement
<1>2. E \ {x} = D
  OBVIOUS
<1>3. [y \in E \ {x} |-> g[y]] = f
  BY <1>2
<1>4. SumFunction(g) = g[x] + SumFunction(f)
  BY <1>1, <1>3, SumWithout
<1> QED
  BY <1>4, SumIsNat

LEMMA SumOfZeros ==
  ASSUME NEW D, IsFiniteSet(D)
  PROVE  SumFunction([x \in D |-> 0]) = 0
<1> DEFINE zero(s) == [x \in s |-> 0]
           B == {s \in SUBSET D : SumFunction(zero(s)) = 0}
<1>1. ASSUME NEW s \in SUBSET D, \A x \in s : s \ {x} \in B PROVE SumFunction(zero(s)) = 0
  <2>1. CASE s = {}
    BY <2>1, EmptySum
  <2>2. CASE s # {}
    <3>1. PICK x \in s : TRUE
      BY <2>2
    <3>2. SumFunction(zero(s \ {x})) = 0 /\ IsFiniteSet(s)
      BY <1>1, FS_Subset
    <3>3. [y \in s \ {x} |-> zero(s)[y]] = zero(s \ {x}) /\ zero(s) \in [s -> Nat]
      OBVIOUS
    <3>4. SumFunction(zero(s)) = zero(s)[x] + SumFunction(zero(s \ {x}))
      BY <3>2, <3>3, SumWithout
    <3> QED
      BY <3>2, <3>4
  <2> QED
    BY <2>1, <2>2
<1>2. \A s \in SUBSET D : (\A x \in s : s \ {x} \in B) => s \in B
  BY <1>1
<1> HIDE DEF B
<1>3. D \in B
  BY <1>2, ElementwiseInduction
<1> QED
  BY <1>3 DEF B
=============================================================================
