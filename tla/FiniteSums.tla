----------------------------- MODULE FiniteSums -----------------------------
(***************************************************************************)
(* What is proved of SumFunctionOnSet, the sum of a function over a finite *)
(* set, which the volumes, balances and limits of the contract and the     *)
(* preview of a settlement rest on: it is proved from the recursive        *)
(* definition by an induction over the cardinality of the set, stated over *)
(* a set of numbers (or of sets) rather than over a predicate.  And what   *)
(* is proved of places in an order, which lists read page by page rest on. *)
(***************************************************************************)
EXTENDS Integers, FiniteSetsExt, FiniteSetTheorems, WellFoundedInduction, TLAPS

LEMMA NatSetInduction ==
    ASSUME NEW T, 0 \in T, \A n \in Nat : n \in T => n + 1 \in T
    PROVE  \A n \in Nat : n \in T
<1> SUFFICES ASSUME Nat \ T # {} PROVE FALSE
    OBVIOUS
<1>1. PICK x \in Nat \ T : \A y \in Nat \ T : ~ (<<y, x>> \in OpToRel(<, Nat))
    <2>1. (Nat \ T) \subseteq Nat
        OBVIOUS
    <2> QED BY <2>1, WFMin, NatLessThanWellFounded
<1>2. \A y \in Nat \ T : ~(y < x)
    BY <1>1 DEF OpToRel
<1>3. x # 0 /\ x - 1 \in Nat /\ x - 1 < x
    OBVIOUS
<1>4. x - 1 \in T
    BY <1>2, <1>3
<1>5. (x - 1) + 1 \in T
    BY <1>3, <1>4
<1> QED BY <1>3, <1>5

Pick(s) == CHOOSE x \in s : TRUE

\* g is the recursive summation of f on the sets in D.
Sums(g, f, D) ==
    g = [s \in D |-> IF s = {} THEN 0 ELSE f[Pick(s)] + g[s \ {Pick(s)}]]

LEMMA SumDef ==
    ASSUME NEW f, NEW S
    PROVE  SumFunctionOnSet(f, S) = (CHOOSE g : Sums(g, f, SUBSET S))[S]
BY DEF SumFunctionOnSet, FoldFunctionOnSet, MapThenFoldSet, Sums, Pick

LEMMA PickIn == ASSUME NEW s, s # {} PROVE Pick(s) \in s
BY DEF Pick

\* The recursive summation exists on all subsets of a finite set: it is built
\* for the subsets of at most n elements, for each n in turn.
LEMMA SumsExists ==
    ASSUME NEW f, NEW S, IsFiniteSet(S)
    PROVE  \E g : Sums(g, f, SUBSET S)
<1> DEFINE L(n) == {s \in SUBSET S : Cardinality(s) <= n}
           T == {n \in Nat : \E g : Sums(g, f, L(n))}
<1>0. \A s \in SUBSET S : IsFiniteSet(s) /\ Cardinality(s) \in Nat
    BY FS_Subset, FS_CardinalityType
<1>a. \A s \in SUBSET S : s # {} => /\ Pick(s) \in s
                                   /\ s \ {Pick(s)} \in SUBSET S
                                   /\ Cardinality(s \ {Pick(s)}) = Cardinality(s) - 1
    BY <1>0, PickIn, FS_RemoveElement
<1>1. 0 \in T
    <2>1. L(0) = {{}}
        BY <1>0, FS_EmptySet
    <2>2. Sums([s \in L(0) |-> 0], f, L(0))
        BY <2>1 DEF Sums
    <2> QED BY <2>2
<1>2. ASSUME NEW n \in Nat, n \in T
      PROVE  n + 1 \in T
    <2>1. PICK g : Sums(g, f, L(n))
        BY <1>2
    <2> DEFINE h == [s \in L(n + 1) |->
                        IF Cardinality(s) <= n THEN g[s]
                        ELSE f[Pick(s)] + g[s \ {Pick(s)}]]
    <2>2. ASSUME NEW s \in L(n + 1)
          PROVE  h[s] = IF s = {} THEN 0 ELSE f[Pick(s)] + h[s \ {Pick(s)}]
        <3>1. CASE s = {}
            <4>1. Cardinality(s) = 0
                BY <3>1, FS_EmptySet
            <4>2. s \in L(n) /\ h[s] = g[s]
                BY <4>1
            <4> QED BY <3>1, <4>2, <2>1 DEF Sums
        <3>2. CASE s # {}
            <4> DEFINE r == s \ {Pick(s)}
            <4>1. r \in SUBSET S /\ Cardinality(r) = Cardinality(s) - 1
                BY <1>a, <3>2
            <4>2. Cardinality(s) \in Nat /\ Cardinality(s) <= n + 1
                BY <1>0
            <4>3. r \in L(n) /\ r \in L(n + 1) /\ h[r] = g[r]
                BY <4>1, <4>2
            <4>4. CASE Cardinality(s) <= n
                <5>1. s \in L(n) /\ h[s] = g[s]
                    BY <4>4
                <5>2. g[s] = f[Pick(s)] + g[r]
                    BY <5>1, <3>2, <2>1 DEF Sums
                <5> QED BY <5>1, <5>2, <4>3, <3>2
            <4>5. CASE ~(Cardinality(s) <= n)
                <5>1. h[s] = f[Pick(s)] + g[r]
                    BY <4>5
                <5> QED BY <5>1, <4>3, <3>2
            <4> QED BY <4>4, <4>5
        <3> QED BY <3>1, <3>2
    <2>3. Sums(h, f, L(n + 1))
        BY <2>2 DEF Sums
    <2>4. \E k : Sums(k, f, L(n + 1))
        <3> HIDE DEF h
        <3> QED BY <2>3
    <2> QED
        <3> HIDE DEF L
        <3> QED BY <2>4
<1>3. \A n \in Nat : n \in T
    <2> HIDE DEF T
    <2> QED BY <1>1, <1>2, NatSetInduction
<1>4. Cardinality(S) \in T
    BY <1>0, <1>3
<1>5. L(Cardinality(S)) = SUBSET S
    BY FS_Subset
<1> QED BY <1>4, <1>5

\* Two recursive summations agree wherever both are defined.
LEMMA SumsAgree ==
    ASSUME NEW f, NEW S, IsFiniteSet(S)
    PROVE  \A g, h : \A R \in SUBSET S :
                Sums(g, f, SUBSET S) /\ Sums(h, f, SUBSET R) => h[R] = g[R]
<1> TAKE g, h
<1> TAKE R \in SUBSET S
<1> HAVE Sums(g, f, SUBSET S) /\ Sums(h, f, SUBSET R)
<1> DEFINE T == {n \in Nat : \A s \in SUBSET R : Cardinality(s) = n => h[s] = g[s]}
<1>0. \A s \in SUBSET R : IsFiniteSet(s) /\ Cardinality(s) \in Nat
    BY FS_Subset, FS_CardinalityType
<1>1. 0 \in T
    <2>1. \A s \in SUBSET R : Cardinality(s) = 0 => s = {}
        BY <1>0, FS_EmptySet
    <2>2. h[{}] = 0 /\ g[{}] = 0
        BY DEF Sums
    <2> QED BY <2>1, <2>2
<1>2. ASSUME NEW n \in Nat, n \in T
      PROVE  n + 1 \in T
    <2>1. SUFFICES ASSUME NEW s \in SUBSET R, Cardinality(s) = n + 1
                   PROVE  h[s] = g[s]
        OBVIOUS
    <2> DEFINE r == s \ {Pick(s)}
    <2>2. s # {}
        BY <2>1, <1>0, FS_EmptySet
    <2>3. r \in SUBSET R /\ Cardinality(r) = n
        <3>1. Pick(s) \in s /\ IsFiniteSet(s)
            BY <2>2, <1>0, PickIn
        <3>2. Cardinality(r) = Cardinality(s) - 1
            BY <3>1, FS_RemoveElement
        <3> QED BY <2>1, <3>2
    <2>4. h[r] = g[r]
        BY <2>3, <1>2
    <2>5. h[s] = f[Pick(s)] + h[r] /\ g[s] = f[Pick(s)] + g[r]
        BY <2>2 DEF Sums
    <2> QED BY <2>4, <2>5
<1>3. \A n \in Nat : n \in T
    <2> HIDE DEF T
    <2> QED BY <1>1, <1>2, NatSetInduction
<1> QED BY <1>0, <1>3

(***************************************************************************)
(* The sum over a finite set takes one element and adds the sum over the   *)
(* rest; the empty sum is zero.                                            *)
(***************************************************************************)
THEOREM SumRecursion ==
    ASSUME NEW f, NEW S, IsFiniteSet(S)
    PROVE  SumFunctionOnSet(f, S) =
             IF S = {} THEN 0
             ELSE f[Pick(S)] + SumFunctionOnSet(f, S \ {Pick(S)})
<1> DEFINE g == CHOOSE k : Sums(k, f, SUBSET S)
           R == S \ {Pick(S)}
           h == CHOOSE k : Sums(k, f, SUBSET R)
<1>1. Sums(g, f, SUBSET S)
    BY SumsExists
<1>2. IsFiniteSet(R)
    BY FS_RemoveElement
<1>3. Sums(h, f, SUBSET R)
    BY <1>2, SumsExists
<1>4. SumFunctionOnSet(f, S) = g[S] /\ SumFunctionOnSet(f, R) = h[R]
    BY SumDef
<1>5. R \in SUBSET S
    OBVIOUS
<1> HIDE DEF g, h, R
<1>6. h[R] = g[R]
    BY <1>1, <1>3, <1>5, SumsAgree
<1>7. g[S] = IF S = {} THEN 0 ELSE f[Pick(S)] + g[R]
    BY <1>1 DEF Sums, R
<1> QED BY <1>4, <1>6, <1>7 DEF R

(***************************************************************************)
(* The sum of integers is an integer, and of naturals a natural.           *)
(***************************************************************************)
THEOREM SumType ==
    ASSUME NEW D \in {Nat, Int}, NEW S, IsFiniteSet(S),
           NEW f, \A x \in S : f[x] \in D
    PROVE  SumFunctionOnSet(f, S) \in D
<1> DEFINE T == {n \in Nat : \A s \in SUBSET S :
                    Cardinality(s) = n => SumFunctionOnSet(f, s) \in D}
<1>0. \A s \in SUBSET S : IsFiniteSet(s) /\ Cardinality(s) \in Nat
    BY FS_Subset, FS_CardinalityType
<1>1. 0 \in T
    <2>1. SUFFICES ASSUME NEW s \in SUBSET S, Cardinality(s) = 0
                   PROVE  SumFunctionOnSet(f, s) \in D
        OBVIOUS
    <2>2. IsFiniteSet(s) /\ s = {}
        BY <2>1, <1>0, FS_EmptySet
    <2>3. SumFunctionOnSet(f, s) = 0
        BY <2>2, SumRecursion
    <2> QED BY <2>3
<1>2. ASSUME NEW n \in Nat, n \in T
      PROVE  n + 1 \in T
    <2>1. SUFFICES ASSUME NEW s \in SUBSET S, Cardinality(s) = n + 1
                   PROVE  SumFunctionOnSet(f, s) \in D
        OBVIOUS
    <2> DEFINE r == s \ {Pick(s)}
    <2>2. s # {} /\ IsFiniteSet(s)
        BY <2>1, <1>0, FS_EmptySet
    <2>3. Pick(s) \in s
        BY <2>2, PickIn
    <2>4. r \in SUBSET S /\ Cardinality(r) = n
        <3>1. Cardinality(r) = Cardinality(s) - 1
            BY <2>2, <2>3, FS_RemoveElement
        <3> QED BY <2>1, <3>1
    <2>5. SumFunctionOnSet(f, r) \in D
        BY <2>4, <1>2
    <2>6. SumFunctionOnSet(f, s) = f[Pick(s)] + SumFunctionOnSet(f, r)
        BY <2>2, SumRecursion
    <2>7. f[Pick(s)] \in D
        BY <2>3
    <2> QED BY <2>5, <2>6, <2>7
<1>3. \A n \in Nat : n \in T
    <2> HIDE DEF T
    <2> QED BY <1>1, <1>2, NatSetInduction
<1> QED BY <1>0, <1>3

THEOREM SumEmpty == ASSUME NEW f PROVE SumFunctionOnSet(f, {}) = 0
BY SumRecursion, FS_EmptySet

(***************************************************************************)
(* Adding an element to the set adds its value to the sum, whichever       *)
(* element the recursive definition would have taken first.                *)
(***************************************************************************)
THEOREM SumAddElement ==
    ASSUME NEW S, IsFiniteSet(S), NEW x, x \notin S,
           NEW f, \A y \in S \cup {x} : f[y] \in Int
    PROVE  SumFunctionOnSet(f, S \cup {x}) = SumFunctionOnSet(f, S) + f[x]
<1> DEFINE V == S \cup {x}
           Sum(s) == SumFunctionOnSet(f, s)
           T == {n \in Nat : \A s \in SUBSET V : \A y \in V \ s :
                    Cardinality(s) = n => Sum(s \cup {y}) = Sum(s) + f[y]}
<1>0. IsFiniteSet(V)
    BY FS_AddElement
<1>1. \A s \in SUBSET V : IsFiniteSet(s) /\ Cardinality(s) \in Nat
    BY <1>0, FS_Subset, FS_CardinalityType
<1>2. \A s \in SUBSET V : Sum(s) \in Int
    <2> SUFFICES ASSUME NEW s \in SUBSET V PROVE Sum(s) \in Int
        OBVIOUS
    <2>1. \A y \in s : f[y] \in Int
        OBVIOUS
    <2> QED BY <2>1, <1>1, SumType
<1>3. 0 \in T
    <2>1. SUFFICES ASSUME NEW s \in SUBSET V, NEW y \in V \ s, Cardinality(s) = 0
                   PROVE  Sum(s \cup {y}) = Sum(s) + f[y]
        OBVIOUS
    <2>2. s = {}
        BY <2>1, <1>1, FS_EmptySet
    <2>3. s \cup {y} = {y} /\ IsFiniteSet({y}) /\ Pick({y}) = y /\ {y} \ {y} = {}
        BY <2>2, FS_Singleton DEF Pick
    <2>4. Sum({y}) = f[y] + Sum({})
        BY <2>3, SumRecursion
    <2> QED BY <2>2, <2>3, <2>4, <1>2
<1>4. ASSUME NEW n \in Nat, n \in T
      PROVE  n + 1 \in T
    <2>1. SUFFICES ASSUME NEW s \in SUBSET V, NEW y \in V \ s, Cardinality(s) = n + 1
                   PROVE  Sum(s \cup {y}) = Sum(s) + f[y]
        OBVIOUS
    <2> DEFINE u == s \cup {y}
               p == Pick(u)
               q == s \ {p}
    <2>2. u \in SUBSET V /\ IsFiniteSet(u) /\ p \in u
        BY <1>1, PickIn
    <2>3. Sum(u) = f[p] + Sum(u \ {p})
        BY <2>2, SumRecursion
    <2>4. f[y] \in Int /\ f[p] \in Int
        BY <2>2
    <2>5. CASE p = y
        <3>1. u \ {p} = s
            BY <2>5
        <3>2. Sum(s) \in Int
            BY <1>2
        <3>3. Sum(u) = f[y] + Sum(s)
            BY <3>1, <2>3, <2>5
        <3>4. Sum(u) = Sum(s) + f[y]
            <4> HIDE DEF Sum, u, p
            <4> QED BY <3>2, <3>3, <2>4
        <3> QED BY <3>4
    <2>6. CASE p # y
        <3>1. p \in s /\ q \in SUBSET V /\ y \in V \ q /\ p \in V \ q
            BY <2>2, <2>6
        <3>2. Cardinality(q) = n
            <4>1. Cardinality(q) = Cardinality(s) - 1
                BY <3>1, <1>1, FS_RemoveElement
            <4> QED BY <4>1, <2>1
        <3>3. Sum(q \cup {y}) = Sum(q) + f[y] /\ Sum(q \cup {p}) = Sum(q) + f[p]
            BY <3>1, <3>2, <1>4
        <3>4. u \ {p} = q \cup {y} /\ q \cup {p} = s
            BY <3>1, <2>6
        <3>5. Sum(q) \in Int /\ Sum(s) \in Int
            BY <3>1, <1>2
        <3>6. Sum(u) = f[p] + (Sum(q) + f[y])
            BY <2>3, <3>3, <3>4
        <3>7. Sum(s) = Sum(q) + f[p]
            BY <3>3, <3>4
        <3>8. Sum(u) = Sum(s) + f[y]
            <4> HIDE DEF Sum, u, p, q
            <4> QED BY <3>5, <3>6, <3>7, <2>4
        <3> QED BY <3>8
    <2> QED BY <2>5, <2>6
<1>5. \A n \in Nat : n \in T
    <2> HIDE DEF T
    <2> QED BY <1>3, <1>4, NatSetInduction
<1>6. S \in SUBSET V /\ x \in V \ S
    OBVIOUS
<1> QED BY <1>1, <1>5, <1>6

(***************************************************************************)
(* Functions that agree on a set have the same sum over it.                *)
(***************************************************************************)
THEOREM SumCongruence ==
    ASSUME NEW S, IsFiniteSet(S), NEW f, NEW g, \A x \in S : f[x] = g[x]
    PROVE  SumFunctionOnSet(f, S) = SumFunctionOnSet(g, S)
<1> DEFINE T == {n \in Nat : \A s \in SUBSET S : Cardinality(s) = n =>
                    SumFunctionOnSet(f, s) = SumFunctionOnSet(g, s)}
<1>0. \A s \in SUBSET S : IsFiniteSet(s) /\ Cardinality(s) \in Nat
    BY FS_Subset, FS_CardinalityType
<1>1. 0 \in T
    <2>1. \A s \in SUBSET S : Cardinality(s) = 0 => s = {}
        BY <1>0, FS_EmptySet
    <2> QED BY <2>1, SumEmpty
<1>2. ASSUME NEW n \in Nat, n \in T
      PROVE  n + 1 \in T
    <2>1. SUFFICES ASSUME NEW s \in SUBSET S, Cardinality(s) = n + 1
                   PROVE  SumFunctionOnSet(f, s) = SumFunctionOnSet(g, s)
        OBVIOUS
    <2> DEFINE r == s \ {Pick(s)}
    <2>2. s # {} /\ IsFiniteSet(s)
        BY <2>1, <1>0, FS_EmptySet
    <2>3. Pick(s) \in s
        BY <2>2, PickIn
    <2>4. r \in SUBSET S /\ Cardinality(r) = n
        <3>1. Cardinality(r) = Cardinality(s) - 1
            BY <2>2, <2>3, FS_RemoveElement
        <3> QED BY <2>1, <3>1
    <2>5. SumFunctionOnSet(f, r) = SumFunctionOnSet(g, r)
        BY <2>4, <1>2
    <2>6. SumFunctionOnSet(f, s) = f[Pick(s)] + SumFunctionOnSet(f, r)
        BY <2>2, SumRecursion
    <2>7. SumFunctionOnSet(g, s) = g[Pick(s)] + SumFunctionOnSet(g, r)
        BY <2>2, SumRecursion
    <2> QED BY <2>3, <2>5, <2>6, <2>7
<1>3. \A n \in Nat : n \in T
    <2> HIDE DEF T
    <2> QED BY <1>1, <1>2, NatSetInduction
<1> QED BY <1>0, <1>3

(***************************************************************************)
(* Induction over the subsets of a finite set, over a set of sets.         *)
(***************************************************************************)
LEMMA SubsetInduction ==
    ASSUME NEW S, IsFiniteSet(S), NEW T, {} \in T,
           \A s \in SUBSET S : \A x \in S \ s : s \in T => s \cup {x} \in T
    PROVE  S \in T
<1> DEFINE N == {n \in Nat : \A s \in SUBSET S : Cardinality(s) = n => s \in T}
<1>0. \A s \in SUBSET S : IsFiniteSet(s) /\ Cardinality(s) \in Nat
    BY FS_Subset, FS_CardinalityType
<1>1. 0 \in N
    BY <1>0, FS_EmptySet
<1>2. ASSUME NEW n \in Nat, n \in N
      PROVE  n + 1 \in N
    <2>1. SUFFICES ASSUME NEW s \in SUBSET S, Cardinality(s) = n + 1
                   PROVE  s \in T
        OBVIOUS
    <2> DEFINE x == Pick(s)
               r == s \ {x}
    <2>2. x \in s
        <3>1. s # {}
            BY <2>1, <1>0, FS_EmptySet
        <3> QED BY <3>1, PickIn
    <2>3. r \in SUBSET S /\ x \in S \ r /\ r \cup {x} = s
        BY <2>2
    <2>4. Cardinality(r) = n
        <3>1. Cardinality(r) = Cardinality(s) - 1
            BY <2>2, <1>0, FS_RemoveElement
        <3> QED BY <2>1, <3>1
    <2>5. r \in T
        BY <2>3, <2>4, <1>2
    <2> HIDE DEF x, r
    <2> QED BY <2>3, <2>5
<1>3. \A n \in Nat : n \in N
    <2> HIDE DEF N
    <2> QED BY <1>1, <1>2, NatSetInduction
<1> QED BY <1>0, <1>3

LEMMA SumInt ==
    ASSUME NEW S, IsFiniteSet(S), NEW f, \A x \in S : f[x] \in Int
    PROVE  \A s \in SUBSET S : IsFiniteSet(s) /\ SumFunctionOnSet(f, s) \in Int
<1> SUFFICES ASSUME NEW s \in SUBSET S
             PROVE  IsFiniteSet(s) /\ SumFunctionOnSet(f, s) \in Int
    OBVIOUS
<1>1. IsFiniteSet(s) /\ \A x \in s : f[x] \in Int
    BY FS_Subset
<1> QED BY <1>1, SumType

\* One more element, seen from a set that holds it.
LEMMA SumGrows ==
    ASSUME NEW S, IsFiniteSet(S), NEW f, \A x \in S : f[x] \in Int
    PROVE  \A s \in SUBSET S : \A x \in S \ s :
                SumFunctionOnSet(f, s \cup {x}) = SumFunctionOnSet(f, s) + f[x]
<1> SUFFICES ASSUME NEW s \in SUBSET S, NEW x \in S \ s
             PROVE  SumFunctionOnSet(f, s \cup {x}) = SumFunctionOnSet(f, s) + f[x]
    OBVIOUS
<1>1. IsFiniteSet(s) /\ x \notin s /\ \A y \in s \cup {x} : f[y] \in Int
    BY FS_Subset
<1> QED BY <1>1, SumAddElement

(***************************************************************************)
(* A sum of sums is taken term by term.                                    *)
(***************************************************************************)
LEMMA SumOfTwo ==
    ASSUME NEW S, IsFiniteSet(S), NEW f, NEW g, NEW h,
           \A x \in S : f[x] \in Int /\ g[x] \in Int /\ h[x] = f[x] + g[x]
    PROVE  SumFunctionOnSet(h, S) = SumFunctionOnSet(f, S) + SumFunctionOnSet(g, S)
<1> DEFINE T == {s \in SUBSET S : SumFunctionOnSet(h, s)
                                    = SumFunctionOnSet(f, s) + SumFunctionOnSet(g, s)}
<1>0. \A x \in S : f[x] \in Int /\ g[x] \in Int /\ h[x] \in Int
    OBVIOUS
<1>1. {} \in T
    BY SumEmpty
<1>2. ASSUME NEW s \in SUBSET S, NEW x \in S \ s, s \in T
      PROVE  s \cup {x} \in T
    <2>1. /\ SumFunctionOnSet(f, s) \in Int /\ SumFunctionOnSet(g, s) \in Int
          /\ SumFunctionOnSet(h, s) \in Int
        BY <1>0, SumInt
    <2>2. /\ SumFunctionOnSet(f, s \cup {x}) = SumFunctionOnSet(f, s) + f[x]
          /\ SumFunctionOnSet(g, s \cup {x}) = SumFunctionOnSet(g, s) + g[x]
          /\ SumFunctionOnSet(h, s \cup {x}) = SumFunctionOnSet(h, s) + h[x]
        BY <1>0, SumGrows
    <2>3. SumFunctionOnSet(h, s) = SumFunctionOnSet(f, s) + SumFunctionOnSet(g, s)
        BY <1>2
    <2>4. f[x] \in Int /\ g[x] \in Int /\ h[x] = f[x] + g[x]
        OBVIOUS
    <2> QED BY <2>1, <2>2, <2>3, <2>4
<1>3. S \in T
    <2> HIDE DEF T
    <2> QED BY <1>1, <1>2, SubsetInduction
<1> QED BY <1>3

(***************************************************************************)
(* Smaller terms, smaller sum.                                             *)
(***************************************************************************)
LEMMA SumMonotone ==
    ASSUME NEW S, IsFiniteSet(S), NEW f, NEW g,
           \A x \in S : f[x] \in Int /\ g[x] \in Int /\ f[x] <= g[x]
    PROVE  SumFunctionOnSet(f, S) <= SumFunctionOnSet(g, S)
<1> DEFINE T == {s \in SUBSET S : SumFunctionOnSet(f, s) <= SumFunctionOnSet(g, s)}
<1>0. \A x \in S : f[x] \in Int /\ g[x] \in Int
    OBVIOUS
<1>1. {} \in T
    BY SumEmpty
<1>2. ASSUME NEW s \in SUBSET S, NEW x \in S \ s, s \in T
      PROVE  s \cup {x} \in T
    <2>1. SumFunctionOnSet(f, s) \in Int /\ SumFunctionOnSet(g, s) \in Int
        BY <1>0, SumInt
    <2>2. /\ SumFunctionOnSet(f, s \cup {x}) = SumFunctionOnSet(f, s) + f[x]
          /\ SumFunctionOnSet(g, s \cup {x}) = SumFunctionOnSet(g, s) + g[x]
        BY <1>0, SumGrows
    <2>3. SumFunctionOnSet(f, s) <= SumFunctionOnSet(g, s)
        BY <1>2
    <2>4. f[x] \in Int /\ g[x] \in Int /\ f[x] <= g[x]
        OBVIOUS
    <2> QED BY <2>1, <2>2, <2>3, <2>4
<1>3. S \in T
    <2> HIDE DEF T
    <2> QED BY <1>1, <1>2, SubsetInduction
<1> QED BY <1>3

(***************************************************************************)
(* The sum over a part is the sum over the whole of what counts only there.*)
(***************************************************************************)
LEMMA SumOfPart ==
    ASSUME NEW S, IsFiniteSet(S), NEW R \in SUBSET S, NEW f, NEW g,
           \A x \in S : f[x] \in Int /\ g[x] = IF x \in R THEN f[x] ELSE 0
    PROVE  SumFunctionOnSet(f, R) = SumFunctionOnSet(g, S)
<1> DEFINE T == {s \in SUBSET S : SumFunctionOnSet(f, s \cap R) = SumFunctionOnSet(g, s)}
<1>0. \A x \in S : f[x] \in Int /\ g[x] \in Int
    OBVIOUS
<1>1. {} \in T
    <2>1. {} \cap R = {}
        OBVIOUS
    <2> QED BY <2>1, SumEmpty
<1>2. ASSUME NEW s \in SUBSET S, NEW x \in S \ s, s \in T
      PROVE  s \cup {x} \in T
    <2> DEFINE p == s \cap R
    <2>1. SumFunctionOnSet(f, p) \in Int /\ SumFunctionOnSet(g, s) \in Int
        BY <1>0, SumInt
    <2>2. SumFunctionOnSet(g, s \cup {x}) = SumFunctionOnSet(g, s) + g[x]
        BY <1>0, SumGrows
    <2>3. SumFunctionOnSet(f, p) = SumFunctionOnSet(g, s)
        BY <1>2
    <2>4. CASE x \in R
        <3>1. (s \cup {x}) \cap R = p \cup {x} /\ p \in SUBSET S /\ x \in S \ p
            BY <2>4
        <3>2. SumFunctionOnSet(f, p \cup {x}) = SumFunctionOnSet(f, p) + f[x]
            BY <3>1, <1>0, SumGrows
        <3>3. g[x] = f[x] /\ f[x] \in Int
            BY <2>4
        <3>4. SumFunctionOnSet(f, (s \cup {x}) \cap R) = SumFunctionOnSet(g, s \cup {x})
            <4> HIDE DEF p
            <4> QED BY <2>1, <2>2, <2>3, <3>1, <3>2, <3>3
        <3> QED BY <3>4
    <2>5. CASE x \notin R
        <3>1. (s \cup {x}) \cap R = p /\ g[x] = 0
            BY <2>5
        <3>2. SumFunctionOnSet(f, (s \cup {x}) \cap R) = SumFunctionOnSet(g, s \cup {x})
            <4>1. SumFunctionOnSet(f, (s \cup {x}) \cap R) = SumFunctionOnSet(f, p)
                BY <3>1
            <4>2. SumFunctionOnSet(g, s \cup {x}) = SumFunctionOnSet(g, s)
                BY <2>1, <2>2, <3>1
            <4> QED BY <2>3, <4>1, <4>2
        <3> QED BY <3>2
    <2> QED BY <2>4, <2>5
<1>3. S \in T
    <2> HIDE DEF T
    <2> QED BY <1>1, <1>2, SubsetInduction
<1>4. S \cap R = R
    OBVIOUS
<1> QED BY <1>3, <1>4

(***************************************************************************)
(* When the terms change in one place only, so does the sum, by as much.   *)
(***************************************************************************)
LEMMA SumChangesAtOne ==
    ASSUME NEW S, IsFiniteSet(S), NEW f, NEW g, NEW k \in S,
           \A x \in S : f[x] \in Int /\ g[x] \in Int,
           \A x \in S \ {k} : g[x] = f[x]
    PROVE  SumFunctionOnSet(g, S) = SumFunctionOnSet(f, S) + (g[k] - f[k])
<1> DEFINE R == S \ {k}
<1>1. R \in SUBSET S /\ k \in S \ R /\ R \cup {k} = S
    OBVIOUS
<1>2. IsFiniteSet(R) /\ SumFunctionOnSet(f, R) \in Int
    BY <1>1, SumInt
<1>3. SumFunctionOnSet(g, R) = SumFunctionOnSet(f, R)
    BY <1>2, SumCongruence
<1>4. /\ SumFunctionOnSet(f, R \cup {k}) = SumFunctionOnSet(f, R) + f[k]
      /\ SumFunctionOnSet(g, R \cup {k}) = SumFunctionOnSet(g, R) + g[k]
    BY <1>1, SumGrows
<1>5. f[k] \in Int /\ g[k] \in Int
    OBVIOUS
<1>6. SumFunctionOnSet(g, R \cup {k}) = SumFunctionOnSet(f, R \cup {k}) + (g[k] - f[k])
    <2> HIDE DEF R
    <2> QED BY <1>2, <1>3, <1>4, <1>5
<1> QED BY <1>1, <1>6

(***************************************************************************)
(* Two sets apart are summed one after the other.                          *)
(***************************************************************************)
LEMMA SumOfDisjoint ==
    ASSUME NEW S, IsFiniteSet(S), NEW f, \A x \in S : f[x] \in Int,
           NEW P \in SUBSET S, NEW Q \in SUBSET S, P \cap Q = {}
    PROVE  SumFunctionOnSet(f, P \cup Q) = SumFunctionOnSet(f, P) + SumFunctionOnSet(f, Q)
<1> DEFINE g == [x \in S |-> IF x \in P THEN f[x] ELSE 0]
           h == [x \in S |-> IF x \in Q THEN f[x] ELSE 0]
           e == [x \in S |-> IF x \in P \cup Q THEN f[x] ELSE 0]
<1>1. SumFunctionOnSet(f, P) = SumFunctionOnSet(g, S)
    BY SumOfPart
<1>2. SumFunctionOnSet(f, Q) = SumFunctionOnSet(h, S)
    BY SumOfPart
<1>3. SumFunctionOnSet(f, P \cup Q) = SumFunctionOnSet(e, S)
    <2>1. P \cup Q \in SUBSET S
        OBVIOUS
    <2> QED BY <2>1, SumOfPart
<1>4. \A x \in S : g[x] \in Int /\ h[x] \in Int /\ e[x] = g[x] + h[x]
    OBVIOUS
<1>5. SumFunctionOnSet(e, S) = SumFunctionOnSet(g, S) + SumFunctionOnSet(h, S)
    <2> HIDE DEF e, g, h
    <2> QED BY <1>4, SumOfTwo
<1> QED BY <1>1, <1>2, <1>3, <1>5

(***************************************************************************)
(* Summing each class of a set and then the classes is summing the set;    *)
(* k gives the class of an element, B the elements of a class, F its sum.  *)
(***************************************************************************)
LEMMA SumByClass ==
    ASSUME NEW S, IsFiniteSet(S), NEW f, \A x \in S : f[x] \in Int,
           NEW G, IsFiniteSet(G), NEW k, \A x \in S : k[x] \in G,
           NEW B, \A c \in G : /\ B[c] \in SUBSET S
                               /\ \A x \in S : x \in B[c] <=> k[x] = c,
           NEW F, \A c \in G : F[c] = SumFunctionOnSet(f, B[c])
    PROVE  SumFunctionOnSet(F, G) = SumFunctionOnSet(f, S)
<1> DEFINE In(q) == {x \in S : k[x] \in q}
           T == {q \in SUBSET G : SumFunctionOnSet(F, q) = SumFunctionOnSet(f, In(q))}
<1>1. \A q : In(q) \in SUBSET S
    OBVIOUS
<1>3. \A c \in G : F[c] = SumFunctionOnSet(f, B[c]) /\ F[c] \in Int
    <2>1. \A s \in SUBSET S : SumFunctionOnSet(f, s) \in Int
        BY SumInt
    <2> QED BY <2>1
<1>4. {} \in T
    <2>1. In({}) = {}
        OBVIOUS
    <2> QED BY <2>1, SumEmpty
<1>5. ASSUME NEW q \in SUBSET G, NEW c \in G \ q, q \in T
      PROVE  q \cup {c} \in T
    <2>1. In(q \cup {c}) = In(q) \cup B[c] /\ In(q) \cap B[c] = {}
        OBVIOUS
    <2>2. SumFunctionOnSet(f, In(q) \cup B[c])
            = SumFunctionOnSet(f, In(q)) + SumFunctionOnSet(f, B[c])
        <3> HIDE DEF In
        <3> QED BY <2>1, <1>1, SumOfDisjoint
    <2>3. SumFunctionOnSet(F, q \cup {c}) = SumFunctionOnSet(F, q) + F[c]
        <3>1. \A p \in G : F[p] \in Int
            BY <1>3
        <3> QED BY <3>1, SumGrows
    <2>4. SumFunctionOnSet(F, q) = SumFunctionOnSet(f, In(q))
        BY <1>5
    <2>5. SumFunctionOnSet(F, q \cup {c}) = SumFunctionOnSet(f, In(q \cup {c}))
        <3> HIDE DEF In
        <3> QED BY <1>3, <2>1, <2>2, <2>3, <2>4
    <2> QED BY <2>5
<1>6. G \in T
    <2> HIDE DEF T
    <2> QED BY <1>4, <1>5, SubsetInduction
<1>7. In(G) = S
    OBVIOUS
<1> QED BY <1>6, <1>7

LEMMA SumUpTo ==
    ASSUME NEW b \in Nat, NEW f, \A i \in 1..b : f[i] \in Int
    PROVE  /\ \A a \in 0..b : SumFunctionOnSet(f, 1..a) \in Int
           /\ \A a \in 0..b : a < b =>
                SumFunctionOnSet(f, 1..(a + 1)) = SumFunctionOnSet(f, 1..a) + f[a + 1]
<1>1. IsFiniteSet(1..b)
    BY FS_Interval
<1>2. ASSUME NEW a \in 0..b
      PROVE  SumFunctionOnSet(f, 1..a) \in Int
    <2>1. 1..a \in SUBSET (1..b)
        OBVIOUS
    <2> QED BY <2>1, <1>1, SumInt
<1>3. ASSUME NEW a \in 0..b, a < b
      PROVE  SumFunctionOnSet(f, 1..(a + 1)) = SumFunctionOnSet(f, 1..a) + f[a + 1]
    <2>1. 1..a \in SUBSET (1..b) /\ a + 1 \in (1..b) \ (1..a)
        BY <1>3
    <2>2. 1..(a + 1) = (1..a) \cup {a + 1}
        <3>1. a \in Nat
            OBVIOUS
        <3> QED BY <3>1
    <2>3. SumFunctionOnSet(f, (1..a) \cup {a + 1}) = SumFunctionOnSet(f, 1..a) + f[a + 1]
        <3> DEFINE S == 1..b
                   s == 1..a
                   x == a + 1
        <3>1. s \in SUBSET S /\ x \in S \ s /\ IsFiniteSet(S) /\ \A i \in S : f[i] \in Int
            BY <2>1, <1>1
        <3> HIDE DEF S, s, x
        <3>2. SumFunctionOnSet(f, s \cup {x}) = SumFunctionOnSet(f, s) + f[x]
            BY <3>1, SumGrows
        <3> QED BY <3>2 DEF s, x
    <2> QED BY <2>2, <2>3
<1> QED BY <1>2, <1>3

(***************************************************************************)
(* A sum over 1..(c + n) is the sum over 1..c and the sum of what follows, *)
(* counted from one.                                                       *)
(***************************************************************************)
LEMMA SumOfNext ==
    ASSUME NEW c \in Nat, NEW n \in Nat, NEW f, NEW e,
           \A i \in 1..(c + n) : f[i] \in Int,
           \A j \in 1..n : e[j] = f[c + j]
    PROVE  SumFunctionOnSet(f, 1..(c + n))
             = SumFunctionOnSet(f, 1..c) + SumFunctionOnSet(e, 1..n)
<1> DEFINE All(m) == SumFunctionOnSet(f, 1..(c + m))
           New(m) == SumFunctionOnSet(e, 1..m)
           T == {m \in Nat : m <= n => All(m) = All(0) + New(m)}
<1>1. \A j \in 1..n : e[j] \in Int
    OBVIOUS
<1>2. ASSUME NEW m \in 0..n
      PROVE  All(m) \in Int /\ New(m) \in Int
    <2>1. c + m \in 0..(c + n) /\ c + n \in Nat
        OBVIOUS
    <2>2. All(m) \in Int
        BY <2>1, SumUpTo
    <2>3. New(m) \in Int
        BY <1>1, SumUpTo
    <2> QED BY <2>2, <2>3
<1>3. 0 \in T
    <2>1. 1..0 = {}
        OBVIOUS
    <2>2. New(0) = 0
        BY <2>1, SumEmpty
    <2>3. All(0) \in Int
        <3>1. 0 \in 0..n
            OBVIOUS
        <3> QED BY <3>1, <1>2
    <2>4. All(0) = All(0) + New(0)
        <3> HIDE DEF All, New
        <3> QED BY <2>2, <2>3
    <2> QED BY <2>4
<1>4. ASSUME NEW m \in Nat, m \in T
      PROVE  m + 1 \in T
    <2>1. SUFFICES ASSUME m + 1 <= n
                   PROVE  All(m + 1) = All(0) + New(m + 1)
        OBVIOUS
    <2>2. All(m) = All(0) + New(m)
        BY <1>4, <2>1
    <2>3. All(m + 1) = All(m) + f[c + (m + 1)]
        <3>1. /\ c + m \in 0..(c + n) /\ c + n \in Nat /\ c + m < c + n
              /\ (c + m) + 1 = c + (m + 1)
            BY <2>1
        <3>2. SumFunctionOnSet(f, 1..((c + m) + 1))
                = SumFunctionOnSet(f, 1..(c + m)) + f[(c + m) + 1]
            BY <3>1, SumUpTo
        <3> QED BY <3>1, <3>2
    <2>4. New(m + 1) = New(m) + e[m + 1]
        <3>1. m \in 0..n /\ m < n
            BY <2>1
        <3> QED BY <3>1, <1>1, SumUpTo
    <2>5. e[m + 1] = f[c + (m + 1)] /\ e[m + 1] \in Int
        BY <2>1, <1>1
    <2>6. All(0) \in Int /\ All(m) \in Int /\ New(m) \in Int
        <3>1. 0 \in 0..n /\ m \in 0..n
            BY <2>1
        <3> HIDE DEF All, New
        <3> QED BY <3>1, <1>2
    <2> HIDE DEF All, New
    <2> QED BY <2>2, <2>3, <2>4, <2>5, <2>6
<1>5. n \in T
    <2>1. \A m \in Nat : m \in T
        <3> HIDE DEF T
        <3> QED BY <1>3, <1>4, NatSetInduction
    <2> QED BY <2>1
<1>6. All(n) = All(0) + New(n)
    <2> HIDE DEF All, New
    <2> QED BY <1>5
<1>7. All(0) = SumFunctionOnSet(f, 1..c)
    <2>1. c + 0 = c
        OBVIOUS
    <2> QED BY <2>1
<1> QED BY <1>6, <1>7

-----------------------------------------------------------------------------
(***************************************************************************)
(* Places.  The place of an element of a finite set, in a strict order of  *)
(* the set, is the number of the elements before it: the places are the    *)
(* numbers from 0, in the order of the elements, one for each.             *)
(***************************************************************************)
InOrder(S, R) ==
    /\ \A x, y \in S : x # y => <<x, y>> \in R \/ <<y, x>> \in R
    /\ \A x \in S : <<x, x>> \notin R
    /\ \A x, y, z \in S : <<x, y>> \in R /\ <<y, z>> \in R => <<x, z>> \in R

Places(S, R) == [x \in S |-> Cardinality({y \in S : <<y, x>> \in R})]

LEMMA PlacesInOrder ==
    ASSUME NEW S, IsFiniteSet(S), NEW R, InOrder(S, R)
    PROVE  /\ Cardinality(S) \in Nat
           /\ \A x \in S : Places(S, R)[x] \in 0..(Cardinality(S) - 1)
           /\ \A x, y \in S : <<x, y>> \in R <=> Places(S, R)[x] < Places(S, R)[y]
<1> DEFINE p == Places(S, R)
           Earlier(x) == {y \in S : <<y, x>> \in R}
<1>1. Cardinality(S) \in Nat
    BY FS_CardinalityType
<1>2. ASSUME NEW x \in S
      PROVE  IsFiniteSet(Earlier(x)) /\ Cardinality(Earlier(x)) \in Nat /\ p[x] = Cardinality(Earlier(x))
    <2>1. Earlier(x) \in SUBSET S
        OBVIOUS
    <2> QED BY <2>1, FS_Subset, FS_CardinalityType DEF Places
<1>3. ASSUME NEW x \in S PROVE p[x] \in 0..(Cardinality(S) - 1)
    <2> DEFINE others == S \ {x}
    <2>1. Earlier(x) \in SUBSET others
        BY DEF InOrder
    <2>2. IsFiniteSet(others) /\ Cardinality(others) = Cardinality(S) - 1
        BY FS_RemoveElement
    <2>3. Cardinality(Earlier(x)) <= Cardinality(others)
        <3> HIDE DEF others, Earlier
        <3> QED BY <2>1, <2>2, FS_Subset
    <2> QED BY <1>1, <1>2, <2>2, <2>3
<1>4. ASSUME NEW x \in S, NEW y \in S, <<x, y>> \in R PROVE p[x] < p[y]
    <2> DEFINE upTo == Earlier(x) \cup {x}
    <2>1. x \notin Earlier(x)
        BY DEF InOrder
    <2>2. upTo \in SUBSET Earlier(y)
        BY <1>4 DEF InOrder
    <2>3. Cardinality(upTo) = Cardinality(Earlier(x)) + 1
        <3> HIDE DEF Earlier
        <3> QED BY <1>2, <2>1, FS_AddElement
    <2>4. Cardinality(upTo) <= Cardinality(Earlier(y))
        <3> HIDE DEF upTo, Earlier
        <3> QED BY <1>2, <2>2, FS_Subset
    <2>5. /\ p[x] = Cardinality(Earlier(x)) /\ p[y] = Cardinality(Earlier(y))
          /\ p[x] \in Nat /\ p[y] \in Nat
        BY <1>2
    <2> HIDE DEF upTo, Earlier, p
    <2> QED BY <2>3, <2>4, <2>5
<1>5. ASSUME NEW x \in S, NEW y \in S, <<x, y>> \notin R PROVE ~(p[x] < p[y])
    <2>1. CASE x = y
        BY <2>1, <1>3
    <2>2. CASE x # y
        <3>1. <<y, x>> \in R
            BY <2>2, <1>5 DEF InOrder
        <3>2. p[x] \in Int /\ p[y] \in Int
            BY <1>3
        <3> QED BY <3>1, <3>2, <1>4
    <2> QED BY <2>1, <2>2
<1> HIDE DEF p
<1>6. \A x, y \in S : <<x, y>> \in R <=> p[x] < p[y]
    BY <1>4, <1>5
<1> QED BY <1>1, <1>3, <1>6 DEF p

\* As many elements have places from m on and before n as there are numbers.
LEMMA PlacesCount ==
    ASSUME NEW S, IsFiniteSet(S), NEW R, InOrder(S, R),
           NEW m \in Nat, NEW n \in Nat, m <= n, n <= Cardinality(S)
    PROVE  LET T == {x \in S : m <= Places(S, R)[x] /\ Places(S, R)[x] < n}
           IN  IsFiniteSet(T) /\ Cardinality(T) = n - m
<1> DEFINE p == Places(S, R)
           N == 0..(Cardinality(S) - 1)
           T == {x \in S : m <= p[x] /\ p[x] < n}
           M == m..(n - 1)
           q == [x \in T |-> p[x]]
<1>0. Cardinality(S) \in Nat
    BY FS_CardinalityType
<1>1. p \in [S -> N]
    BY PlacesInOrder DEF Places
<1>2. \A x, y \in S : p[x] = p[y] => x = y
    <2> SUFFICES ASSUME NEW x \in S, NEW y \in S, p[x] = p[y], x # y PROVE FALSE
        OBVIOUS
    <2>1. <<x, y>> \in R \/ <<y, x>> \in R
        BY DEF InOrder
    <2>2. p[x] < p[y] \/ p[y] < p[x]
        BY <2>1, PlacesInOrder
    <2>3. p[x] \in Int /\ p[y] \in Int
        BY <1>1
    <2> QED BY <2>2, <2>3
<1> HIDE DEF p
<1>3. p \in Injection(S, N)
    BY <1>1, <1>2 DEF Injection, IsInjective
<1>4. IsFiniteSet(N) /\ Cardinality(N) = Cardinality(S)
    <2>1. Cardinality(S) - 1 \in Int /\ 0 \in Int
        BY <1>0
    <2>2. IsFiniteSet(0..(Cardinality(S) - 1)) /\ Cardinality(0..(Cardinality(S) - 1))
            = IF 0 > Cardinality(S) - 1 THEN 0 ELSE Cardinality(S) - 1 - 0 + 1
        BY <2>1, FS_Interval
    <2> QED BY <1>0, <2>2
<1>5. p \in Surjection(S, N)
    <2> HIDE DEF N
    <2> QED BY <1>3, <1>4, FS_Injection
<1>6. \A k \in M : \E x \in T : p[x] = k
    BY <1>0, <1>5, <1>1 DEF Surjection
<1>7. q \in [T -> M]
    BY <1>1
<1>8. q \in Bijection(T, M)
    BY <1>2, <1>6, <1>7 DEF Bijection, Injection, Surjection, IsInjective
<1>9. IsFiniteSet(M) /\ Cardinality(M) = n - m
    <2>1. m \in Int /\ n - 1 \in Int
        OBVIOUS
    <2>2. IsFiniteSet(m..(n - 1)) /\ Cardinality(m..(n - 1)) = IF m > n - 1 THEN 0 ELSE n - 1 - m + 1
        BY <2>1, FS_Interval
    <2> QED BY <2>2
<1>10. T \in SUBSET S
    OBVIOUS
<1>11. IsFiniteSet(T)
    <2> HIDE DEF T
    <2> QED BY <1>10, FS_Subset
<1>12. Cardinality(M) = Cardinality(T)
    <2> HIDE DEF T, M, q
    <2> QED BY <1>8, <1>11, FS_Bijection DEF ExistsBijection
<1> QED BY <1>9, <1>11, <1>12 DEF p

\* An order of a finite set begins, and ends, with an element.
LEMMA FirstOfOrder ==
    ASSUME NEW S, IsFiniteSet(S), S # {}, NEW R, InOrder(S, R)
    PROVE  \E x \in S : \A y \in S : y # x => <<x, y>> \in R
<1> DEFINE T == {s \in SUBSET S : s = {} \/ \E x \in s : \A y \in s : y # x => <<x, y>> \in R}
<1>1. {} \in T
    OBVIOUS
<1>2. \A s \in SUBSET S : \A z \in S \ s : s \in T => s \cup {z} \in T
    <2> SUFFICES ASSUME NEW s \in SUBSET S, NEW z \in S \ s, s \in T
                 PROVE  \E x \in s \cup {z} : \A y \in s \cup {z} : y # x => <<x, y>> \in R
        OBVIOUS
    <2>1. CASE s = {}
        BY <2>1
    <2>2. CASE s # {}
        <3>1. PICK x \in s : \A y \in s : y # x => <<x, y>> \in R
            BY <2>2
        <3>2. CASE <<x, z>> \in R
            BY <3>1, <3>2
        <3>3. CASE <<z, x>> \in R
            BY <3>1, <3>3 DEF InOrder
        <3> QED BY <3>2, <3>3 DEF InOrder
    <2> QED BY <2>1, <2>2
<1>3. S \in T
    <2> HIDE DEF T
    <2> QED BY <1>1, <1>2, SubsetInduction
<1> QED BY <1>3

LEMMA LastOfOrder ==
    ASSUME NEW S, IsFiniteSet(S), S # {}, NEW R, InOrder(S, R)
    PROVE  \E x \in S : \A y \in S : y # x => <<y, x>> \in R
<1> DEFINE Q == {<<y, x>> : y, x \in S} 
           B == {e \in Q : <<e[2], e[1]>> \in R}
<1>1. \A x, y \in S : <<x, y>> \in B <=> <<y, x>> \in R
    OBVIOUS
<1>2. InOrder(S, B)
    <2> HIDE DEF B
    <2> QED BY <1>1 DEF InOrder
<1>3. \E x \in S : \A y \in S : y # x => <<x, y>> \in B
    <2> HIDE DEF B
    <2> QED BY <1>2, FirstOfOrder
<1> QED
    <2> HIDE DEF B
    <2> QED BY <1>1, <1>3
=============================================================================
