-------------------------------- MODULE Sums --------------------------------
(***************************************************************************)
(* What SumFunctionOnSet of the community modules computes: balances,      *)
(* limits and supplies are sums, and the proofs about them cite these      *)
(* lemmas.  The operator is a fold, a recursive function over the subsets  *)
(* of its set.  Nothing here is an induction: a false statement about      *)
(* finite sets would be false of a smallest set, and that one is refuted.  *)
(***************************************************************************)
EXTENDS Integers, Functions, FiniteSetTheorems, TLAPS

PickOf(s) == CHOOSE x \in s : TRUE

\* The body of the fold, an element and the rest
FoldStep(F, g, s) == IF s = {} THEN 0 ELSE F[PickOf(s)] + g[s \ {PickOf(s)}]

FoldIter(F, S) == CHOOSE iter : iter = [s \in SUBSET S |-> FoldStep(F, iter, s)]

\* The community operator is the fixpoint named here.
LEMMA Unfold ==
    ASSUME NEW F, NEW S
    PROVE  SumFunctionOnSet(F, S) = FoldIter(F, S)[S]
  BY DEF SumFunctionOnSet, FoldFunctionOnSet, MapThenFoldSet, FoldIter, FoldStep, PickOf

\* The fold takes an element of the set.
LEMMA PickIn ==
    ASSUME NEW s, s # {}
    PROVE  PickOf(s) \in s
  BY DEF PickOf

\* Some set is minimal among any family of subsets of a finite set.
LEMMA MinimalSubset ==
    ASSUME NEW S, IsFiniteSet(S), NEW T, T \subseteq SUBSET S, T # {}
    PROVE  \E s \in T : \A u \in T : u \subseteq s => u = s
  <1>1. IsWellFoundedOn(StrictSubsetOrdering(S), SUBSET S)
    BY FS_StrictSubsetOrderingWellFounded, FS_FiniteSubsetsOfFinite
  <1>2. \E s \in T : \A u \in T : ~ (<<u, s>> \in StrictSubsetOrdering(S))
    BY <1>1, WFMin
  <1> QED BY <1>2 DEF StrictSubsetOrdering

\* A set of natural numbers that is not empty has a least element.
LEMMA LeastNat ==
    ASSUME NEW T, T \subseteq Nat, T # {}
    PROVE  \E n \in T : \A m \in T : ~(m < n)
  <1>1. \E x \in T : \A y \in T : ~(<<y, x>> \in OpToRel(<,Nat))
    BY NatLessThanWellFounded, WFMin
  <1> QED BY <1>1, Zenon DEF OpToRel

\* The recursion has a solution: solutions up to each size extend to the next.
LEMMA IterExists ==
    ASSUME NEW F, NEW S, IsFiniteSet(S)
    PROVE  \E g : g = [s \in SUBSET S |-> FoldStep(F, g, s)]
  <1> DEFINE Upto(n) == {s \in SUBSET S : Cardinality(s) <= n}
             Good(n) == \E g : g = [s \in Upto(n) |-> FoldStep(F, g, s)]
             Bad == {n \in Nat : ~Good(n)}
  <1>0. \A s \in SUBSET S : IsFiniteSet(s) /\ Cardinality(s) \in Nat /\ Cardinality(s) <= Cardinality(S)
    BY FS_Subset, FS_CardinalityType
  <1>1. Bad = {}
    <2> SUFFICES ASSUME Bad # {} PROVE FALSE
      OBVIOUS
    <2>1. PICK n \in Bad : \A m \in Bad : ~(m < n)
      <3> HIDE DEF Good, Upto
      <3> QED BY LeastNat
    <2>2. CASE n = 0
      <3> DEFINE g == [s \in Upto(0) |-> 0]
      <3>1. \A s \in Upto(0) : s = {}
        BY <1>0, FS_EmptySet
      <3>2. g = [s \in Upto(0) |-> FoldStep(F, g, s)]
        BY <3>1 DEF FoldStep
      <3> QED BY <2>1, <2>2, <3>2
    <2>3. CASE n # 0
      <3>0. n \in Nat /\ n - 1 \in Nat /\ n - 1 < n
        <4> HIDE DEF Good
        <4> QED BY <2>1, <2>3
      <3>1. Good(n - 1)
        <4> HIDE DEF Good
        <4> QED BY <3>0, <2>1
      <3>2. PICK g : g = [s \in Upto(n - 1) |-> FoldStep(F, g, s)]
        BY <3>1
      <3> DEFINE h == [s \in Upto(n) |-> FoldStep(F, g, s)]
      <3>3. ASSUME NEW s \in Upto(n) PROVE FoldStep(F, g, s) = FoldStep(F, h, s)
        <4>1. CASE s = {} BY <4>1 DEF FoldStep
        <4>2. CASE s # {}
          <5> DEFINE r == s \ {PickOf(s)}
          <5>1. r \in Upto(n - 1) /\ r \in Upto(n)
            BY <1>0, <3>0, <4>2, PickIn, FS_RemoveElement
          <5>2. g[r] = FoldStep(F, g, r)
            <6> HIDE DEF Upto, r
            <6> QED BY <3>2, <5>1
          <5>3. h[r] = FoldStep(F, g, r)
            <6> HIDE DEF Upto, r
            <6> QED BY <5>1
          <5> HIDE DEF h
          <5> QED BY <5>2, <5>3, <4>2 DEF FoldStep
        <4> QED BY <4>1, <4>2
      <3>4. h = [s \in Upto(n) |-> FoldStep(F, h, s)]
        <4> HIDE DEF Upto
        <4> QED BY <3>3
      <3>5. Good(n)
        <4> HIDE DEF h, Upto
        <4> QED BY <3>4
      <3> QED BY <3>5, <2>1
    <2> QED BY <2>2, <2>3
  <1>2. Good(Cardinality(S))
    <2> HIDE DEF Good
    <2> QED BY <1>0, <1>1
  <1>3. Upto(Cardinality(S)) = SUBSET S
    BY <1>0
  <1> QED BY <1>2, <1>3

\* The chosen fixpoint is one.
LEMMA IterFix ==
    ASSUME NEW F, NEW S, IsFiniteSet(S)
    PROVE  FoldIter(F, S) = [s \in SUBSET S |-> FoldStep(F, FoldIter(F, S), s)]
  BY IterExists DEF FoldIter

\* Its value at a part of the set.
LEMMA IterAt ==
    ASSUME NEW F, NEW S, IsFiniteSet(S), NEW R \in SUBSET S
    PROVE  FoldIter(F, S)[R] = FoldStep(F, FoldIter(F, S), R)
  <1>1. FoldIter(F, S) = [q \in SUBSET S |-> FoldStep(F, FoldIter(F, S), q)]
    BY IterFix
  <1> QED BY <1>1, Zenon

\* A sum over a part of the set, as computed by the iteration over the whole.
LEMMA IterSame ==
    ASSUME NEW F, NEW S, IsFiniteSet(S), NEW R \in SUBSET S
    PROVE  FoldIter(F, S)[R] = FoldIter(F, R)[R]
  <1> DEFINE Bad == {s \in SUBSET R : FoldIter(F, S)[s] # FoldIter(F, R)[s]}
  <1>0. IsFiniteSet(R)
    BY FS_Subset
  <1>1. SUFFICES ASSUME Bad # {} PROVE FALSE
    OBVIOUS
  <1>2. PICK s \in Bad : \A u \in Bad : u \subseteq s => u = s
    <2>1. Bad \subseteq SUBSET R OBVIOUS
    <2> HIDE DEF Bad
    <2> QED BY <1>0, <1>1, <2>1, MinimalSubset
  <1>3. FoldIter(F, S)[s] = FoldStep(F, FoldIter(F, S), s) /\ FoldIter(F, R)[s] = FoldStep(F, FoldIter(F, R), s)
    <2>1. s \in SUBSET S /\ s \in SUBSET R
      OBVIOUS
    <2> QED BY <1>0, <2>1, IterAt
  <1>4. s # {}
    BY <1>3 DEF FoldStep
  <1>5. s \ {PickOf(s)} \notin Bad
    BY <1>2, <1>4, PickIn
  <1>6. FoldIter(F, S)[s \ {PickOf(s)}] = FoldIter(F, R)[s \ {PickOf(s)}]
    BY <1>5
  <1> QED BY <1>3, <1>4, <1>6 DEF FoldStep

\* A sum takes one step of its recursion.
LEMMA SumStep ==
    ASSUME NEW F, NEW S, IsFiniteSet(S)
    PROVE  SumFunctionOnSet(F, S) = FoldStep(F, FoldIter(F, S), S)
  BY IterAt, Unfold

\* The sum over nothing is 0.
LEMMA SumEmpty ==
    ASSUME NEW F
    PROVE  SumFunctionOnSet(F, {}) = 0
  BY SumStep, FS_EmptySet DEF FoldStep

\* The element the fold takes first can be taken out.
LEMMA SumPick ==
    ASSUME NEW F, NEW S, IsFiniteSet(S), S # {}
    PROVE  SumFunctionOnSet(F, S) = F[PickOf(S)] + SumFunctionOnSet(F, S \ {PickOf(S)})
  <1>1. SumFunctionOnSet(F, S) = FoldStep(F, FoldIter(F, S), S)
    BY SumStep
  <1>2. FoldIter(F, S)[S \ {PickOf(S)}] = FoldIter(F, S \ {PickOf(S)})[S \ {PickOf(S)}]
    BY IterSame
  <1> QED BY <1>1, <1>2, Unfold DEF FoldStep

\* A sum of integers is an integer.
LEMMA SumInt ==
    ASSUME NEW F, NEW S, IsFiniteSet(S), \A x \in S : F[x] \in Int
    PROVE  SumFunctionOnSet(F, S) \in Int
  <1> DEFINE Bad == {s \in SUBSET S : SumFunctionOnSet(F, s) \notin Int}
  <1>1. SUFFICES ASSUME Bad # {} PROVE FALSE
    OBVIOUS
  <1>2. PICK s \in Bad : \A u \in Bad : u \subseteq s => u = s
    <2>1. Bad \subseteq SUBSET S OBVIOUS
    <2> HIDE DEF Bad
    <2> QED BY <1>1, <2>1, MinimalSubset
  <1>3. IsFiniteSet(s)
    BY FS_Subset
  <1>4. s # {}
    BY SumEmpty
  <1>5. SumFunctionOnSet(F, s \ {PickOf(s)}) \in Int
    BY <1>2, <1>4, PickIn
  <1> QED BY <1>3, <1>4, <1>5, SumPick, PickIn

\* Any element can be taken out of a sum, not only the one the fold begins with.
LEMMA SumRemove ==
    ASSUME NEW F, NEW S, IsFiniteSet(S), \A x \in S : F[x] \in Int, NEW e \in S
    PROVE  SumFunctionOnSet(F, S) = F[e] + SumFunctionOnSet(F, S \ {e})
  <1> DEFINE Bad == {s \in SUBSET S : \E x \in s :
                       SumFunctionOnSet(F, s) # F[x] + SumFunctionOnSet(F, s \ {x})}
  <1>1. SUFFICES ASSUME Bad # {} PROVE FALSE
    OBVIOUS
  <1>2. PICK s \in Bad : \A u \in Bad : u \subseteq s => u = s
    <2>1. Bad \subseteq SUBSET S OBVIOUS
    <2> HIDE DEF Bad
    <2> QED BY <1>1, <2>1, MinimalSubset
  <1>3. PICK x \in s : SumFunctionOnSet(F, s) # F[x] + SumFunctionOnSet(F, s \ {x})
    OBVIOUS
  <1> DEFINE p == PickOf(s)
  <1>4. IsFiniteSet(s) /\ IsFiniteSet(s \ {p}) /\ IsFiniteSet(s \ {x}) /\ IsFiniteSet((s \ {p}) \ {x})
    BY FS_Subset
  <1>5. SumFunctionOnSet(F, s) = F[p] + SumFunctionOnSet(F, s \ {p}) /\ p \in s
    BY <1>4, SumPick, PickIn
  <1>6. x # p
    BY <1>3, <1>5
  <1>7. SumFunctionOnSet(F, s \ {p}) = F[x] + SumFunctionOnSet(F, (s \ {p}) \ {x})
    <2>1. s \ {p} \notin Bad
      <3> HIDE DEF Bad, p
      <3> QED BY <1>2, <1>5
    <2>2. s \ {p} \in SUBSET S /\ x \in s \ {p}
      BY <1>6
    <2> HIDE DEF p
    <2> QED BY <2>1, <2>2
  <1>8. SumFunctionOnSet(F, s \ {x}) = F[p] + SumFunctionOnSet(F, (s \ {x}) \ {p})
    <2>1. s \ {x} \notin Bad
      <3> HIDE DEF Bad, p
      <3> QED BY <1>2, <1>3
    <2>2. s \ {x} \in SUBSET S /\ p \in s \ {x}
      BY <1>5, <1>6
    <2> HIDE DEF p
    <2> QED BY <2>1, <2>2
  <1>9. (s \ {x}) \ {p} = (s \ {p}) \ {x}
    OBVIOUS
  <1>10. F[x] \in Int /\ F[p] \in Int /\ SumFunctionOnSet(F, (s \ {p}) \ {x}) \in Int
    <2> HIDE DEF p
    <2> QED BY <1>4, <1>5, SumInt
  <1>11. SumFunctionOnSet(F, s \ {x}) = F[p] + SumFunctionOnSet(F, (s \ {p}) \ {x})
    BY <1>8, <1>9
  <1> HIDE DEF p, Bad
  <1>12. SumFunctionOnSet(F, s) = F[x] + SumFunctionOnSet(F, s \ {x})
    BY <1>5, <1>7, <1>10, <1>11
  <1> QED BY <1>3, <1>12

\* One more element adds its value.
LEMMA SumAdd ==
    ASSUME NEW F, NEW S, IsFiniteSet(S), \A x \in S : F[x] \in Int,
           NEW e, e \notin S, F[e] \in Int
    PROVE  SumFunctionOnSet(F, S \cup {e}) = SumFunctionOnSet(F, S) + F[e]
  <1>1. IsFiniteSet(S \cup {e}) /\ (S \cup {e}) \ {e} = S /\ e \in S \cup {e}
    BY FS_AddElement
  <1>2. SumFunctionOnSet(F, S \cup {e}) = F[e] + SumFunctionOnSet(F, (S \cup {e}) \ {e})
    <2>1. \A x \in S \cup {e} : F[x] \in Int
      OBVIOUS
    <2> QED BY <1>1, <2>1, SumRemove
  <1>3. SumFunctionOnSet(F, S) \in Int
    BY SumInt
  <1>4. SumFunctionOnSet(F, S \cup {e}) = F[e] + SumFunctionOnSet(F, S)
    BY <1>1, <1>2, Zenon
  <1> QED BY <1>3, <1>4

\* Only the values on the set matter.
LEMMA SumSame ==
    ASSUME NEW F, NEW S, IsFiniteSet(S), \A x \in S : F[x] \in Int,
           NEW G, \A x \in S : G[x] = F[x]
    PROVE  SumFunctionOnSet(G, S) = SumFunctionOnSet(F, S)
  <1> DEFINE Bad == {s \in SUBSET S : SumFunctionOnSet(G, s) # SumFunctionOnSet(F, s)}
  <1>1. SUFFICES ASSUME Bad # {} PROVE FALSE
    OBVIOUS
  <1>2. PICK s \in Bad : \A u \in Bad : u \subseteq s => u = s
    <2>1. Bad \subseteq SUBSET S OBVIOUS
    <2> HIDE DEF Bad
    <2> QED BY <1>1, <2>1, MinimalSubset
  <1>3. IsFiniteSet(s)
    BY FS_Subset
  <1>4. s # {}
    BY SumEmpty
  <1>5. PICK e \in s : TRUE
    BY <1>4
  <1>6. s \ {e} \notin Bad /\ s \ {e} \in SUBSET S
    BY <1>2
  <1>7. SumFunctionOnSet(F, s) = F[e] + SumFunctionOnSet(F, s \ {e})
    BY <1>3, <1>5, SumRemove
  <1>8. SumFunctionOnSet(G, s) = G[e] + SumFunctionOnSet(G, s \ {e})
    BY <1>3, <1>5, SumRemove
  <1> QED BY <1>5, <1>6, <1>7, <1>8

\* When one value changes, the sum changes by the difference.
LEMMA SumUpdate ==
    ASSUME NEW F, NEW S, IsFiniteSet(S), \A x \in S : F[x] \in Int,
           NEW G, NEW e \in S, G[e] \in Int, \A x \in S \ {e} : G[x] = F[x]
    PROVE  SumFunctionOnSet(G, S) = SumFunctionOnSet(F, S) - F[e] + G[e]
  <1>1. SumFunctionOnSet(F, S) = F[e] + SumFunctionOnSet(F, S \ {e})
    BY SumRemove
  <1>2. SumFunctionOnSet(G, S) = G[e] + SumFunctionOnSet(G, S \ {e})
    <2>1. \A x \in S : G[x] \in Int
      OBVIOUS
    <2> QED BY <2>1, SumRemove
  <1>3. IsFiniteSet(S \ {e})
    BY FS_Subset
  <1>4. SumFunctionOnSet(G, S \ {e}) = SumFunctionOnSet(F, S \ {e})
    BY <1>3, SumSame
  <1>5. SumFunctionOnSet(F, S \ {e}) \in Int
    BY <1>3, SumInt
  <1> QED BY <1>1, <1>2, <1>4, <1>5

\* A sum over one element more, as two functions on their own domains.
LEMMA SumGrow ==
    ASSUME NEW F, NEW S, IsFiniteSet(S), \A x \in S : F[x] \in Int,
           NEW e, e \notin S, NEW G, G[e] \in Int, \A x \in S : G[x] = F[x]
    PROVE  SumFunctionOnSet(G, S \cup {e}) = SumFunctionOnSet(F, S) + G[e]
  <1>1. SumFunctionOnSet(G, S \cup {e}) = SumFunctionOnSet(G, S) + G[e]
    BY SumAdd
  <1>2. SumFunctionOnSet(G, S) = SumFunctionOnSet(F, S)
    BY SumSame
  <1> QED
    BY <1>1, <1>2

\* Smaller values have a smaller sum.
LEMMA SumAtMost ==
    ASSUME NEW F, NEW S, IsFiniteSet(S), \A x \in S : F[x] \in Int,
           NEW G, \A x \in S : G[x] \in Int /\ F[x] <= G[x]
    PROVE  SumFunctionOnSet(F, S) <= SumFunctionOnSet(G, S)
  <1> DEFINE Bad == {s \in SUBSET S : ~(SumFunctionOnSet(F, s) <= SumFunctionOnSet(G, s))}
  <1>1. SUFFICES ASSUME Bad # {} PROVE FALSE
    OBVIOUS
  <1>2. PICK s \in Bad : \A u \in Bad : u \subseteq s => u = s
    <2>1. Bad \subseteq SUBSET S OBVIOUS
    <2> HIDE DEF Bad
    <2> QED BY <1>1, <2>1, MinimalSubset
  <1>3. IsFiniteSet(s)
    BY FS_Subset
  <1>4. s # {}
    BY SumEmpty
  <1>5. PICK e \in s : TRUE
    BY <1>4
  <1>6. s \ {e} \notin Bad /\ s \ {e} \in SUBSET S
    BY <1>2
  <1>7. SumFunctionOnSet(F, s) = F[e] + SumFunctionOnSet(F, s \ {e})
    BY <1>3, <1>5, SumRemove
  <1>8. SumFunctionOnSet(G, s) = G[e] + SumFunctionOnSet(G, s \ {e})
    BY <1>3, <1>5, SumRemove
  <1>9. SumFunctionOnSet(F, s \ {e}) \in Int /\ SumFunctionOnSet(G, s \ {e}) \in Int
    <2>1. IsFiniteSet(s \ {e})
      BY FS_Subset
    <2> QED BY <1>6, <2>1, SumInt
  <1> QED BY <1>5, <1>6, <1>7, <1>8, <1>9

\* A bound on each value bounds the sum.
LEMMA SumBound ==
    ASSUME NEW F, NEW S, IsFiniteSet(S), \A x \in S : F[x] \in Int,
           NEW c \in Int, \A x \in S : F[x] <= c
    PROVE  SumFunctionOnSet(F, S) <= c * Cardinality(S)
  <1> DEFINE Bad == {s \in SUBSET S : ~(SumFunctionOnSet(F, s) <= c * Cardinality(s))}
  <1>1. SUFFICES ASSUME Bad # {} PROVE FALSE
    OBVIOUS
  <1>2. PICK s \in Bad : \A u \in Bad : u \subseteq s => u = s
    <2>1. Bad \subseteq SUBSET S OBVIOUS
    <2> HIDE DEF Bad
    <2> QED BY <1>1, <2>1, MinimalSubset
  <1>3. IsFiniteSet(s)
    BY FS_Subset
  <1>4. s # {}
    <2>1. SumFunctionOnSet(F, {}) = 0 /\ Cardinality({}) = 0
      BY SumEmpty, FS_EmptySet
    <2>2. s = {} => SumFunctionOnSet(F, s) = 0 /\ Cardinality(s) = 0
      BY <2>1, Zenon
    <2>3. ~(SumFunctionOnSet(F, s) <= c * Cardinality(s))
      BY <1>2
    <2> QED BY <2>2, <2>3
  <1>5. PICK e \in s : TRUE
    BY <1>4
  <1>6. s \ {e} \notin Bad /\ s \ {e} \in SUBSET S
    BY <1>2
  <1>7. SumFunctionOnSet(F, s) = F[e] + SumFunctionOnSet(F, s \ {e})
    BY <1>3, <1>5, SumRemove
  <1>8. Cardinality(s) = Cardinality(s \ {e}) + 1 /\ Cardinality(s \ {e}) \in Nat
    <2>1. IsFiniteSet(s \ {e}) /\ Cardinality(s \ {e}) = Cardinality(s) - 1
      BY <1>3, <1>5, FS_RemoveElement
    <2>2. Cardinality(s) \in Nat /\ Cardinality(s \ {e}) \in Nat
      BY <1>3, <2>1, FS_CardinalityType
    <2> QED BY <2>1, <2>2
  <1>9. SumFunctionOnSet(F, s \ {e}) \in Int
    <2>1. IsFiniteSet(s \ {e})
      BY FS_Subset
    <2> QED BY <1>6, <2>1, SumInt
  <1>10. SumFunctionOnSet(F, s \ {e}) <= c * Cardinality(s \ {e})
    BY <1>6
  <1>11. c * Cardinality(s) = c * Cardinality(s \ {e}) + c
    BY <1>8
  <1>12. c * Cardinality(s \ {e}) \in Int
    BY <1>8
  <1>13. SumFunctionOnSet(F, s) <= c * Cardinality(s \ {e}) + c
    BY <1>5, <1>7, <1>9, <1>10, <1>12
  <1> QED BY <1>11, <1>13

\* The sum of two functions added is the two sums added.
LEMMA SumPlus ==
    ASSUME NEW F, NEW S, IsFiniteSet(S), \A x \in S : F[x] \in Int,
           NEW G, \A x \in S : G[x] \in Int,
           NEW H, \A x \in S : H[x] = F[x] + G[x]
    PROVE  SumFunctionOnSet(H, S) = SumFunctionOnSet(F, S) + SumFunctionOnSet(G, S)
  <1> DEFINE Bad == {s \in SUBSET S : SumFunctionOnSet(H, s) # SumFunctionOnSet(F, s) + SumFunctionOnSet(G, s)}
  <1>1. SUFFICES ASSUME Bad # {} PROVE FALSE
    OBVIOUS
  <1>2. PICK s \in Bad : \A u \in Bad : u \subseteq s => u = s
    <2>1. Bad \subseteq SUBSET S OBVIOUS
    <2> HIDE DEF Bad
    <2> QED BY <1>1, <2>1, MinimalSubset
  <1>3. IsFiniteSet(s)
    BY FS_Subset
  <1>4. s # {}
    <2>1. SumFunctionOnSet(F, {}) = 0 /\ SumFunctionOnSet(G, {}) = 0 /\ SumFunctionOnSet(H, {}) = 0
      BY SumEmpty
    <2>2. SumFunctionOnSet(H, s) # SumFunctionOnSet(F, s) + SumFunctionOnSet(G, s)
      BY <1>2
    <2>3. s = {} => /\ SumFunctionOnSet(F, s) = 0
                    /\ SumFunctionOnSet(G, s) = 0
                    /\ SumFunctionOnSet(H, s) = 0
      BY <2>1, Zenon
    <2> QED BY <2>2, <2>3
  <1>5. PICK e \in s : TRUE
    BY <1>4
  <1>6. s \ {e} \notin Bad /\ s \ {e} \in SUBSET S
    BY <1>2
  <1>7. SumFunctionOnSet(F, s) = F[e] + SumFunctionOnSet(F, s \ {e})
    BY <1>3, <1>5, SumRemove
  <1>8. SumFunctionOnSet(G, s) = G[e] + SumFunctionOnSet(G, s \ {e})
    BY <1>3, <1>5, SumRemove
  <1>9. SumFunctionOnSet(H, s) = H[e] + SumFunctionOnSet(H, s \ {e})
    <2>1. \A x \in s : H[x] \in Int
      OBVIOUS
    <2> QED BY <1>3, <1>5, <2>1, SumRemove
  <1>10. SumFunctionOnSet(F, s \ {e}) \in Int /\ SumFunctionOnSet(G, s \ {e}) \in Int
    <2>1. IsFiniteSet(s \ {e})
      BY FS_Subset
    <2> QED BY <1>6, <2>1, SumInt
  <1>11. F[e] \in Int /\ G[e] \in Int /\ H[e] = F[e] + G[e]
    BY <1>5
  <1> QED BY <1>6, <1>7, <1>8, <1>9, <1>10, <1>11

\* Sums over disjoint sets add up.
LEMMA SumUnion ==
    ASSUME NEW F, NEW S, IsFiniteSet(S), NEW R, IsFiniteSet(R), R \cap S = {},
           \A x \in S \cup R : F[x] \in Int
    PROVE  SumFunctionOnSet(F, R \cup S) = SumFunctionOnSet(F, R) + SumFunctionOnSet(F, S)
  <1> DEFINE Bad == {s \in SUBSET S : SumFunctionOnSet(F, R \cup s) # SumFunctionOnSet(F, R) + SumFunctionOnSet(F, s)}
  <1>1. SUFFICES ASSUME Bad # {} PROVE FALSE
    OBVIOUS
  <1>2. PICK s \in Bad : \A u \in Bad : u \subseteq s => u = s
    <2>1. Bad \subseteq SUBSET S OBVIOUS
    <2> HIDE DEF Bad
    <2> QED BY <1>1, <2>1, MinimalSubset
  <1>3. IsFiniteSet(s)
    BY FS_Subset
  <1>4. s # {}
    BY SumEmpty, SumInt
  <1>5. PICK e \in s : TRUE
    BY <1>4
  <1>6. s \ {e} \notin Bad /\ s \ {e} \in SUBSET S
    BY <1>2
  <1>7. SumFunctionOnSet(F, s) = F[e] + SumFunctionOnSet(F, s \ {e})
    BY <1>3, <1>5, SumRemove
  <1>8. SumFunctionOnSet(F, R \cup s) = F[e] + SumFunctionOnSet(F, R \cup (s \ {e}))
    <2>1. IsFiniteSet(R \cup s)
      BY <1>3, FS_Union
    <2>2. (R \cup s) \ {e} = R \cup (s \ {e}) /\ e \in R \cup s
      BY <1>5
    <2>3. \A x \in R \cup s : F[x] \in Int
      OBVIOUS
    <2> QED BY <2>1, <2>2, <2>3, SumRemove
  <1>9. SumFunctionOnSet(F, s \ {e}) \in Int /\ SumFunctionOnSet(F, R) \in Int /\ F[e] \in Int
    <2>1. IsFiniteSet(s \ {e})
      BY FS_Subset
    <2> QED BY <1>5, <1>6, <2>1, SumInt
  <1>10. SumFunctionOnSet(F, R \cup (s \ {e})) = SumFunctionOnSet(F, R) + SumFunctionOnSet(F, s \ {e})
    BY <1>6
  <1> QED BY <1>7, <1>8, <1>9, <1>10

\* A sum of natural numbers is one.
LEMMA SumNat ==
    ASSUME NEW F, NEW S, IsFiniteSet(S), \A x \in S : F[x] \in Nat
    PROVE  SumFunctionOnSet(F, S) \in Nat
  <1> DEFINE Zero == [x \in S |-> 0]
  <1>1. SumFunctionOnSet(Zero, S) <= SumFunctionOnSet(F, S)
    <2>1. \A x \in S : Zero[x] \in Int /\ F[x] \in Int /\ Zero[x] <= F[x]
      OBVIOUS
    <2> HIDE DEF Zero
    <2> QED BY <2>1, SumAtMost
  <1>2. SumFunctionOnSet(Zero, S) = SumFunctionOnSet(Zero, S) + SumFunctionOnSet(Zero, S)
    <2>1. \A x \in S : Zero[x] \in Int /\ Zero[x] = Zero[x] + Zero[x]
      OBVIOUS
    <2> HIDE DEF Zero
    <2> QED BY <2>1, SumPlus
  <1>3. SumFunctionOnSet(Zero, S) \in Int /\ SumFunctionOnSet(F, S) \in Int
    BY SumInt
  <1> HIDE DEF Zero
  <1> QED BY <1>1, <1>2, <1>3

\* A part of the set has at most the sum of the whole.
LEMMA SumPart ==
    ASSUME NEW F, NEW S, IsFiniteSet(S), \A x \in S : F[x] \in Nat, NEW R \in SUBSET S
    PROVE  SumFunctionOnSet(F, R) <= SumFunctionOnSet(F, S)
  <1>1. IsFiniteSet(R) /\ IsFiniteSet(S \ R) /\ R \cup (S \ R) = S
    BY FS_Subset
  <1>2. SumFunctionOnSet(F, R \cup (S \ R)) = SumFunctionOnSet(F, R) + SumFunctionOnSet(F, S \ R)
    <2>1. R \cap (S \ R) = {} /\ \A x \in (S \ R) \cup R : F[x] \in Int
      OBVIOUS
    <2> QED BY <1>1, <2>1, SumUnion
  <1>3. SumFunctionOnSet(F, S \ R) \in Nat /\ SumFunctionOnSet(F, R) \in Nat
    BY <1>1, SumNat
  <1>4. SumFunctionOnSet(F, S) = SumFunctionOnSet(F, R) + SumFunctionOnSet(F, S \ R)
    BY <1>1, <1>2, Zenon
  <1> QED BY <1>3, <1>4

\* A common factor can be taken out.
LEMMA SumTimes ==
    ASSUME NEW F, NEW S, IsFiniteSet(S), \A x \in S : F[x] \in Int, NEW k \in Int,
           NEW G, \A x \in S : G[x] = k * F[x]
    PROVE  SumFunctionOnSet(G, S) = k * SumFunctionOnSet(F, S)
  <1> DEFINE Bad == {s \in SUBSET S : SumFunctionOnSet(G, s) # k * SumFunctionOnSet(F, s)}
  <1>1. SUFFICES ASSUME Bad # {} PROVE FALSE
    OBVIOUS
  <1>2. PICK s \in Bad : \A u \in Bad : u \subseteq s => u = s
    <2>1. Bad \subseteq SUBSET S OBVIOUS
    <2> HIDE DEF Bad
    <2> QED BY <1>1, <2>1, MinimalSubset
  <1>3. IsFiniteSet(s) /\ IsFiniteSet({}) /\ {} \subseteq S
    BY FS_Subset, FS_EmptySet
  <1>4. s # {}
    <2>1. SumFunctionOnSet(F, {}) = 0 /\ SumFunctionOnSet(G, {}) = 0
      BY SumEmpty
    <2>2. SumFunctionOnSet(G, s) # k * SumFunctionOnSet(F, s)
      BY <1>2
    <2>3. s = {} => SumFunctionOnSet(F, s) = 0 /\ SumFunctionOnSet(G, s) = 0
      BY <2>1, Zenon
    <2> QED BY <2>2, <2>3
  <1>5. PICK e \in s : TRUE
    BY <1>4
  <1>6. s \ {e} \notin Bad /\ s \ {e} \in SUBSET S
    BY <1>2
  <1>7. SumFunctionOnSet(F, s) = F[e] + SumFunctionOnSet(F, s \ {e})
    BY <1>3, <1>5, SumRemove
  <1>8. SumFunctionOnSet(G, s) = G[e] + SumFunctionOnSet(G, s \ {e})
    <2>1. \A x \in S : k * F[x] \in Int
      OBVIOUS
    <2>2. \A x \in s : G[x] \in Int
      BY <2>1
    <2> QED BY <1>3, <1>5, <2>2, SumRemove
  <1>9. SumFunctionOnSet(F, s \ {e}) \in Int
    <2>1. IsFiniteSet(s \ {e})
      BY FS_Subset
    <2> QED BY <1>6, <2>1, SumInt
  <1>10. SumFunctionOnSet(G, s) = k * F[e] + k * SumFunctionOnSet(F, s \ {e})
    <2>1. SumFunctionOnSet(G, s \ {e}) = k * SumFunctionOnSet(F, s \ {e}) /\ G[e] = k * F[e]
      BY <1>5, <1>6
    <2> QED BY <1>8, <2>1, Zenon
  <1>11. SumFunctionOnSet(G, s) = k * SumFunctionOnSet(F, s)
    <2>1. F[e] \in Int
      BY <1>5
    <2>2. k * F[e] + k * SumFunctionOnSet(F, s \ {e}) = k * (F[e] + SumFunctionOnSet(F, s \ {e}))
      BY <1>9, <2>1
    <2> QED BY <1>7, <1>10, <2>2, Zenon
  <1> QED BY <1>2, <1>11, Zenon

\* The sum over a sequence without its first element.
LEMMA SumShift ==
    ASSUME NEW n \in Nat, NEW F, \A i \in 1..(n + 1) : F[i] \in Int,
           NEW G, \A i \in 1..n : G[i] = F[i + 1]
    PROVE  SumFunctionOnSet(G, 1..n) = SumFunctionOnSet(F, 1..(n + 1)) - F[1]
  <1> DEFINE Bad == {m \in 0..n :
                       SumFunctionOnSet(G, 1..m) # SumFunctionOnSet(F, 1..(m + 1)) - F[1]}
  <1>1. SUFFICES ASSUME Bad # {} PROVE FALSE
    OBVIOUS
  <1>2. PICK m \in Bad : \A k \in Bad : ~(k < m)
    <2>1. Bad \subseteq Nat OBVIOUS
    <2> HIDE DEF Bad
    <2> QED BY <1>1, <2>1, LeastNat
  <1>3. \A k \in 0..(n + 1) : IsFiniteSet(1..k)
    BY FS_Interval
  <1>4. m # 0
    <2>1. 1..0 = {} /\ 1..1 = {1}
      OBVIOUS
    <2>2. SumFunctionOnSet(F, {} \cup {1}) = SumFunctionOnSet(F, {}) + F[1]
      <3>1. IsFiniteSet({}) /\ F[1] \in Int /\ 1 \notin {} /\ \A x \in {} : F[x] \in Int
        BY FS_EmptySet
      <3> HIDE DEF Bad
      <3> QED BY <3>1, SumAdd, Zenon
    <2>3. SumFunctionOnSet(G, {}) = 0 /\ SumFunctionOnSet(F, {}) = 0
      BY SumEmpty
    <2>4. F[1] \in Int /\ {} \cup {1} = 1..1
      BY <2>1
    <2>5. SumFunctionOnSet(G, 1..0) = SumFunctionOnSet(F, 1..1) - F[1]
      BY <2>1, <2>2, <2>3, <2>4
    <2>6. 1 = 0 + 1
      OBVIOUS
    <2>7. SumFunctionOnSet(G, 1..0) = SumFunctionOnSet(F, 1..(0 + 1)) - F[1]
      BY <2>5, <2>6
    <2> QED BY <1>2, <2>7, Zenon
  <1>5. /\ m \in 1..n /\ m - 1 \in 0..n /\ m - 1 < m
        /\ 1..m = (1..(m - 1)) \cup {m} /\ m \notin 1..(m - 1)
        /\ 1..(m + 1) = (1..m) \cup {m + 1} /\ m + 1 \notin 1..m /\ (m - 1) + 1 = m
    BY <1>4
  <1>6. SumFunctionOnSet(G, 1..(m - 1)) = SumFunctionOnSet(F, 1..m) - F[1]
    <2>1. m - 1 \notin Bad
      BY <1>2, <1>5
    <2> QED BY <1>5, <2>1
  <1>7. SumFunctionOnSet(G, (1..(m - 1)) \cup {m}) = SumFunctionOnSet(G, 1..(m - 1)) + G[m]
    <2>1. PICK S : S = 1..(m - 1)
      OBVIOUS
    <2>2. IsFiniteSet(S) /\ m \notin S /\ G[m] \in Int /\ \A i \in S : G[i] \in Int
      BY <1>3, <1>5, <2>1
    <2>3. SumFunctionOnSet(G, S \cup {m}) = SumFunctionOnSet(G, S) + G[m]
      BY <2>2, SumAdd
    <2> QED BY <2>1, <2>3, Zenon
  <1>8. SumFunctionOnSet(F, (1..m) \cup {m + 1}) = SumFunctionOnSet(F, 1..m) + F[m + 1]
    <2>1. PICK S, e : S = 1..m /\ e = m + 1
      OBVIOUS
    <2>2. IsFiniteSet(S) /\ e \notin S /\ F[e] \in Int /\ \A i \in S : F[i] \in Int
      BY <1>3, <1>5, <2>1
    <2>3. SumFunctionOnSet(F, S \cup {e}) = SumFunctionOnSet(F, S) + F[e]
      BY <2>2, SumAdd
    <2> QED BY <2>1, <2>3, Zenon
  <1>9. SumFunctionOnSet(G, 1..m) = SumFunctionOnSet(G, 1..(m - 1)) + G[m]
    BY <1>5, <1>7, Zenon
  <1>10. SumFunctionOnSet(F, 1..(m + 1)) = SumFunctionOnSet(F, 1..m) + F[m + 1]
    BY <1>5, <1>8, Zenon
  <1>11. G[m] = F[m + 1] /\ F[m + 1] \in Int /\ F[1] \in Int /\ SumFunctionOnSet(F, 1..m) \in Int
    <2>1. IsFiniteSet(1..m) /\ \A i \in 1..m : F[i] \in Int
      BY <1>3, <1>5
    <2> QED BY <1>5, <2>1, SumInt
  <1>12. SumFunctionOnSet(G, 1..m) = SumFunctionOnSet(F, 1..(m + 1)) - F[1]
    BY <1>6, <1>9, <1>10, <1>11
  <1> QED BY <1>2, <1>12, Zenon

\* The sum over an interval that is one longer.
LEMMA SumNext ==
    ASSUME NEW n \in Nat, NEW F, \A i \in 1..n : F[i] \in Int,
           NEW G, G[n + 1] \in Int, \A i \in 1..n : G[i] = F[i]
    PROVE  SumFunctionOnSet(G, 1..(n + 1)) = SumFunctionOnSet(F, 1..n) + G[n + 1]
  <1>1. PICK S : S = 1..n
    OBVIOUS
  <1>2. PICK e : e = n + 1
    OBVIOUS
  <1>3. IsFiniteSet(S) /\ \A x \in S : F[x] \in Int
    BY <1>1, FS_Interval
  <1>4. e \notin S /\ G[e] \in Int /\ \A x \in S : G[x] = F[x]
    BY <1>1, <1>2
  <1>5. SumFunctionOnSet(G, S \cup {e}) = SumFunctionOnSet(F, S) + G[e]
    BY <1>3, <1>4, SumGrow
  <1>6. S \cup {e} = 1..(n + 1)
    BY <1>1, <1>2
  <1> QED BY <1>1, <1>2, <1>5, <1>6

=============================================================================
