----------------------------- MODULE DataProofs ----------------------------
(***************************************************************************)
(* Facts about the operators of Data and the library's sums: sums and      *)
(* folds over finite sets, lists in an order, and what sorting a set keeps.*)
(* Induction goes without a theorem that takes a predicate: among the      *)
(* numbers, or the subsets, where something fails there would be a least.  *)
(***************************************************************************)
EXTENDS Data, SequencesExt, FiniteSetTheorems, SequenceTheorems, WellFoundedInduction, TLAPS

(* A non-empty set of subsets of a finite set has a smallest.              *)
LEMMA SmallestSubset ==
    ASSUME NEW S, IsFiniteSet(S), NEW F \in SUBSET (SUBSET S), F # {}
    PROVE \E s \in F : \A t \in F : t \subseteq s => t = s
<1>1. IsWellFoundedOn(StrictSubsetOrdering(S), SUBSET S)
  BY FS_StrictSubsetOrderingWellFounded, FS_FiniteSubsetsOfFinite
<1>2. PICK s \in F : \A t \in F : ~(<<t, s>> \in StrictSubsetOrdering(S))
  BY <1>1, WFMin
<1> QED BY <1>2 DEF StrictSubsetOrdering

(* A non-empty set of naturals has a least element. *)
LEMMA LeastNatural ==
    ASSUME NEW S \in SUBSET Nat, S # {}
    PROVE \E n \in S : \A m \in S : n <= m
<1>1. PICK k \in S : TRUE
  OBVIOUS
<1> DEFINE I == 1..k
           F == {1..m : m \in {m \in S : m <= k}}
<1>2. IsFiniteSet(I)
  BY FS_Interval
<1>3. F \in SUBSET (SUBSET I)
  OBVIOUS
<1>4. F # {}
  OBVIOUS
<1> HIDE DEF I, F
<1>5. PICK s \in F : \A t \in F : t \subseteq s => t = s
  BY <1>2, <1>3, <1>4, SmallestSubset
<1> USE DEF F
<1>6. PICK n \in S : n <= k /\ s = 1..n
  OBVIOUS
<1>7. ASSUME NEW m \in S, m < n PROVE FALSE
  <2>1. 1..m \in F /\ 1..m \subseteq 1..n /\ n \in 1..n /\ n \notin 1..m
    BY <1>6, <1>7
  <2> QED BY <1>5, <1>6, <2>1
<1> QED BY <1>7


(***************************************************************************)
(* The sum of f over s takes out one element of s after the other.         *)
(***************************************************************************)
Picked(s) == CHOOSE x \in s : TRUE
Sums(f, S, g) ==
    /\ g = [s \in SUBSET S |-> g[s]]
    /\ \A s \in SUBSET S : g[s] = IF s = {} THEN 0 ELSE f[Picked(s)] + g[s \ {Picked(s)}]

LEMMA Smaller ==
    ASSUME NEW S, IsFiniteSet(S), S # {}
    PROVE /\ Picked(S) \in S /\ S \ {Picked(S)} \in SUBSET S
          /\ IsFiniteSet(S \ {Picked(S)})
          /\ Cardinality(S) \in Nat
          /\ Cardinality(S \ {Picked(S)}) = Cardinality(S) - 1
<1>1. Picked(S) \in S
  BY DEF Picked
<1> QED BY <1>1, FS_RemoveElement, FS_CardinalityType

(* Two functions that obey the recursion are equal.                        *)
LEMMA SumsUnique ==
    ASSUME NEW S, IsFiniteSet(S), NEW f, NEW g, NEW h, Sums(f, S, g), Sums(f, S, h)
    PROVE \A s \in SUBSET S : g[s] = h[s]
<1> DEFINE F == {s \in SUBSET S : g[s] # h[s]}
<1> SUFFICES ASSUME F # {} PROVE FALSE
  OBVIOUS
<1>0. F \in SUBSET (SUBSET S)
  OBVIOUS
<1> HIDE DEF F
<1>1. PICK s \in F : \A t \in F : t \subseteq s => t = s
  BY <1>0, SmallestSubset
<1> USE DEF F
<1>2. s # {}
  BY DEF Sums
<1>3. Picked(s) \in s
  BY <1>2 DEF Picked
<1>4. s \ {Picked(s)} \in SUBSET S /\ s \ {Picked(s)} \notin F
  BY <1>1, <1>3
<1>5. g[s \ {Picked(s)}] = h[s \ {Picked(s)}]
  BY <1>4
<1> HIDE DEF F
<1>6. s \in SUBSET S
  BY DEF F
<1>7. g[s] = h[s]
  BY <1>2, <1>5, <1>6 DEF Sums
<1> QED BY <1>7 DEF F

(* A function that obeys it on the sets of at most n elements.             *)
SumsUpto(f, S, n, g) ==
    /\ g = [s \in SUBSET S |-> g[s]]
    /\ \A s \in SUBSET S : Cardinality(s) <= n =>
          g[s] = IF s = {} THEN 0 ELSE f[Picked(s)] + g[s \ {Picked(s)}]

LEMMA SumsExtend ==
    ASSUME NEW S, IsFiniteSet(S), NEW f, NEW n \in Nat, NEW g, SumsUpto(f, S, n, g)
    PROVE \E h : SumsUpto(f, S, n + 1, h)
<1> DEFINE h == [s \in SUBSET S |->
                    IF Cardinality(s) <= n THEN g[s] ELSE f[Picked(s)] + g[s \ {Picked(s)}]]
<1>1. ASSUME NEW s \in SUBSET S, s # {}, Cardinality(s) <= n + 1
      PROVE h[s] = f[Picked(s)] + h[s \ {Picked(s)}]
  <2>1. IsFiniteSet(s)
    BY FS_Subset
  <2>2. /\ s \ {Picked(s)} \in SUBSET S /\ Cardinality(s) \in Nat
        /\ Cardinality(s \ {Picked(s)}) = Cardinality(s) - 1
    BY <1>1, <2>1, Smaller
  <2>3. h[s \ {Picked(s)}] = g[s \ {Picked(s)}]
    BY <1>1, <2>2
  <2>4. h[s] = f[Picked(s)] + g[s \ {Picked(s)}]
    BY <1>1, <2>2 DEF SumsUpto
  <2> QED BY <2>3, <2>4
<1>2. h[{}] = 0
  <2>1. {} \in SUBSET S /\ Cardinality({}) <= n
    BY FS_EmptySet
  <2>2. h[{}] = g[{}]
    BY <2>1
  <2> QED BY <2>1, <2>2 DEF SumsUpto
<1>3. h = [s \in SUBSET S |-> h[s]]
  OBVIOUS
<1> HIDE DEF h
<1> QED BY <1>1, <1>2, <1>3 DEF SumsUpto

LEMMA SumsExist ==
    ASSUME NEW S, IsFiniteSet(S), NEW f
    PROVE \E g : Sums(f, S, g)
<1> DEFINE N == {n \in Nat : ~ \E g : SumsUpto(f, S, n, g)}
<1>1. N = {}
  <2> SUFFICES ASSUME N # {} PROVE FALSE
    OBVIOUS
  <2>1. PICK n \in N : \A m \in N : n <= m
    BY LeastNatural
  <2>2. SumsUpto(f, S, 0, [s \in SUBSET S |-> 0])
    <3>1. \A s \in SUBSET S : Cardinality(s) <= 0 => s = {}
      BY FS_EmptySet, FS_Subset, FS_CardinalityType
    <3> QED BY <3>1 DEF SumsUpto
  <2>3. n # 0 /\ n - 1 \in Nat /\ n - 1 \notin N
    BY <2>1, <2>2
  <2>4. PICK g : SumsUpto(f, S, n - 1, g)
    BY <2>3
  <2>5. \E h : SumsUpto(f, S, (n - 1) + 1, h)
    BY <2>3, <2>4, SumsExtend
  <2> QED BY <2>1, <2>5
<1>2. Cardinality(S) \in Nat
  BY FS_CardinalityType
<1>3. PICK g : SumsUpto(f, S, Cardinality(S), g)
  BY <1>1, <1>2
<1>4. Sums(f, S, g)
  BY <1>3, FS_Subset DEF Sums, SumsUpto
<1> QED BY <1>4

(* What the definition chooses is one.                                     *)
LEMMA SumIsLast ==
    ASSUME NEW S, IsFiniteSet(S), NEW f, NEW g, Sums(f, S, g)
    PROVE SumFunctionOnSet(f, S) = g[S]
<1> DEFINE Body(h) == [s \in SUBSET S |->
                          IF s = {} THEN 0 ELSE f[Picked(s)] + h[s \ {Picked(s)}]]
           iter == CHOOSE h : h = Body(h)
<1>1. SumFunctionOnSet(f, S) = iter[S]
  BY DEF SumFunctionOnSet, FoldFunctionOnSet, MapThenFoldSet, Picked
<1>2. g = Body(g)
  BY DEF Sums
<1>3. iter = Body(iter)
  BY <1>2
<1>4. Sums(f, S, iter)
  BY <1>3 DEF Sums
<1> QED BY <1>1, <1>4, SumsUnique

(***************************************************************************)
(* What is used of sums.                                                   *)
(***************************************************************************)
LEMMA SumEmpty == ASSUME NEW f PROVE SumFunctionOnSet(f, {}) = 0
<1>1. IsFiniteSet({})
  BY FS_EmptySet
<1>2. PICK g : Sums(f, {}, g)
  BY <1>1, SumsExist
<1>3. g[{}] = 0
  BY <1>2 DEF Sums
<1> QED BY <1>1, <1>2, <1>3, SumIsLast

LEMMA SumStep ==
    ASSUME NEW S, IsFiniteSet(S), S # {}, NEW f
    PROVE SumFunctionOnSet(f, S) = f[Picked(S)] + SumFunctionOnSet(f, S \ {Picked(S)})
<1>1. PICK T : T = S \ {Picked(S)}
  OBVIOUS
<1>2. T \in SUBSET S /\ IsFiniteSet(T)
  BY <1>1, Smaller
<1>3. PICK g : Sums(f, S, g)
  BY SumsExist
<1>4. g[S] = f[Picked(S)] + g[T]
  BY <1>1, <1>3 DEF Sums
<1> DEFINE h == [s \in SUBSET T |-> g[s]]
<1>5. \A s \in SUBSET T :
         h[s] = IF s = {} THEN 0 ELSE f[Picked(s)] + h[s \ {Picked(s)}]
  BY <1>2, <1>3 DEF Sums
<1>6. Sums(f, T, h)
  BY <1>5 DEF Sums
<1>7. SumFunctionOnSet(f, T) = h[T]
  BY <1>2, <1>6, SumIsLast
<1> QED BY <1>1, <1>3, <1>4, <1>7, SumIsLast

LEMMA SumInt ==
    ASSUME NEW S, IsFiniteSet(S), NEW f, \A x \in S : f[x] \in Int
    PROVE SumFunctionOnSet(f, S) \in Int
<1> DEFINE F == {s \in SUBSET S : SumFunctionOnSet(f, s) \notin Int}
<1> SUFFICES ASSUME F # {} PROVE FALSE
  OBVIOUS
<1>1. F \in SUBSET (SUBSET S)
  OBVIOUS
<1> HIDE DEF F
<1>2. PICK s \in F : \A t \in F : t \subseteq s => t = s
  BY <1>1, SmallestSubset
<1> USE DEF F
<1>3. s \in SUBSET S /\ SumFunctionOnSet(f, s) \notin Int
  OBVIOUS
<1> HIDE DEF F
<1>4. s # {} /\ IsFiniteSet(s)
  <2>1. SumFunctionOnSet(f, {}) \in Int
    BY SumEmpty
  <2> QED BY <1>3, <2>1, FS_Subset
<1>5. Picked(s) \in s /\ s \ {Picked(s)} \in SUBSET s
  BY <1>4, Smaller
<1>6. SumFunctionOnSet(f, s \ {Picked(s)}) \in Int
  BY <1>2, <1>3, <1>5 DEF F
<1>7. f[Picked(s)] \in Int
  BY <1>3, <1>5
<1>8. f[Picked(s)] + SumFunctionOnSet(f, s \ {Picked(s)}) \in Int
  BY <1>6, <1>7
<1> QED BY <1>3, <1>4, <1>8, SumStep

LEMMA SumNat ==
    ASSUME NEW S, IsFiniteSet(S), NEW f, \A x \in S : f[x] \in Nat
    PROVE SumFunctionOnSet(f, S) \in Nat
<1> DEFINE F == {s \in SUBSET S : SumFunctionOnSet(f, s) \notin Nat}
<1> SUFFICES ASSUME F # {} PROVE FALSE
  OBVIOUS
<1>1. F \in SUBSET (SUBSET S)
  OBVIOUS
<1> HIDE DEF F
<1>2. PICK s \in F : \A t \in F : t \subseteq s => t = s
  BY <1>1, SmallestSubset
<1> USE DEF F
<1>3. s \in SUBSET S /\ SumFunctionOnSet(f, s) \notin Nat
  OBVIOUS
<1> HIDE DEF F
<1>4. s # {} /\ IsFiniteSet(s)
  <2>1. SumFunctionOnSet(f, {}) \in Nat
    BY SumEmpty
  <2> QED BY <1>3, <2>1, FS_Subset
<1>5. Picked(s) \in s /\ s \ {Picked(s)} \in SUBSET s
  BY <1>4, Smaller
<1>6. SumFunctionOnSet(f, s \ {Picked(s)}) \in Nat
  BY <1>2, <1>3, <1>5 DEF F
<1>7. f[Picked(s)] \in Nat
  BY <1>3, <1>5
<1>8. f[Picked(s)] + SumFunctionOnSet(f, s \ {Picked(s)}) \in Nat
  BY <1>6, <1>7
<1> QED BY <1>3, <1>4, <1>8, SumStep

(* Any element may be taken out first.                                     *)
LEMMA SumRemove ==
    ASSUME NEW S, IsFiniteSet(S), NEW f, \A x \in S : f[x] \in Int, NEW x \in S
    PROVE SumFunctionOnSet(f, S) = f[x] + SumFunctionOnSet(f, S \ {x})
<1> DEFINE F == {s \in SUBSET S : \E y \in s :
                    SumFunctionOnSet(f, s) # f[y] + SumFunctionOnSet(f, s \ {y})}
<1> SUFFICES ASSUME F # {} PROVE FALSE
  OBVIOUS
<1>1. F \in SUBSET (SUBSET S)
  OBVIOUS
<1> HIDE DEF F
<1>2. PICK s \in F : \A t \in F : t \subseteq s => t = s
  BY <1>1, SmallestSubset
<1> USE DEF F
<1>3. s # {} /\ IsFiniteSet(s) /\ s \in SUBSET S
  BY FS_Subset
<1>4. PICK y \in s : SumFunctionOnSet(f, s) # f[y] + SumFunctionOnSet(f, s \ {y})
  OBVIOUS
<1>5. PICK z \in s : SumFunctionOnSet(f, s) = f[z] + SumFunctionOnSet(f, s \ {z})
  BY <1>3, SumStep, Smaller
<1>6. y # z
  BY <1>4, <1>5
<1>7. /\ s \ {y} \in SUBSET S /\ s \ {y} \notin F /\ z \in s \ {y}
      /\ s \ {z} \in SUBSET S /\ s \ {z} \notin F /\ y \in s \ {z}
  BY <1>2, <1>3, <1>6
<1>8. SumFunctionOnSet(f, s \ {y}) = f[z] + SumFunctionOnSet(f, (s \ {y}) \ {z})
  BY <1>7
<1>9. SumFunctionOnSet(f, s \ {z}) = f[y] + SumFunctionOnSet(f, (s \ {z}) \ {y})
  BY <1>7
<1>10. (s \ {y}) \ {z} = (s \ {z}) \ {y}
  OBVIOUS
<1>11. SumFunctionOnSet(f, (s \ {z}) \ {y}) \in Int /\ f[y] \in Int /\ f[z] \in Int
  <2>1. IsFiniteSet((s \ {z}) \ {y}) /\ (s \ {z}) \ {y} \in SUBSET S
    BY <1>3, FS_Subset
  <2> QED BY <1>3, <2>1, SumInt
<1>12. PICK n, a, b : /\ n = SumFunctionOnSet(f, (s \ {z}) \ {y}) /\ a = f[y] /\ b = f[z]
  OBVIOUS
<1>13. n \in Int /\ a \in Int /\ b \in Int
  BY <1>11, <1>12
<1>14. SumFunctionOnSet(f, s) = b + (a + n)
  BY <1>5, <1>9, <1>12
<1>15. f[y] + SumFunctionOnSet(f, s \ {y}) = a + (b + n)
  BY <1>8, <1>10, <1>12
<1>16. b + (a + n) = a + (b + n)
  BY <1>13
<1> QED BY <1>4, <1>14, <1>15, <1>16

LEMMA SumAdd ==
    ASSUME NEW S, IsFiniteSet(S), NEW x, x \notin S, NEW f,
           \A y \in S \cup {x} : f[y] \in Int
    PROVE SumFunctionOnSet(f, S \cup {x}) = f[x] + SumFunctionOnSet(f, S)
<1>1. PICK T : T = S \cup {x}
  OBVIOUS
<1>2. IsFiniteSet(T) /\ x \in T /\ T \ {x} = S
  BY <1>1, FS_AddElement
<1> QED BY <1>1, <1>2, SumRemove

(* Sums of functions that agree are equal.                                 *)
LEMMA SumSame ==
    ASSUME NEW S, IsFiniteSet(S), NEW f, NEW g, \A x \in S : f[x] = g[x]
    PROVE SumFunctionOnSet(f, S) = SumFunctionOnSet(g, S)
<1> DEFINE F == {s \in SUBSET S : SumFunctionOnSet(f, s) # SumFunctionOnSet(g, s)}
<1> SUFFICES ASSUME F # {} PROVE FALSE
  OBVIOUS
<1>1. F \in SUBSET (SUBSET S)
  OBVIOUS
<1> HIDE DEF F
<1>2. PICK s \in F : \A t \in F : t \subseteq s => t = s
  BY <1>1, SmallestSubset
<1> USE DEF F
<1>3. s # {} /\ IsFiniteSet(s) /\ s \in SUBSET S
  BY SumEmpty, FS_Subset
<1>4. Picked(s) \in s /\ s \ {Picked(s)} \in SUBSET s
  BY <1>3, Smaller
<1>5. SumFunctionOnSet(f, s \ {Picked(s)}) = SumFunctionOnSet(g, s \ {Picked(s)})
  BY <1>2, <1>3, <1>4
<1>6. f[Picked(s)] = g[Picked(s)]
  BY <1>3, <1>4
<1> QED BY <1>3, <1>5, <1>6, SumStep

LEMMA SumZero ==
    ASSUME NEW S, IsFiniteSet(S), NEW f, \A x \in S : f[x] = 0
    PROVE SumFunctionOnSet(f, S) = 0
<1> DEFINE F == {s \in SUBSET S : SumFunctionOnSet(f, s) # 0}
<1> SUFFICES ASSUME F # {} PROVE FALSE
  OBVIOUS
<1>1. F \in SUBSET (SUBSET S)
  OBVIOUS
<1> HIDE DEF F
<1>2. PICK s \in F : \A t \in F : t \subseteq s => t = s
  BY <1>1, SmallestSubset
<1>3. s \in SUBSET S /\ SumFunctionOnSet(f, s) # 0 /\ IsFiniteSet(s)
  BY <1>1, FS_Subset DEF F
<1>4. PICK x, t : x \in s /\ t = s \ {x}
  BY <1>3, SumEmpty
<1>5. SumFunctionOnSet(f, s) = f[x] + SumFunctionOnSet(f, t)
  <2>1. \A y \in s : f[y] \in Int
    BY <1>3
  <2> QED BY <1>3, <1>4, <2>1, SumRemove
<1>6. SumFunctionOnSet(f, t) = 0 /\ f[x] = 0
  BY <1>2, <1>3, <1>4 DEF F
<1> QED BY <1>3, <1>5, <1>6

(* Functions that differ in one place have sums that differ by as much.    *)
LEMMA SumChange ==
    ASSUME NEW S, IsFiniteSet(S), NEW x \in S, NEW f, NEW g,
           \A y \in S : f[y] \in Int /\ g[y] \in Int,
           \A y \in S \ {x} : f[y] = g[y]
    PROVE SumFunctionOnSet(g, S) = SumFunctionOnSet(f, S) + g[x] - f[x]
<1>1. IsFiniteSet(S \ {x})
  BY FS_Subset
<1>2. SumFunctionOnSet(f, S \ {x}) = SumFunctionOnSet(g, S \ {x})
  BY <1>1, SumSame
<1>3. /\ SumFunctionOnSet(f, S) = f[x] + SumFunctionOnSet(f, S \ {x})
      /\ SumFunctionOnSet(g, S) = g[x] + SumFunctionOnSet(g, S \ {x})
  BY SumRemove
<1>4. SumFunctionOnSet(f, S \ {x}) \in Int /\ f[x] \in Int /\ g[x] \in Int
  BY <1>1, SumInt
<1> QED BY <1>2, <1>3, <1>4

(* A part of smaller terms has the smaller sum.                            *)
LEMMA SumLeq ==
    ASSUME NEW S, IsFiniteSet(S), NEW T \in SUBSET S, NEW f, NEW g,
           \A x \in S : g[x] \in Nat,
           \A x \in T : f[x] \in Nat /\ f[x] <= g[x]
    PROVE SumFunctionOnSet(f, T) <= SumFunctionOnSet(g, S)
<1> DEFINE Sf(s) == SumFunctionOnSet(f, s)
           Sg(s) == SumFunctionOnSet(g, s)
           F == {s \in SUBSET S : ~(Sf(s \cap T) <= Sg(s))}
<1>0. SUFFICES ASSUME F # {} PROVE FALSE
  <2>1. S \in SUBSET S /\ S \cap T = T
    OBVIOUS
  <2> QED BY <2>1
<1>1. F \in SUBSET (SUBSET S)
  OBVIOUS
<1> HIDE DEF F
<1>2. PICK s \in F : \A t \in F : t \subseteq s => t = s
  BY <1>0, <1>1, SmallestSubset
<1>3. s \in SUBSET S /\ IsFiniteSet(s) /\ IsFiniteSet(s \cap T)
  BY FS_Subset DEF F
<1>4. s # {}
  <2>1. SUFFICES ASSUME s = {} PROVE FALSE
    OBVIOUS
  <2>2. s \cap T = {}
    BY <2>1
  <2>3. Sf(s \cap T) = 0 /\ Sg(s) = 0
    BY <2>1, <2>2, SumEmpty
  <2>4. Sf(s \cap T) <= Sg(s)
    BY <2>3
  <2> QED BY <2>4 DEF F
<1>5. PICK x, r : x = Picked(s) /\ r = s \ {x}
  OBVIOUS
<1>6. x \in s /\ r \in SUBSET S /\ r # s /\ r \subseteq s /\ IsFiniteSet(r) /\ IsFiniteSet(r \cap T)
  BY <1>3, <1>4, <1>5, Smaller, FS_Subset
<1>7. Sf(r \cap T) <= Sg(r)
  BY <1>2, <1>6 DEF F
<1>8. Sg(s) = g[x] + Sg(r) /\ g[x] \in Nat
  BY <1>3, <1>5, <1>6, SumRemove
<1>9. Sf(r \cap T) \in Nat /\ Sg(r) \in Nat
  <2>1. Sf(r \cap T) \in Nat
    BY <1>6, SumNat
  <2>2. \A y \in r : g[y] \in Nat
    BY <1>6
  <2>3. Sg(r) \in Nat
    BY <1>6, <2>2, SumNat
  <2> QED BY <2>1, <2>3
<1>10. CASE x \in T
  <2>1. PICK u : u = s \cap T
    OBVIOUS
  <2>2. IsFiniteSet(u) /\ x \in u /\ u \ {x} = r \cap T /\ \A y \in u : f[y] \in Int
    BY <1>3, <1>5, <1>6, <1>10, <2>1
  <2>3. Sf(u) = f[x] + Sf(r \cap T)
    BY <2>2, SumRemove
  <2>4. f[x] \in Nat /\ f[x] <= g[x]
    BY <1>10
  <2>5. Sf(u) <= Sg(s)
    BY <1>7, <1>8, <1>9, <2>3, <2>4
  <2> QED BY <2>1, <2>5 DEF F
<1>11. CASE x \notin T
  <2>1. s \cap T = r \cap T
    BY <1>5, <1>6, <1>11
  <2>2. Sf(r \cap T) <= Sg(s)
    BY <1>7, <1>8, <1>9
  <2>3. Sf(s \cap T) <= Sg(s)
    BY <2>1, <2>2
  <2> QED BY <2>3 DEF F
<1> QED BY <1>10, <1>11

(***************************************************************************)
(* Lists of a set in an order, and what sorting makes of them.             *)
(***************************************************************************)
(* R is a strict total order on S. *)
StrictOrder(R, S) ==
    /\ \A x \in S : <<x, x>> \notin R
    /\ \A x, y \in S : x # y => <<x, y>> \in R \/ <<y, x>> \in R
    /\ \A x, y, z \in S : <<x, y>> \in R /\ <<y, z>> \in R => <<x, z>> \in R

(* q lists S in the order R. *)
ListOf(q, S, R) ==
    /\ q \in Seq(S) /\ Len(q) = Cardinality(S)
    /\ \A x \in S : \E i \in DOMAIN q : q[i] = x
    /\ \A i, j \in DOMAIN q : i < j <=> <<q[i], q[j]>> \in R

Earlier(x, S, R) == {y \in S : <<y, x>> \in R}

LEMMA EarlierGrow ==
    ASSUME NEW S, IsFiniteSet(S), NEW R, StrictOrder(R, S), NEW x \in S, NEW y \in S
    PROVE  /\ Cardinality(Earlier(x, S, R)) \in 0..(Cardinality(S) - 1)
           /\ <<x, y>> \in R <=> Cardinality(Earlier(x, S, R)) < Cardinality(Earlier(y, S, R))
<1> DEFINE E(z) == Earlier(z, S, R)
<1>1. ASSUME NEW z \in S
      PROVE /\ E(z) \in SUBSET (S \ {z}) /\ IsFiniteSet(E(z)) /\ Cardinality(E(z)) \in Nat
            /\ Cardinality(E(z)) <= Cardinality(S) - 1
  <2>1. E(z) \in SUBSET (S \ {z})
    BY DEF Earlier, StrictOrder
  <2>2. IsFiniteSet(S \ {z}) /\ Cardinality(S \ {z}) = Cardinality(S) - 1
    BY FS_RemoveElement
  <2> QED BY <2>1, <2>2, FS_Subset, FS_CardinalityType
<1>2. ASSUME NEW u \in S, NEW v \in S, <<u, v>> \in R
      PROVE Cardinality(E(u)) < Cardinality(E(v))
  <2>1. E(u) \in SUBSET (E(v) \ {u}) /\ u \in E(v)
    BY <1>2 DEF Earlier, StrictOrder
  <2>2. IsFiniteSet(E(v) \ {u}) /\ Cardinality(E(v) \ {u}) = Cardinality(E(v)) - 1
    BY <1>1, <2>1, FS_RemoveElement
  <2>3. Cardinality(E(u)) <= Cardinality(E(v) \ {u})
    BY <2>1, <2>2, FS_Subset
  <2> QED BY <1>1, <2>2, <2>3
<1> HIDE DEF E
<1>3. Cardinality(S) \in Nat
  BY FS_CardinalityType
<1>4. Cardinality(E(x)) \in 0..(Cardinality(S) - 1) /\ Cardinality(E(y)) \in Nat
  BY <1>1, <1>3
<1>5. <<x, y>> \in R \/ x = y \/ <<y, x>> \in R
  BY DEF StrictOrder
<1>6. <<x, y>> \in R <=> Cardinality(E(x)) < Cardinality(E(y))
  <2>1. CASE <<x, y>> \in R
    BY <1>2, <2>1
  <2>2. CASE x = y
    BY <1>4, <2>2 DEF StrictOrder
  <2>3. CASE <<y, x>> \in R
    <3>1. ~(<<x, y>> \in R)
      BY <2>3 DEF StrictOrder
    <3>2. Cardinality(E(y)) < Cardinality(E(x))
      BY <1>2, <2>3
    <3> QED BY <1>4, <3>1, <3>2
  <2> QED BY <1>5, <2>1, <2>2, <2>3
<1> USE DEF E
<1> QED BY <1>4, <1>6

(* Every place is taken: there are as many places as elements. *)
LEMMA EveryPlace ==
    ASSUME NEW S, IsFiniteSet(S), NEW R, StrictOrder(R, S), NEW k \in 0..(Cardinality(S) - 1)
    PROVE  \E x \in S : Cardinality(Earlier(x, S, R)) = k
<1> DEFINE T == 0..(Cardinality(S) - 1)
           f == [x \in S |-> Cardinality(Earlier(x, S, R))]
<1>1. Cardinality(S) \in Nat
  BY FS_CardinalityType
<1>2. IsFiniteSet(T) /\ Cardinality(T) = Cardinality(S)
  <2>1. PICK a, b : a = 0 /\ b = Cardinality(S) - 1 /\ a \in Int /\ b \in Int
    BY <1>1
  <2>2. IsFiniteSet(a..b) /\ Cardinality(a..b) = IF a > b THEN 0 ELSE b - a + 1
    BY <2>1, FS_Interval
  <2> QED BY <1>1, <2>1, <2>2
<1>3. f \in [S -> T]
  BY EarlierGrow
<1>4. \A x, y \in S : f[x] = f[y] => x = y
  <2> SUFFICES ASSUME NEW x \in S, NEW y \in S, f[x] = f[y], x # y PROVE FALSE
    OBVIOUS
  <2>1. <<x, y>> \in R \/ <<y, x>> \in R
    BY DEF StrictOrder
  <2>2. f[x] < f[y] \/ f[y] < f[x]
    BY <2>1, EarlierGrow
  <2> QED BY <1>3, <2>2
<1> SUFFICES \E x \in S : f[x] = k
  OBVIOUS
<1> HIDE DEF f
<1> SUFFICES ASSUME \A x \in S : f[x] # k PROVE FALSE
  OBVIOUS
<1>5. IsFiniteSet(T \ {k}) /\ Cardinality(T \ {k}) = Cardinality(S) - 1
  BY <1>2, FS_RemoveElement
<1>6. f \in [S -> T \ {k}]
  BY <1>3
<1>7. \E x, y \in S : x # y /\ f[x] = f[y]
  <2>1. Cardinality(T \ {k}) < Cardinality(S)
    BY <1>1, <1>5
  <2> HIDE DEF T
  <2> QED BY <1>5, <1>6, <2>1, FS_PigeonHole
<1> QED BY <1>4, <1>7

LEMMA ArrangedLists ==
    ASSUME NEW S, IsFiniteSet(S), NEW R, StrictOrder(R, S)
    PROVE  ListOf(Arranged(S, R), S, R)
<1> DEFINE placed == {<<Cardinality(Earlier(x, S, R)), x>> : x \in S}
           Chosen(k) == CHOOSE p \in placed : p[1] = k - 1
<1>1. PICK q : q = Arranged(S, R)
  OBVIOUS
<1>2. q = [k \in 1..Cardinality(S) |-> Chosen(k)[2]]
  BY <1>1 DEF Arranged, Earlier
<1>3. Cardinality(S) \in Nat
  BY FS_CardinalityType
<1>4. ASSUME NEW k \in 1..Cardinality(S)
      PROVE q[k] \in S /\ Cardinality(Earlier(q[k], S, R)) = k - 1
  <2>1. PICK x \in S : Cardinality(Earlier(x, S, R)) = k - 1
    BY <1>3, EveryPlace
  <2>2. <<k - 1, x>> \in placed
    BY <2>1
  <2>a. \E p \in placed : p[1] = k - 1
    <3>1. <<k - 1, x>>[1] = k - 1
      OBVIOUS
    <3> QED BY <2>2, <3>1
  <2>3. PICK p : p = Chosen(k) /\ p \in placed /\ p[1] = k - 1
    <3> HIDE DEF placed
    <3> QED BY <2>a
  <2>4. Chosen(k)[2] \in S /\ Cardinality(Earlier(Chosen(k)[2], S, R)) = k - 1
    <3>1. PICK y, n : y \in S /\ n = Cardinality(Earlier(y, S, R)) /\ p = <<n, y>>
      BY <2>3
    <3> HIDE DEF Chosen, placed
    <3>3. p[1] = n /\ p[2] = y
      BY <3>1
    <3>2. p[2] = y /\ Cardinality(Earlier(y, S, R)) = k - 1
      BY <2>3, <3>1, <3>3
    <3> QED BY <2>3, <3>1, <3>2
  <2> QED BY <1>2, <2>4
<1> HIDE DEF placed, Chosen
<1>5. q \in Seq(S) /\ Len(q) = Cardinality(S) /\ DOMAIN q = 1..Cardinality(S)
  <2>1. q = [k \in 1..Cardinality(S) |-> q[k]]
    BY <1>2
  <2> QED BY <1>3, <1>4, <2>1
<1>6. ASSUME NEW x \in S PROVE \E i \in DOMAIN q : q[i] = x
  <2>0. Cardinality(Earlier(x, S, R)) \in 0..(Cardinality(S) - 1)
    BY EarlierGrow
  <2>1. PICK k : k = Cardinality(Earlier(x, S, R)) + 1 /\ k \in 1..Cardinality(S)
    BY <1>3, <2>0
  <2>2. q[k] \in S /\ Cardinality(Earlier(q[k], S, R)) = Cardinality(Earlier(x, S, R))
    BY <1>4, <2>0, <2>1
  <2>3. ~(<<q[k], x>> \in R) /\ ~(<<x, q[k]>> \in R)
    BY <2>2, EarlierGrow
  <2> QED BY <1>5, <2>1, <2>2, <2>3 DEF StrictOrder
<1>7. ASSUME NEW i \in DOMAIN q, NEW j \in DOMAIN q PROVE i < j <=> <<q[i], q[j]>> \in R
  <2>1. <<q[i], q[j]>> \in R <=> i - 1 < j - 1
    BY <1>4, <1>5, EarlierGrow
  <2> QED BY <1>3, <1>5, <2>1
<1> QED BY <1>1, <1>5, <1>6, <1>7 DEF ListOf

(* What a list says of its set and order. *)
LEMMA ListsIs ==
    ASSUME NEW q, NEW S, NEW R, ListOf(q, S, R)
    PROVE  /\ IsFiniteSet(S) /\ Cardinality(S) \in Nat /\ DOMAIN q = 1..Cardinality(S)
           /\ ToSet(q) = S /\ q \in Seq(S) /\ Len(q) = Cardinality(S)
           /\ \A i, j \in DOMAIN q : q[i] = q[j] => i = j
           /\ StrictOrder(R, S)
<1>1. q \in Seq(S) /\ Len(q) \in Nat /\ DOMAIN q = 1..Len(q) /\ \A i \in DOMAIN q : q[i] \in S
  BY DEF ListOf
<1>2. ToSet(q) = S
  BY <1>1 DEF ListOf, ToSet
<1>3. \A i, j \in DOMAIN q : q[i] = q[j] => i = j
  <2> SUFFICES ASSUME NEW i \in DOMAIN q, NEW j \in DOMAIN q, q[i] = q[j], i # j PROVE FALSE
    OBVIOUS
  <2>1. <<q[i], q[j]>> = <<q[j], q[i]>>
    OBVIOUS
  <2>2. i < j <=> j < i
    BY <2>1 DEF ListOf
  <2> QED BY <1>1, <2>2
<1>4. Len(q) = Cardinality(S)
  BY DEF ListOf
<1>5. IsFiniteSet(S)
  <2>1. IsFiniteSet(1..Len(q))
    <3>1. PICK a, b : a = 1 /\ b = Len(q) /\ a \in Int /\ b \in Int
      BY <1>1
    <3> QED BY <3>1, FS_Interval
  <2>2. q \in [1..Len(q) -> S] /\ \A x \in S : \E i \in 1..Len(q) : q[i] = x
    BY <1>1 DEF ListOf
  <2>3. q \in Surjection(1..Len(q), S)
    BY <2>2 DEF Surjection
  <2> QED BY <2>1, <2>3, FS_Surjection DEF ExistsSurjection
<1>6. StrictOrder(R, S)
  <2>1. ASSUME NEW x \in S PROVE <<x, x>> \notin R
    <3>1. PICK i \in DOMAIN q : q[i] = x
      BY DEF ListOf
    <3>2. i < i <=> <<q[i], q[i]>> \in R
      BY DEF ListOf
    <3>3. ~(i < i)
      BY <1>1
    <3> QED BY <3>1, <3>2, <3>3
  <2>2. ASSUME NEW x \in S, NEW y \in S, x # y PROVE <<x, y>> \in R \/ <<y, x>> \in R
    <3>1. PICK i \in DOMAIN q, j \in DOMAIN q : q[i] = x /\ q[j] = y
      BY DEF ListOf
    <3>2. i < j \/ j < i
      BY <1>1, <2>2, <3>1
    <3> QED BY <3>1, <3>2 DEF ListOf
  <2>3. ASSUME NEW x \in S, NEW y \in S, NEW z \in S, <<x, y>> \in R, <<y, z>> \in R
        PROVE <<x, z>> \in R
    <3>1. PICK i \in DOMAIN q, j \in DOMAIN q, k \in DOMAIN q : q[i] = x /\ q[j] = y /\ q[k] = z
      BY DEF ListOf
    <3>2. i < j /\ j < k
      BY <2>3, <3>1 DEF ListOf
    <3>3. i < k
      BY <1>1, <3>2
    <3> QED BY <3>1, <3>3 DEF ListOf
  <2> QED BY <2>1, <2>2, <2>3 DEF StrictOrder
<1> QED BY <1>1, <1>2, <1>3, <1>4, <1>5, <1>6

LEMMA RankIs ==
    ASSUME NEW q, NEW S, NEW R, ListOf(q, S, R)
    PROVE  /\ \A x \in S : RankIn(q, x) \in DOMAIN q /\ q[RankIn(q, x)] = x
           /\ \A i \in DOMAIN q : RankIn(q, q[i]) = i
           /\ \A x, y \in S : RankIn(q, x) < RankIn(q, y) <=> <<x, y>> \in R
<1>1. \A x \in S : \E i \in DOMAIN q : q[i] = x
  BY DEF ListOf
<1>2. \A x \in S : RankIn(q, x) \in DOMAIN q /\ q[RankIn(q, x)] = x
  BY <1>1 DEF RankIn
<1>3. \A i \in DOMAIN q : q[i] \in S
  BY ListsIs DEF ToSet
<1>4. \A i \in DOMAIN q : RankIn(q, q[i]) = i
  BY <1>2, <1>3, ListsIs
<1>5. ASSUME NEW x \in S, NEW y \in S PROVE RankIn(q, x) < RankIn(q, y) <=> <<x, y>> \in R
  <2>1. PICK i, j : i = RankIn(q, x) /\ j = RankIn(q, y)
    OBVIOUS
  <2>2. i \in DOMAIN q /\ j \in DOMAIN q /\ q[i] = x /\ q[j] = y
    BY <1>2, <2>1
  <2> QED BY <2>1, <2>2 DEF ListOf
<1> QED BY <1>2, <1>4, <1>5

SmallerIn(S) == {p \in S \X S : p[1] < p[2]}
LEMMA UpwardsLists ==
    ASSUME NEW S \in SUBSET Int, IsFiniteSet(S)
    PROVE  ListOf(Upwards(S), S, SmallerIn(S))
<1>1. StrictOrder(SmallerIn(S), S)
  BY DEF StrictOrder, SmallerIn
<1> QED BY <1>1, ArrangedLists DEF Upwards, SmallerIn

(* Sorting a list by a key. *)
Greater(S, key, R) ==
    {p \in S \X S : key[p[1]] > key[p[2]] \/ (key[p[1]] = key[p[2]] /\ p \in R)}
Lesser(S, key, R) ==
    {p \in S \X S : key[p[1]] < key[p[2]] \/ (key[p[1]] = key[p[2]] /\ p \in R)}

(* s permuted as positions are ordered by B. *)
LEMMA PermutedLists ==
    ASSUME NEW s, NEW S, NEW R, ListOf(s, S, R),
           NEW B, StrictOrder(B, DOMAIN s),
           NEW Q, \A i, j \in DOMAIN s : <<i, j>> \in B <=> <<s[i], s[j]>> \in Q
    PROVE  ListOf(Permuted(s, B), S, Q)
<1>1. PICK q : q = Arranged(DOMAIN s, B)
  OBVIOUS
<1>2. IsFiniteSet(DOMAIN s) /\ Cardinality(DOMAIN s) = Cardinality(S)
  <2>1. PICK a, b : a = 1 /\ b = Cardinality(S) /\ a \in Int /\ b \in Int /\ b >= 0
    BY ListsIs
  <2>2. IsFiniteSet(a..b) /\ Cardinality(a..b) = IF a > b THEN 0 ELSE b - a + 1
    BY <2>1, FS_Interval
  <2>3. DOMAIN s = a..b
    BY <2>1, ListsIs
  <2> QED BY <2>1, <2>2, <2>3
<1>3. ListOf(q, DOMAIN s, B)
  BY <1>1, <1>2, ArrangedLists
<1>4. DOMAIN q = DOMAIN s
  BY <1>2, <1>3, ListsIs
<1>5. \A k \in DOMAIN q : q[k] \in DOMAIN s /\ s[q[k]] \in S
  BY <1>3, ListsIs DEF ToSet
<1>6. PICK r : r = [k \in DOMAIN q |-> s[q[k]]]
  OBVIOUS
<1>7. r \in Seq(S) /\ Len(r) = Cardinality(S) /\ DOMAIN r = DOMAIN q
  <2>1. DOMAIN q = 1..Cardinality(S) /\ Cardinality(S) \in Nat
    BY <1>4, ListsIs
  <2> QED BY <1>5, <1>6, <2>1
<1>8. ASSUME NEW x \in S PROVE \E k \in DOMAIN r : r[k] = x
  <2>1. PICK i \in DOMAIN s : s[i] = x
    BY DEF ListOf
  <2>2. PICK k \in DOMAIN q : q[k] = i
    BY <1>3 DEF ListOf
  <2> QED BY <1>6, <2>1, <2>2
<1>9. ASSUME NEW k \in DOMAIN r, NEW l \in DOMAIN r PROVE k < l <=> <<r[k], r[l]>> \in Q
  <2>1. k < l <=> <<q[k], q[l]>> \in B
    BY <1>3, <1>7 DEF ListOf
  <2>2. q[k] \in DOMAIN s /\ q[l] \in DOMAIN s /\ r[k] = s[q[k]] /\ r[l] = s[q[l]]
    BY <1>5, <1>6, <1>7
  <2>3. <<q[k], q[l]>> \in B <=> <<s[q[k]], s[q[l]]>> \in Q
    BY <2>2
  <2> QED BY <2>1, <2>2, <2>3
<1>10. ListOf(r, S, Q)
  BY <1>7, <1>8, <1>9 DEF ListOf
<1> QED BY <1>1, <1>6, <1>10 DEF Permuted

LEMMA DescendingLists ==
    ASSUME NEW s, NEW S, NEW R, ListOf(s, S, R), NEW key, \A x \in S : key[x] \in Int
    PROVE  ListOf(Descending(s, key), S, Greater(S, key, R))
<1> DEFINE Before(i, j) == \/ key[s[i]] > key[s[j]]
                           \/ key[s[i]] = key[s[j]] /\ i < j
           B == {p \in (DOMAIN s) \X (DOMAIN s) : Before(p[1], p[2])}
<1>1. \A i \in DOMAIN s : s[i] \in S /\ key[s[i]] \in Int /\ i \in Nat
  BY ListsIs DEF ToSet
<1>2. StrictOrder(B, DOMAIN s)
  BY <1>1 DEF StrictOrder
<1>3. ASSUME NEW i \in DOMAIN s, NEW j \in DOMAIN s
      PROVE <<i, j>> \in B <=> <<s[i], s[j]>> \in Greater(S, key, R)
  <2>1. i < j <=> <<s[i], s[j]>> \in R
    BY DEF ListOf
  <2> QED BY <1>1, <2>1 DEF Greater
<1>4. Descending(s, key) = Permuted(s, B)
  BY DEF Descending
<1> HIDE DEF B
<1> QED BY <1>2, <1>3, <1>4, PermutedLists

LEMMA AscendingLists ==
    ASSUME NEW s, NEW S, NEW R, ListOf(s, S, R), NEW key, \A x \in S : key[x] \in Int
    PROVE  ListOf(Ascending(s, key), S, Lesser(S, key, R))
<1> DEFINE Before(i, j) == \/ key[s[i]] < key[s[j]]
                           \/ key[s[i]] = key[s[j]] /\ i < j
           B == {p \in (DOMAIN s) \X (DOMAIN s) : Before(p[1], p[2])}
<1>1. \A i \in DOMAIN s : s[i] \in S /\ key[s[i]] \in Int /\ i \in Nat
  BY ListsIs DEF ToSet
<1>2. StrictOrder(B, DOMAIN s)
  BY <1>1 DEF StrictOrder
<1>3. ASSUME NEW i \in DOMAIN s, NEW j \in DOMAIN s
      PROVE <<i, j>> \in B <=> <<s[i], s[j]>> \in Lesser(S, key, R)
  <2>1. i < j <=> <<s[i], s[j]>> \in R
    BY DEF ListOf
  <2> QED BY <1>1, <2>1 DEF Lesser
<1>4. Ascending(s, key) = Permuted(s, B)
  BY DEF Ascending
<1> HIDE DEF B
<1> QED BY <1>2, <1>3, <1>4, PermutedLists

(* The elements at some positions, in particular at the first ones. *)
LEMMA ElementsAre ==
    ASSUME NEW X, NEW s \in Seq(X), NEW P \in SUBSET DOMAIN s
    PROVE  /\ ElementsAt(s, P) \in Seq(X) /\ ToSet(ElementsAt(s, P)) = {s[i] : i \in P}
           /\ \E q : /\ ListOf(q, P, SmallerIn(P)) /\ DOMAIN ElementsAt(s, P) = DOMAIN q
                    /\ \A k \in DOMAIN q : ElementsAt(s, P)[k] = s[q[k]]
<1>1. PICK q : q = Upwards(P)
  OBVIOUS
<1>2. P \in SUBSET Int /\ IsFiniteSet(P)
  <2>1. PICK a, b : a = 1 /\ b = Len(s) /\ a \in Int /\ b \in Int /\ b >= 0
    OBVIOUS
  <2>2. IsFiniteSet(a..b) /\ DOMAIN s = a..b
    BY <2>1, FS_Interval
  <2>3. P \in SUBSET (a..b) /\ a..b \in SUBSET Int
    BY <2>1, <2>2
  <2> QED BY <2>2, <2>3, FS_Subset
<1>3. ListOf(q, P, SmallerIn(P))
  BY <1>1, <1>2, UpwardsLists
<1>4. \A k \in DOMAIN q : q[k] \in P /\ s[q[k]] \in X
  BY <1>3, ListsIs DEF ToSet
<1>5. PICK r : r = [k \in DOMAIN q |-> s[q[k]]]
  OBVIOUS
<1>6. DOMAIN q = 1..Cardinality(P) /\ Cardinality(P) \in Nat
  BY <1>3, ListsIs
<1>7. r \in Seq(X) /\ DOMAIN r = DOMAIN q
  BY <1>4, <1>5, <1>6
<1>8. ToSet(r) = {s[i] : i \in P}
  <2>1. \A i \in P : \E k \in DOMAIN q : q[k] = i
    BY <1>3 DEF ListOf
  <2> QED BY <1>4, <1>5, <1>7, <2>1 DEF ToSet
<1>9. r = ElementsAt(s, P)
  BY <1>1, <1>5 DEF ElementsAt
<1> QED BY <1>3, <1>5, <1>7, <1>8, <1>9

LEMMA ElementsOrdered ==
    ASSUME NEW X, NEW s \in Seq(X), NEW P \in SUBSET DOMAIN s,
           \A i, j \in P : s[i] = s[j] => i = j,
           NEW R, \A i, j \in P : i < j <=> <<s[i], s[j]>> \in R
    PROVE  ListOf(ElementsAt(s, P), {s[i] : i \in P}, R)
<1> DEFINE T == {s[i] : i \in P}
<1>1. PICK r : r = ElementsAt(s, P)
  OBVIOUS
<1>2. PICK q : /\ ListOf(q, P, SmallerIn(P)) /\ DOMAIN r = DOMAIN q
               /\ \A k \in DOMAIN q : r[k] = s[q[k]]
  BY <1>1, ElementsAre
<1>3. r \in Seq(X) /\ ToSet(r) = T
  BY <1>1, ElementsAre
<1>4. DOMAIN q = 1..Cardinality(P) /\ Cardinality(P) \in Nat /\ IsFiniteSet(P)
  BY <1>2, ListsIs
<1>5. \A k \in DOMAIN q : q[k] \in P
  BY <1>2, ListsIs DEF ToSet
<1>6. \A k \in DOMAIN r : r[k] \in T
  BY <1>3 DEF ToSet
<1> HIDE DEF T
<1>7. r \in Seq(T) /\ Len(r) = Cardinality(P)
  <2>1. DOMAIN r = 1..Len(r) /\ Len(r) \in Nat /\ r = [k \in 1..Len(r) |-> r[k]]
    BY <1>3
  <2>2. Len(r) = Cardinality(P)
    BY <1>2, <1>4, <2>1
  <2> QED BY <1>6, <2>1, <2>2
<1> USE DEF T
<1>8. Cardinality(T) = Cardinality(P)
  <2>1. T = {s[i] : i \in P}
    OBVIOUS
  <2>2. [i \in P |-> s[i]] \in Bijection(P, T)
    BY DEF Bijection, Injection, Surjection, IsInjective
  <2> HIDE DEF T
  <2> QED BY <1>4, <2>2, FS_Bijection DEF ExistsBijection
<1>9. ASSUME NEW x \in T PROVE \E k \in DOMAIN r : r[k] = x
  BY <1>3 DEF ToSet
<1>10. ASSUME NEW k \in DOMAIN r, NEW l \in DOMAIN r PROVE k < l <=> <<r[k], r[l]>> \in R
  <2>1. k < l <=> <<q[k], q[l]>> \in SmallerIn(P)
    BY <1>2 DEF ListOf
  <2>2. q[k] \in P /\ q[l] \in P /\ r[k] = s[q[k]] /\ r[l] = s[q[l]]
    BY <1>2, <1>5
  <2>3. q[k] < q[l] <=> <<s[q[k]], s[q[l]]>> \in R
    BY <2>2
  <2> QED BY <2>1, <2>2, <2>3 DEF SmallerIn
<1>11. ListOf(r, T, R)
  BY <1>7, <1>8, <1>9, <1>10 DEF ListOf
<1> QED BY <1>1, <1>11

LEMMA ElementsList ==
    ASSUME NEW s, NEW S, NEW R, ListOf(s, S, R), NEW P \in SUBSET DOMAIN s
    PROVE  ListOf(ElementsAt(s, P), {s[i] : i \in P}, R)
<1>1. s \in Seq(S) /\ \A i, j \in P : s[i] = s[j] => i = j
  BY ListsIs
<1>2. \A i, j \in P : i < j <=> <<s[i], s[j]>> \in R
  BY DEF ListOf
<1> QED BY <1>1, <1>2, ElementsOrdered

(***************************************************************************)
(* Folds over a sequence: FoldLeft takes the last position out of a set of *)
(* positions, and the function it is defined by exists.                    *)
(***************************************************************************)
(* What holds at 0 and is kept by each step holds up to n. *)
LEMMA UpTo ==
    ASSUME NEW n \in Nat, NEW S, 0 \in S, \A i \in 0..(n - 1) : i \in S => i + 1 \in S
    PROVE  0..n \subseteq S
<1> DEFINE F == {i \in 0..n : i \notin S}
<1> SUFFICES ASSUME F # {} PROVE FALSE
  OBVIOUS
<1>1. F \in SUBSET Nat
  OBVIOUS
<1>2. PICK i \in F : \A j \in F : i <= j
  BY <1>1, LeastNatural
<1>3. i # 0 /\ i - 1 \in 0..(n - 1) /\ i - 1 \in S
  <2>1. i # 0 /\ i \in 0..n
    OBVIOUS
  <2>2. i - 1 \in 0..(n - 1) /\ ~(i <= i - 1)
    BY <2>1
  <2>3. i - 1 \notin F
    BY <1>2, <2>2
  <2> QED BY <2>1, <2>2, <2>3
<1>4. (i - 1) + 1 \in S /\ (i - 1) + 1 = i
  BY <1>3
<1> QED BY <1>4

LEMMA LastPosition ==
  ASSUME NEW n \in Nat, NEW s \in SUBSET (1..n), s # {}
  PROVE  /\ Max(s) \in s /\ s \ {Max(s)} \in SUBSET (1..n)
         /\ Cardinality(s) \in Nat \ {0}
         /\ Cardinality(s \ {Max(s)}) = Cardinality(s) - 1
<1>1. PICK a, b : a = 1 /\ b = n /\ a \in Int /\ b \in Int
  OBVIOUS
<1>2. IsFiniteSet(a..b)
  BY <1>1, FS_Interval
<1>3. IsFiniteSet(s)
  BY <1>1, <1>2, FS_Subset
<1> DEFINE D == {n - x : x \in s}
<1>a. \A x \in s : x \in Nat /\ n - x \in Nat
  OBVIOUS
<1>4. D \in SUBSET Nat /\ D # {}
  BY <1>a
<1> HIDE DEF D
<1>5. PICK d \in D : \A e \in D : d <= e
  BY <1>4, LeastNatural
<1> USE DEF D
<1>b. PICK x \in s : d = n - x
  BY <1>5
<1>c. \A y \in s : n - y \in D
  OBVIOUS
<1>6. \A y \in s : x >= y
  BY <1>a, <1>b, <1>c, <1>5
<1> HIDE DEF D
<1>7. Max(s) \in s
  BY <1>6 DEF Max
<1>8. Cardinality(s) \in Nat /\ Cardinality(s) # 0
  BY <1>3, FS_EmptySet, FS_CardinalityType
<1> QED BY <1>3, <1>7, <1>8, FS_RemoveElement


LEMMA Beginnings ==
    ASSUME NEW n \in Nat, n > 0
    PROVE  1..n # {} /\ Max(1..n) = n /\ (1..n) \ {n} = 1..(n - 1)
<1>1. \A x \in 1..n : n >= x
  OBVIOUS
<1>2. 1..n # {} /\ Max(1..n) \in 1..n
  <2>1. 1 \in 1..n
    OBVIOUS
  <2>2. 1..n \in SUBSET (1..n) /\ 1..n # {}
    BY <2>1
  <2> QED BY <2>2, LastPosition
<1>3. Max(1..n) >= n
  <2>1. \E x \in 1..n : \A y \in 1..n : x >= y
    BY <1>1
  <2>2. \A y \in 1..n : Max(1..n) >= y
    BY <2>1 DEF Max
  <2> QED BY <2>2
<1> QED BY <1>2, <1>3

(* A fold of a function over the positions of s, as FoldLeft defines it.   *)
FoldedBy(F, base, s, g, u) == IF u = {} THEN base ELSE F[<<g[u \ {Max(u)}], s[Max(u)]>>]
Folding(F, base, s, n, g) ==
    /\ g = [u \in SUBSET DOMAIN s |-> g[u]]
    /\ \A u \in SUBSET DOMAIN s : Cardinality(u) <= n => g[u] = FoldedBy(F, base, s, g, u)

FoldTable(F, base, s, A, g) ==
    /\ g \in [SUBSET DOMAIN s -> A]
    /\ \A u \in SUBSET DOMAIN s : g[u] = FoldedBy(F, base, s, g, u)

LEMMA FoldingExtends ==
    ASSUME NEW F, NEW base, NEW X, NEW s \in Seq(X), NEW n \in Nat, NEW g, Folding(F, base, s, n, g)
    PROVE  \E h : Folding(F, base, s, n + 1, h)
<1> DEFINE h == [u \in SUBSET DOMAIN s |->
                    IF Cardinality(u) <= n THEN g[u] ELSE FoldedBy(F, base, s, g, u)]
<1>0. DOMAIN s = 1..Len(s) /\ Len(s) \in Nat
  OBVIOUS
<1>1. ASSUME NEW u \in SUBSET DOMAIN s, u # {}, Cardinality(u) <= n + 1
      PROVE  h[u] = FoldedBy(F, base, s, h, u)
  <2>1. /\ u \ {Max(u)} \in SUBSET DOMAIN s /\ Cardinality(u) \in Nat
        /\ Cardinality(u \ {Max(u)}) = Cardinality(u) - 1
    BY <1>0, <1>1, LastPosition
  <2>2. h[u \ {Max(u)}] = g[u \ {Max(u)}]
    BY <1>1, <2>1
  <2>3. h[u] = FoldedBy(F, base, s, g, u)
    BY <1>1, <2>1 DEF Folding
  <2> HIDE DEF h
  <2> QED BY <2>2, <2>3 DEF FoldedBy
<1>2. h[{}] = base
  <2>1. {} \in SUBSET DOMAIN s /\ Cardinality({}) <= n
    BY FS_EmptySet
  <2>2. h[{}] = g[{}]
    BY <2>1
  <2> QED BY <2>1, <2>2 DEF Folding, FoldedBy
<1>3. h = [u \in SUBSET DOMAIN s |-> h[u]]
  OBVIOUS
<1> HIDE DEF h
<1>4. ASSUME NEW u \in SUBSET DOMAIN s, Cardinality(u) <= n + 1
      PROVE  h[u] = FoldedBy(F, base, s, h, u)
  BY <1>1, <1>2, <1>4 DEF FoldedBy
<1> QED BY <1>3, <1>4 DEF Folding

LEMMA FoldExists ==
    ASSUME NEW A, NEW X, NEW base \in A, NEW s \in Seq(X), NEW F \in [A \X X -> A]
    PROVE  \E g : FoldTable(F, base, s, A, g)
<1>0. DOMAIN s = 1..Len(s) /\ Len(s) \in Nat
  OBVIOUS
<1> DEFINE N == {n \in Nat : ~ \E g : Folding(F, base, s, n, g)}
<1>1. N = {}
  <2> SUFFICES ASSUME N # {} PROVE FALSE
    OBVIOUS
  <2>1. PICK n \in N : \A m \in N : n <= m
    BY LeastNatural
  <2>2. Folding(F, base, s, 0, [u \in SUBSET DOMAIN s |-> base])
    <3>1. ASSUME NEW u \in SUBSET DOMAIN s, Cardinality(u) <= 0 PROVE u = {}
      <4> SUFFICES ASSUME u # {} PROVE FALSE
        OBVIOUS
      <4>1. Cardinality(u) \in Nat \ {0}
        BY <1>0, LastPosition
      <4> QED BY <3>1, <4>1
    <3> QED BY <3>1 DEF Folding, FoldedBy
  <2>a. n # 0
    BY <2>1, <2>2
  <2>b. n \in Nat /\ n - 1 \in Nat /\ ~(n <= n - 1)
    BY <2>1, <2>a
  <2>3. n # 0 /\ n - 1 \in Nat /\ n - 1 \notin N
    <3> HIDE DEF N
    <3> QED BY <2>1, <2>a, <2>b
  <2>4. PICK g : Folding(F, base, s, n - 1, g)
    BY <2>3
  <2>5. \E h : Folding(F, base, s, (n - 1) + 1, h)
    BY <2>3, <2>4, FoldingExtends
  <2> QED BY <2>1, <2>5
<1>2. PICK g : Folding(F, base, s, Len(s), g)
  BY <1>0, <1>1
<1>a. IsFiniteSet(DOMAIN s) /\ Cardinality(DOMAIN s) = Len(s)
  <2>1. PICK a, b : a = 1 /\ b = Len(s) /\ a \in Int /\ b \in Int
    BY <1>0
  <2>2. IsFiniteSet(a..b) /\ Cardinality(a..b) = IF a > b THEN 0 ELSE b - a + 1
    BY <2>1, FS_Interval
  <2> QED BY <1>0, <2>1, <2>2
<1>3. ASSUME NEW u \in SUBSET DOMAIN s PROVE g[u] = FoldedBy(F, base, s, g, u)
  <2>1. Cardinality(u) <= Len(s)
    BY <1>a, FS_Subset
  <2> QED BY <1>2, <2>1 DEF Folding
<1>4. \A u \in SUBSET DOMAIN s : g[u] \in A
  <2> DEFINE B == {u \in SUBSET DOMAIN s : g[u] \notin A}
  <2> SUFFICES ASSUME B # {} PROVE FALSE
    OBVIOUS
  <2>1. B \in SUBSET (SUBSET DOMAIN s)
    OBVIOUS
  <2> HIDE DEF B
  <2>2. PICK u \in B : \A v \in B : v \subseteq u => v = u
    BY <1>a, <2>1, SmallestSubset
  <2> USE DEF B
  <2>3. u \in SUBSET DOMAIN s /\ g[u] \notin A
    OBVIOUS
  <2>4. u # {}
    BY <1>3, <2>3 DEF FoldedBy
  <2>5. Max(u) \in u /\ u \ {Max(u)} \in SUBSET DOMAIN s
    BY <1>0, <2>3, <2>4, LastPosition
  <2>6. g[u \ {Max(u)}] \in A
    BY <2>2, <2>5
  <2>7. s[Max(u)] \in X
    BY <2>3, <2>5
  <2>8. F[<<g[u \ {Max(u)}], s[Max(u)]>>] \in A
    BY <2>6, <2>7
  <2> HIDE DEF B
  <2> QED BY <1>3, <2>3, <2>4, <2>8 DEF FoldedBy
<1>5. g \in [SUBSET DOMAIN s -> A]
  BY <1>2, <1>4 DEF Folding
<1> QED BY <1>3, <1>5 DEF FoldTable

(* The values a fold passes through, one after each element.               *)
Trace(t, F, base, s, A, last) ==
    /\ t[Len(s)] = last
    /\ t \in [0..Len(s) -> A] /\ t[0] = base
    /\ \A n \in 0..(Len(s) - 1) : t[n + 1] = F[<<t[n], s[n + 1]>>]
Table(h, F, base, s, A) ==
    /\ h[{}] = base
    /\ \A u \in SUBSET DOMAIN s :
          u # {} /\ h[u \ {Max(u)}] \in A => h[u] = F[<<h[u \ {Max(u)}], s[Max(u)]>>]

LEMMA TableTraces ==
    ASSUME NEW A, NEW X, NEW base \in A, NEW s \in Seq(X), NEW F \in [A \X X -> A],
           NEW h, Table(h, F, base, s, A)
    PROVE  \E t : Trace(t, F, base, s, A, h[DOMAIN s])
<1>0. DOMAIN s = 1..Len(s) /\ Len(s) \in Nat
  OBVIOUS
<1>1. ASSUME NEW n \in 0..(Len(s) - 1), h[1..n] \in A
      PROVE h[1..(n + 1)] = F[<<h[1..n], s[n + 1]>>] /\ h[1..(n + 1)] \in A
  <2>1. PICK m : m = n + 1 /\ m \in Nat /\ m > 0 /\ m - 1 = n /\ m \in DOMAIN s
    BY <1>0
  <2>2. 1..m # {} /\ Max(1..m) = m /\ (1..m) \ {m} = 1..n
    BY <2>1, Beginnings
  <2>3. 1..m \in SUBSET DOMAIN s
    BY <1>0, <2>1
  <2>4. h[1..m] = F[<<h[1..n], s[m]>>]
    BY <1>1, <2>2, <2>3 DEF Table
  <2>5. s[m] \in X
    BY <1>0, <2>1
  <2> QED BY <1>1, <2>1, <2>4, <2>5
<1> DEFINE G == {n \in 0..Len(s) : h[1..n] \in A}
<1>2. 0..Len(s) \subseteq G
  <2>1. 0 \in G
    <3>1. 1..0 = {}
      OBVIOUS
    <3> QED BY <1>0, <3>1 DEF Table
  <2>2. \A n \in 0..(Len(s) - 1) : n \in G => n + 1 \in G
    <3> SUFFICES ASSUME NEW n \in 0..(Len(s) - 1), n \in G PROVE n + 1 \in G
      OBVIOUS
    <3>1. h[1..n] \in A /\ n + 1 \in 0..Len(s)
      BY <1>0
    <3> QED BY <1>1, <3>1
  <2> HIDE DEF G
  <2> QED BY <1>0, <2>1, <2>2, UpTo
<1>3. PICK t : t = [n \in 0..Len(s) |-> h[1..n]]
  OBVIOUS
<1>4. t \in [0..Len(s) -> A]
  BY <1>2, <1>3
<1>5. t[0] = base
  <2>1. 1..0 = {} /\ 0 \in 0..Len(s)
    BY <1>0
  <2>2. t[0] = h[1..0]
    BY <1>3, <2>1
  <2> QED BY <2>1, <2>2 DEF Table
<1>6. ASSUME NEW n \in 0..(Len(s) - 1) PROVE t[n + 1] = F[<<t[n], s[n + 1]>>]
  <2>1. n \in 0..Len(s) /\ n + 1 \in 0..Len(s)
    BY <1>0
  <2>2. h[1..n] \in A /\ t[n] = h[1..n] /\ t[n + 1] = h[1..(n + 1)]
    BY <1>2, <1>3, <2>1
  <2> QED BY <1>1, <2>2
<1>7. t[Len(s)] = h[DOMAIN s]
  BY <1>0, <1>3
<1> QED BY <1>4, <1>5, <1>6, <1>7 DEF Trace

(***************************************************************************)
(* Sequences without repetition, what leads them, and sequences joined.    *)
(***************************************************************************)
(* A sequence without repetition lists its elements in its own order. *)
Distinct(q, S) == q \in Seq(S) /\ \A i, j \in DOMAIN q : q[i] = q[j] => i = j
OrderOf(q) == {p \in ToSet(q) \X ToSet(q) : RankIn(q, p[1]) < RankIn(q, p[2])}

LEMMA DistinctLists ==
    ASSUME NEW S, NEW q, Distinct(q, S)
    PROVE  ListOf(q, ToSet(q), OrderOf(q)) /\ ToSet(q) \in SUBSET S
<1>1. q \in Seq(S) /\ Len(q) \in Nat /\ DOMAIN q = 1..Len(q) /\ \A i \in DOMAIN q : q[i] \in S
  BY DEF Distinct
<1>2. \A i, j \in DOMAIN q : q[i] = q[j] => i = j
  BY DEF Distinct
<1>3. ASSUME NEW i \in DOMAIN q PROVE RankIn(q, q[i]) = i
  BY <1>2 DEF RankIn
<1>4. \A i, j \in DOMAIN q : i < j <=> <<q[i], q[j]>> \in OrderOf(q)
  BY <1>3 DEF OrderOf, ToSet
<1>5. \A x \in ToSet(q) : \E i \in DOMAIN q : q[i] = x
  BY DEF ToSet
<1>6. q \in Seq(ToSet(q))
  <2>1. \A i \in 1..Len(q) : q[i] \in ToSet(q)
    BY <1>1 DEF ToSet
  <2>2. q = [i \in 1..Len(q) |-> q[i]]
    BY <1>1
  <2> HIDE DEF ToSet
  <2> QED BY <1>1, <2>1, <2>2
<1>7. Len(q) = Cardinality(ToSet(q))
  <2>1. PICK a, b : a = 1 /\ b = Len(q) /\ a \in Int /\ b \in Int
    BY <1>1
  <2>2. IsFiniteSet(a..b) /\ Cardinality(a..b) = IF a > b THEN 0 ELSE b - a + 1
    BY <2>1, FS_Interval
  <2>3. IsFiniteSet(1..Len(q)) /\ Cardinality(1..Len(q)) = Len(q)
    BY <1>1, <2>1, <2>2
  <2>4. q \in Bijection(1..Len(q), ToSet(q))
    <3>1. q \in [1..Len(q) -> ToSet(q)]
      BY <1>1, <1>6
    <3> QED BY <1>1, <1>2, <1>5, <3>1 DEF Bijection, Injection, Surjection, IsInjective
  <2> QED BY <2>3, <2>4, FS_Bijection DEF ExistsBijection
<1> QED BY <1>1, <1>4, <1>5, <1>6, <1>7 DEF ListOf, ToSet

LEMMA ListIsDistinct ==
    ASSUME NEW q, NEW S, NEW R, ListOf(q, S, R)
    PROVE  Distinct(q, S)
BY ListsIs DEF Distinct

(* A set has one list in each order. *)
LEMMA SameList ==
    ASSUME NEW q, NEW r, NEW S, NEW R, NEW Q, ListOf(q, S, R), ListOf(r, S, Q),
           \A x, y \in S : <<x, y>> \in R <=> <<x, y>> \in Q
    PROVE  q = r
<1>1. /\ DOMAIN q = 1..Cardinality(S) /\ DOMAIN r = 1..Cardinality(S) /\ Cardinality(S) \in Nat
      /\ q \in Seq(S) /\ r \in Seq(S) /\ Len(q) = Len(r) /\ StrictOrder(R, S)
  BY ListsIs
<1> DEFINE F == {i \in DOMAIN q : q[i] # r[i]}
<1> SUFFICES F = {}
  BY <1>1
<1> SUFFICES ASSUME F # {} PROVE FALSE
  OBVIOUS
<1>2. PICK i \in F : \A j \in F : i <= j
  <2>1. F \in SUBSET Nat
    BY <1>1
  <2> HIDE DEF F
  <2> QED BY <2>1, LeastNatural
<1>3. i \in DOMAIN q /\ q[i] # r[i] /\ q[i] \in S /\ r[i] \in S /\ i \in Nat
  BY <1>1
<1>4. PICK j \in DOMAIN r : r[j] = q[i]
  BY <1>3 DEF ListOf
<1>5. PICK k \in DOMAIN q : q[k] = r[i]
  BY <1>3 DEF ListOf
<1>6. \A m \in DOMAIN q : m < i => q[m] = r[m]
  BY <1>1, <1>2
<1>7. j > i
  <2>1. j # i
    BY <1>3, <1>4
  <2>2. ASSUME j < i PROVE FALSE
    <3>1. q[j] = q[i]
      BY <1>1, <1>4, <1>6, <2>2
    <3> QED BY <1>1, <1>3, <1>4, <2>2, <3>1, ListsIs
  <2> QED BY <1>1, <1>3, <2>1, <2>2
<1>8. k > i
  <2>1. k # i
    BY <1>3, <1>5
  <2>2. ASSUME k < i PROVE FALSE
    <3>1. r[k] = r[i]
      BY <1>5, <1>6, <2>2
    <3> QED BY <1>1, <1>3, <1>5, <2>2, <3>1, ListsIs
  <2> QED BY <1>1, <1>3, <2>1, <2>2
<1>9. <<q[i], q[k]>> \in R /\ <<r[i], r[j]>> \in Q
  BY <1>1, <1>3, <1>7, <1>8 DEF ListOf
<1>10. <<q[i], r[i]>> \in R /\ <<r[i], q[i]>> \in R
  BY <1>3, <1>4, <1>5, <1>9
<1> QED BY <1>1, <1>3, <1>10 DEF StrictOrder

(* What leads a sequence. *)
LEMMA Prefix ==
    ASSUME NEW S, NEW q \in Seq(S), NEW n \in 0..Len(q)
    PROVE  /\ SubSeq(q, 1, n) \in Seq(S) /\ Len(SubSeq(q, 1, n)) = n
           /\ DOMAIN SubSeq(q, 1, n) = 1..n
           /\ \A i \in 1..n : SubSeq(q, 1, n)[i] = q[i] /\ i \in DOMAIN q
           /\ ToSet(SubSeq(q, 1, n)) = {q[i] : i \in 1..n}
           /\ ToSet(SubSeq(q, 1, n)) \subseteq ToSet(q)
<1>1. Len(q) \in Nat /\ n \in Nat /\ n <= Len(q) /\ DOMAIN q = 1..Len(q)
  OBVIOUS
<1>2. PICK p : p = SubSeq(q, 1, n)
  OBVIOUS
<1>3. p = [i \in 1..n |-> q[i]]
  BY <1>1, <1>2
<1>4. \A i \in 1..n : p[i] = q[i] /\ i \in DOMAIN q /\ q[i] \in S
  BY <1>1, <1>3
<1>5. p \in Seq(S) /\ Len(p) = n /\ DOMAIN p = 1..n
  BY <1>1, <1>3, <1>4
<1> QED BY <1>2, <1>4, <1>5 DEF ToSet

LEMMA PrefixDistinct ==
    ASSUME NEW S, NEW q, Distinct(q, S), NEW n \in 0..Len(q)
    PROVE  Distinct(SubSeq(q, 1, n), S)
BY Prefix DEF Distinct

LEMMA PrefixList ==
    ASSUME NEW q, NEW S, NEW R, ListOf(q, S, R), NEW n \in 0..Len(q)
    PROVE  ListOf(SubSeq(q, 1, n), ToSet(SubSeq(q, 1, n)), R)
<1>1. PICK p : p = SubSeq(q, 1, n)
  OBVIOUS
<1>2. /\ p \in Seq(S) /\ Len(p) = n /\ DOMAIN p = 1..n /\ ToSet(p) \subseteq S
      /\ \A i \in 1..n : p[i] = q[i] /\ i \in DOMAIN q
  BY <1>1, Prefix, ListsIs
<1>3. Distinct(p, S)
  BY <1>1, PrefixDistinct, ListIsDistinct
<1>4. ListOf(p, ToSet(p), OrderOf(p))
  BY <1>3, DistinctLists
<1>5. \A i, j \in DOMAIN p : i < j <=> <<p[i], p[j]>> \in R
  BY <1>2 DEF ListOf
<1> QED BY <1>1, <1>4, <1>5 DEF ListOf

(* One sequence after another. *)
LEMMA Joined ==
    ASSUME NEW X, NEW s \in Seq(X), NEW t \in Seq(X)
    PROVE  /\ s \o t \in Seq(X) /\ Len(s \o t) = Len(s) + Len(t)
           /\ ToSet(s \o t) = ToSet(s) \cup ToSet(t)
<1>1. /\ Len(s) \in Nat /\ Len(t) \in Nat /\ DOMAIN s = 1..Len(s) /\ DOMAIN t = 1..Len(t)
      /\ s \o t \in Seq(X) /\ Len(s \o t) = Len(s) + Len(t)
  OBVIOUS
<1>2. DOMAIN (s \o t) = 1..(Len(s) + Len(t))
  BY <1>1
<1>3. \A k \in 1..(Len(s) + Len(t)) :
         (s \o t)[k] = IF k <= Len(s) THEN s[k] ELSE t[k - Len(s)]
  OBVIOUS
<1>4. ASSUME NEW k \in 1..Len(t)
      PROVE k + Len(s) \in DOMAIN (s \o t) /\ (s \o t)[k + Len(s)] = t[k]
  <2>1. k + Len(s) \in 1..(Len(s) + Len(t)) /\ ~(k + Len(s) <= Len(s)) /\ (k + Len(s)) - Len(s) = k
    BY <1>1
  <2> QED BY <1>2, <1>3, <2>1
<1>5. ASSUME NEW k \in 1..Len(s) PROVE k \in DOMAIN (s \o t) /\ (s \o t)[k] = s[k]
  BY <1>1, <1>2, <1>3
<1>6. ToSet(s) \cup ToSet(t) \subseteq ToSet(s \o t)
  BY <1>1, <1>4, <1>5 DEF ToSet
<1>7. ASSUME NEW k \in DOMAIN (s \o t) PROVE (s \o t)[k] \in ToSet(s) \cup ToSet(t)
  <2>1. CASE k <= Len(s)
    BY <1>1, <1>2, <1>3, <2>1 DEF ToSet
  <2>2. CASE ~(k <= Len(s))
    <3>1. k - Len(s) \in DOMAIN t
      BY <1>1, <1>2, <2>2
    <3> QED BY <1>2, <1>3, <2>2, <3>1 DEF ToSet
  <2> QED BY <2>1, <2>2
<1>8. ToSet(s \o t) \subseteq ToSet(s) \cup ToSet(t)
  BY <1>7 DEF ToSet
<1> QED BY <1>1, <1>6, <1>8

(* The sequences of ss after each other, by the definition of FlattenSeq. *)
LEMMA Flattened ==
    ASSUME NEW X, NEW ss \in Seq(Seq(X))
    PROVE  /\ FlattenSeq(ss) \in Seq(X)
           /\ ToSet(FlattenSeq(ss)) = UNION {ToSet(ss[i]) : i \in DOMAIN ss}
           /\ Len(ss) = 2 => FlattenSeq(ss) = ss[1] \o ss[2]
<1>0. Len(ss) \in Nat /\ DOMAIN ss = 1..Len(ss) /\ \A i \in 1..Len(ss) : ss[i] \in Seq(X)
  OBVIOUS
<1>1. CASE Len(ss) = 0
  <2>1. FlattenSeq(ss) = ss
    BY <1>1 DEF FlattenSeq
  <2>2. ss = <<>> /\ DOMAIN ss = {}
    BY <1>0, <1>1
  <2>3. ss \in Seq(X)
    BY <2>2
  <2> QED BY <1>1, <2>1, <2>2, <2>3 DEF ToSet
<1>2. CASE Len(ss) # 0
  <2>a. PICK A : A = Seq(X)
    OBVIOUS
  <2> DEFINE F == [p \in A \X A |-> p[1] \o p[2]]
             Body(f) == [i \in 1..Len(ss) |-> IF i = 1 THEN ss[i] ELSE f[i - 1] \o ss[i]]
             flatten == CHOOSE f : f = Body(f)
  <2>1. FlattenSeq(ss) = flatten[Len(ss)]
    BY <1>2 DEF FlattenSeq
  <2>2. F \in [A \X A -> A] /\ <<>> \in A /\ ss \in Seq(A)
    BY <2>a
  <2> HIDE DEF F
  <2>3. PICK g : FoldTable(F, <<>>, ss, A, g)
    BY <2>2, FoldExists
  <2>4. PICK f : f = [i \in 1..Len(ss) |-> g[1..i]]
    OBVIOUS
  <2>5. ASSUME NEW i \in 1..Len(ss)
        PROVE f[i] \in A /\ f[i] = IF i = 1 THEN ss[i] ELSE f[i - 1] \o ss[i]
    <3>1. 1..i \in SUBSET DOMAIN ss /\ 1..(i - 1) \in SUBSET DOMAIN ss
      BY <1>0
    <3>2. 1..i # {} /\ Max(1..i) = i /\ (1..i) \ {i} = 1..(i - 1)
      BY Beginnings
    <3>3. g[1..i] = F[<<g[1..(i - 1)], ss[i]>>]
      BY <2>3, <3>1, <3>2 DEF FoldTable, FoldedBy
    <3>4. g[1..i] \in A /\ g[1..(i - 1)] \in A /\ ss[i] \in A
      BY <1>0, <2>3, <2>a, <3>1 DEF FoldTable
    <3>5. g[1..i] = g[1..(i - 1)] \o ss[i]
      BY <3>3, <3>4 DEF F
    <3>6. CASE i = 1
      <4>1. 1..(i - 1) = {}
        BY <3>6
      <4>2. g[{}] = <<>>
        BY <2>3, <3>1, <4>1 DEF FoldTable, FoldedBy
      <4>3. <<>> \o ss[i] = ss[i]
        BY <2>a, <3>4
      <4> QED BY <2>4, <3>4, <3>5, <3>6, <4>1, <4>2, <4>3
    <3>7. CASE i # 1
      <4>1. i - 1 \in 1..Len(ss)
        BY <1>0, <3>7
      <4> QED BY <2>4, <3>4, <3>5, <3>7, <4>1
    <3> QED BY <3>6, <3>7
  <2>6. f = Body(f)
    BY <2>4, <2>5
  <2> HIDE DEF Body
  <2>7. PICK h : h = flatten /\ h = Body(h)
    BY <2>6
  <2> USE DEF Body
  <2>8. \A i \in 1..Len(ss) : h[i] = IF i = 1 THEN ss[i] ELSE h[i - 1] \o ss[i]
    BY <2>7
  <2> HIDE DEF Body, flatten
  <2> DEFINE Up(i) == UNION {ToSet(ss[j]) : j \in 1..i}
             G == {i \in 0..Len(ss) : i # 0 => h[i] \in Seq(X) /\ ToSet(h[i]) = Up(i)}
  <2>9. ASSUME NEW i \in 0..(Len(ss) - 1), i \in G PROVE i + 1 \in G
    <3>0. i + 1 \in 1..Len(ss) /\ ss[i + 1] \in Seq(X) /\ (i + 1) - 1 = i
      BY <1>0
    <3>1. CASE i = 0
      <4>1. h[1] = ss[1] /\ ss[1] \in Seq(X)
        BY <2>8, <3>0, <3>1
      <4>2. Up(1) = ToSet(ss[1])
        <5>1. 1..1 = {1}
          OBVIOUS
        <5> QED BY <5>1
      <4> QED BY <3>0, <3>1, <4>1, <4>2
    <3>2. CASE i # 0
      <4>0. i + 1 # 1
        BY <1>0, <3>2
      <4>a. h[i + 1] = h[i] \o ss[i + 1]
        BY <2>8, <3>0, <4>0
      <4>b. h[i] \in Seq(X) /\ ToSet(h[i]) = Up(i)
        <5> HIDE DEF Up
        <5> QED BY <2>9, <3>2
      <4>1. h[i + 1] = h[i] \o ss[i + 1] /\ h[i] \in Seq(X) /\ ToSet(h[i]) = Up(i)
        BY <4>a, <4>b
      <4>2. ToSet(h[i] \o ss[i + 1]) = ToSet(h[i]) \cup ToSet(ss[i + 1])
        BY <3>0, <4>1, Joined
      <4>3. Up(i + 1) = Up(i) \cup ToSet(ss[i + 1])
        <5>1. 1..(i + 1) = (1..i) \cup {i + 1}
          BY <1>0
        <5> QED BY <5>1
      <4>4. h[i] \o ss[i + 1] \in Seq(X)
        BY <3>0, <4>1
      <4> HIDE DEF Up
      <4>5. i + 1 \in 0..Len(ss)
        BY <1>0, <3>0
      <4> QED BY <4>1, <4>2, <4>3, <4>4, <4>5
    <3> QED BY <3>1, <3>2
  <2>10. 0..Len(ss) \subseteq G
    <3>1. 0 \in G
      BY <1>0
    <3> HIDE DEF G
    <3> QED BY <1>0, <2>9, <3>1, UpTo
  <2>11. Len(ss) \in G
    <3>1. Len(ss) \in 0..Len(ss)
      BY <1>0
    <3> HIDE DEF G
    <3> QED BY <2>10, <3>1
  <2>12. ASSUME Len(ss) = 2 PROVE h[Len(ss)] = ss[1] \o ss[2]
    <3>1. 1 \in 1..Len(ss) /\ 2 \in 1..Len(ss) /\ 2 - 1 = 1 /\ 2 # 1
      BY <2>12
    <3>2. h[2] = h[2 - 1] \o ss[2] /\ h[1] = ss[1]
      BY <2>8, <3>1
    <3> QED BY <2>12, <3>1, <3>2
  <2> QED BY <1>0, <1>2, <2>1, <2>7, <2>11, <2>12
<1> QED BY <1>1, <1>2
=============================================================================
