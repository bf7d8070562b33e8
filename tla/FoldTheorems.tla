----------------------------- MODULE FoldTheorems ----------------------------
(***************************************************************************)
(* What the folds of the other modules compute: sums of the community      *)
(* modules and subsequences.  Induction comes first, in the form the       *)
(* provers can use, with a set for the predicate.                          *)
(***************************************************************************)
EXTENDS Integers, Functions, Subsequences, FiniteSetTheorems, SequenceTheorems, WellFoundedInduction,
        TLAPS

-----------------------------------------------------------------------------
(* Induction. *)

(* Every non-empty set of naturals has a least element. *)
LEMMA LeastNumber ==
  ASSUME NEW S, S \subseteq Nat, S # {}
  PROVE  \E n \in S : \A k \in S : n <= k
<1> DEFINE R == OpToRel(<, Nat)
<1>1. IsWellFoundedOn(R, Nat) BY NatLessThanWellFounded
<1>2. \A k, n \in Nat : k < n => <<k, n>> \in R BY DEF OpToRel
<1> HIDE DEF R
<1>3. PICK n \in S : \A k \in S : ~ (<<k, n>> \in R) BY <1>1, WFMin
<1>4. ASSUME NEW k \in S PROVE n <= k
  <2>1. ~ (k < n) BY <1>2, <1>3
  <2> QED BY <2>1
<1> QED BY <1>4

(* A set that holds 0 and with a number the next one holds every natural. *)
LEMMA SetInduction ==
  ASSUME NEW S, 0 \in S, \A n \in Nat : n \in S => n + 1 \in S
  PROVE  Nat \subseteq S
<1> DEFINE T == Nat \ S
<1> SUFFICES ASSUME T # {} PROVE FALSE OBVIOUS
<1>1. PICK n \in T : \A k \in T : n <= k BY LeastNumber
<1>2. n # 0 /\ n - 1 \in Nat /\ n - 1 \notin T BY <1>1
<1> QED BY <1>1, <1>2

(* A family holds every subset of a finite set U when it holds each subset of
   which it holds all that have one element less. *)
LEMMA SubsetInduction ==
  ASSUME NEW U, IsFiniteSet(U), NEW F, {} \in F,
         \A s \in SUBSET U : s # {} /\ (\A x \in s : s \ {x} \in F) => s \in F
  PROVE  SUBSET U \subseteq F
<1> DEFINE N == {n \in Nat : \A s \in SUBSET U : Cardinality(s) = n => s \in F}
<1>1. \A s \in SUBSET U : IsFiniteSet(s) /\ Cardinality(s) \in Nat
  BY FS_Subset, FS_CardinalityType
<1>2. 0 \in N BY <1>1, FS_EmptySet
<1>3. ASSUME NEW n \in Nat, n \in N PROVE n + 1 \in N
  <2> SUFFICES ASSUME NEW s \in SUBSET U, Cardinality(s) = n + 1 PROVE s \in F OBVIOUS
  <2>1. IsFiniteSet(s) BY <1>1
  <2>2. s # {}
    <3>1. Cardinality({}) = 0 BY FS_EmptySet
    <3> QED BY <3>1
  <2>3. ASSUME NEW x \in s PROVE s \ {x} \in F
    <3>1. Cardinality(s \ {x}) = Cardinality(s) - 1 BY <2>1, FS_RemoveElement
    <3> QED BY <3>1, <1>3
  <2> QED BY <2>2, <2>3
<1>4. Nat \subseteq N
  <2> HIDE DEF N
  <2> QED BY <1>2, <1>3, SetInduction
<1> QED BY <1>1, <1>4

-----------------------------------------------------------------------------
(* The sum of f over a finite set. *)

Picked(s) == CHOOSE x \in s : TRUE

(* One step of the recursion that computes the sum. *)
SumStep(f, g, s) == IF s = {} THEN 0 ELSE f[Picked(s)] + g[s \ {Picked(s)}]

SumIter(f, S) == CHOOSE g : g = [s \in SUBSET S |-> SumStep(f, g, s)]

LEMMA SumUnfold ==
  ASSUME NEW f, NEW S PROVE SumFunctionOnSet(f, S) = SumIter(f, S)[S]
  BY DEF SumFunctionOnSet, FoldFunctionOnSet, MapThenFoldSet, SumIter, SumStep, Picked

(* The recursion defines a function. *)
LEMMA SumIterStep ==
  ASSUME NEW f, NEW S, IsFiniteSet(S)
  PROVE  \A s \in SUBSET S : SumIter(f, S)[s] = SumStep(f, SumIter(f, S), s)
<1> DEFINE Upto(n, g) == \A s \in SUBSET S : Cardinality(s) <= n => g[s] = SumStep(f, g, s)
           N == {n \in Nat : \E g : Upto(n, g)}
<1>1. \A s \in SUBSET S : IsFiniteSet(s) /\ Cardinality(s) \in Nat
  BY FS_Subset, FS_CardinalityType
<1>2. \A s \in SUBSET S : s # {} =>
        s \ {Picked(s)} \in SUBSET S /\ Cardinality(s \ {Picked(s)}) = Cardinality(s) - 1
  <2> SUFFICES ASSUME NEW s \in SUBSET S, s # {}
               PROVE  Cardinality(s \ {Picked(s)}) = Cardinality(s) - 1
    OBVIOUS
  <2>1. Picked(s) \in s BY DEF Picked
  <2>2. IsFiniteSet(s) BY <1>1
  <2> QED BY <2>1, <2>2, FS_RemoveElement
<1>3. 0 \in N
  <2> DEFINE g == [s \in SUBSET S |-> 0]
  <2>1. ASSUME NEW s \in SUBSET S, Cardinality(s) <= 0 PROVE g[s] = SumStep(f, g, s)
    <3>1. Cardinality(s) = 0 BY <1>1, <2>1
    <3>2. s = {} BY <1>1, <3>1, FS_EmptySet
    <3> QED BY <3>2 DEF SumStep
  <2> HIDE DEF g
  <2> QED BY <2>1
<1>4. ASSUME NEW n \in Nat, n \in N PROVE n + 1 \in N
  <2>1. PICK g : Upto(n, g) BY <1>4
  <2> DEFINE h == [s \in SUBSET S |-> IF Cardinality(s) <= n THEN g[s] ELSE SumStep(f, g, s)]
  <2>2. ASSUME NEW s \in SUBSET S, Cardinality(s) <= n + 1 PROVE h[s] = SumStep(f, h, s)
    <3>1. h[s] = SumStep(f, g, s) BY <2>1
    <3>2. CASE s = {} BY <3>1, <3>2 DEF SumStep
    <3>3. CASE s # {}
      <4>1. s \ {Picked(s)} \in SUBSET S /\ Cardinality(s \ {Picked(s)}) <= n
        BY <1>1, <1>2, <2>2, <3>3
      <4>2. h[s \ {Picked(s)}] = g[s \ {Picked(s)}] BY <4>1
      <4> QED BY <3>1, <3>3, <4>2 DEF SumStep
    <3> QED BY <3>2, <3>3
  <2> HIDE DEF h
  <2> QED BY <2>2
<1>5. Nat \subseteq N
  <2> HIDE DEF N
  <2> QED BY <1>3, <1>4, SetInduction
<1>6. PICK g : Upto(Cardinality(S), g) BY <1>1, <1>5
<1>7. \A s \in SUBSET S : g[s] = SumStep(f, g, s)
  <2> SUFFICES ASSUME NEW s \in SUBSET S PROVE Cardinality(s) <= Cardinality(S)
    BY <1>6
  <2> QED BY FS_Subset
<1> DEFINE h == [s \in SUBSET S |-> g[s]]
<1>8. ASSUME NEW s \in SUBSET S PROVE h[s] = SumStep(f, h, s)
  BY <1>2, <1>7 DEF SumStep
<1>9. h = [s \in SUBSET S |-> SumStep(f, h, s)]
  <2>1. h = [s \in SUBSET S |-> h[s]] OBVIOUS
  <2> HIDE DEF h
  <2> QED BY <1>8, <2>1
<1> HIDE DEF h
<1> DEFINE e == SumIter(f, S)
           k == [s \in SUBSET S |-> SumStep(f, e, s)]
<1>10. e = k BY <1>9 DEF SumIter
<1>11. \A s \in SUBSET S : k[s] = SumStep(f, e, s) OBVIOUS
<1> HIDE DEF e, k
<1>12. \A s \in SUBSET S : e[s] = SumStep(f, e, s) BY <1>10, <1>11
<1> QED BY <1>12 DEF e

(* It does not matter in which larger set the recursion runs. *)
LEMMA SumIterSubset ==
  ASSUME NEW f, NEW S, IsFiniteSet(S), NEW T \in SUBSET S
  PROVE  SumIter(f, S)[T] = SumIter(f, T)[T]
<1> DEFINE F == {s \in SUBSET T : SumIter(f, S)[s] = SumIter(f, T)[s]}
<1>1. IsFiniteSet(T) BY FS_Subset
<1>2. ASSUME NEW s \in SUBSET T
      PROVE  /\ SumIter(f, S)[s] = SumStep(f, SumIter(f, S), s)
             /\ SumIter(f, T)[s] = SumStep(f, SumIter(f, T), s)
  <2>1. s \in SUBSET S OBVIOUS
  <2>2. SumIter(f, S)[s] = SumStep(f, SumIter(f, S), s) BY <2>1, SumIterStep
  <2>3. SumIter(f, T)[s] = SumStep(f, SumIter(f, T), s) BY <1>1, SumIterStep
  <2> QED BY <2>2, <2>3
<1>3. {} \in F BY <1>2 DEF SumStep
<1>4. ASSUME NEW s \in SUBSET T, s # {}, \A x \in s : s \ {x} \in F PROVE s \in F
  <2>1. Picked(s) \in s BY <1>4 DEF Picked
  <2>2. SumIter(f, S)[s \ {Picked(s)}] = SumIter(f, T)[s \ {Picked(s)}] BY <1>4, <2>1
  <2> QED BY <1>2, <1>4, <2>2 DEF SumStep
<1>5. SUBSET T \subseteq F
  <2> HIDE DEF F
  <2> QED BY <1>1, <1>3, <1>4, SubsetInduction
<1> QED BY <1>5

LEMMA SumEmpty == ASSUME NEW f PROVE SumFunctionOnSet(f, {}) = 0
<1>1. SumIter(f, {})[{}] = SumStep(f, SumIter(f, {}), {})
  BY FS_EmptySet, SumIterStep
<1> QED BY <1>1, SumUnfold DEF SumStep

LEMMA SumPicked ==
  ASSUME NEW f, NEW S, IsFiniteSet(S), S # {}
  PROVE  SumFunctionOnSet(f, S) = f[Picked(S)] + SumFunctionOnSet(f, S \ {Picked(S)})
<1> DEFINE T == S \ {Picked(S)}
<1>1. SumIter(f, S)[S] = SumStep(f, SumIter(f, S), S) BY SumIterStep
<1>2. SumIter(f, S)[T] = SumIter(f, T)[T]
  <2>1. T \in SUBSET S OBVIOUS
  <2> HIDE DEF T
  <2> QED BY <2>1, SumIterSubset
<1>3. SumFunctionOnSet(f, S) = SumIter(f, S)[S] /\ SumFunctionOnSet(f, T) = SumIter(f, T)[T]
  BY SumUnfold
<1> QED BY <1>1, <1>2, <1>3 DEF SumStep

(* A sum of naturals is one. *)
LEMMA SumType ==
  ASSUME NEW S, IsFiniteSet(S), NEW f, \A x \in S : f[x] \in Nat
  PROVE  SumFunctionOnSet(f, S) \in Nat
<1> DEFINE F == {s \in SUBSET S : SumFunctionOnSet(f, s) \in Nat}
<1>1. {} \in F BY SumEmpty
<1>2. ASSUME NEW s \in SUBSET S, s # {}, \A x \in s : s \ {x} \in F PROVE s \in F
  <2>1. Picked(s) \in s BY <1>2 DEF Picked
  <2>2. IsFiniteSet(s) BY FS_Subset
  <2>3. SumFunctionOnSet(f, s) = f[Picked(s)] + SumFunctionOnSet(f, s \ {Picked(s)})
    BY <1>2, <2>2, SumPicked
  <2>4. SumFunctionOnSet(f, s \ {Picked(s)}) \in Nat BY <1>2, <2>1
  <2> QED BY <2>1, <2>3, <2>4
<1>3. SUBSET S \subseteq F
  <2> HIDE DEF F
  <2> QED BY <1>1, <1>2, SubsetInduction
<1> QED BY <1>3

LEMMA SumZero ==
  ASSUME NEW S, IsFiniteSet(S), NEW f, \A x \in S : f[x] = 0
  PROVE  SumFunctionOnSet(f, S) = 0
<1> DEFINE F == {s \in SUBSET S : SumFunctionOnSet(f, s) = 0}
<1>1. {} \in F BY SumEmpty
<1>2. ASSUME NEW s \in SUBSET S, s # {}, \A x \in s : s \ {x} \in F PROVE s \in F
  <2>1. Picked(s) \in s BY <1>2 DEF Picked
  <2>2. IsFiniteSet(s) BY FS_Subset
  <2>3. SumFunctionOnSet(f, s) = f[Picked(s)] + SumFunctionOnSet(f, s \ {Picked(s)})
    BY <1>2, <2>2, SumPicked
  <2> QED BY <1>2, <2>1, <2>3
<1>3. SUBSET S \subseteq F
  <2> HIDE DEF F
  <2> QED BY <1>1, <1>2, SubsetInduction
<1> QED BY <1>3

(* Any element may be taken out first. *)
LEMMA SumRemove ==
  ASSUME NEW S, IsFiniteSet(S), NEW f, \A x \in S : f[x] \in Nat, NEW x \in S
  PROVE  SumFunctionOnSet(f, S) = f[x] + SumFunctionOnSet(f, S \ {x})
<1> DEFINE F == {s \in SUBSET S : \A y \in s :
                    SumFunctionOnSet(f, s) = f[y] + SumFunctionOnSet(f, s \ {y})}
<1>1. {} \in F OBVIOUS
<1>2. ASSUME NEW s \in SUBSET S, s # {}, \A y \in s : s \ {y} \in F PROVE s \in F
  <2> SUFFICES ASSUME NEW y \in s
               PROVE  SumFunctionOnSet(f, s) = f[y] + SumFunctionOnSet(f, s \ {y})
    OBVIOUS
  <2> DEFINE p == Picked(s)
             rest == s \ {p, y}
  <2>1. p \in s BY DEF Picked
  <2>2. IsFiniteSet(s) /\ IsFiniteSet(rest) /\ rest \in SUBSET S BY FS_Subset
  <2>3. SumFunctionOnSet(f, s) = f[p] + SumFunctionOnSet(f, s \ {p})
    BY <1>2, <2>2, SumPicked
  <2>4. CASE p = y BY <2>3, <2>4
  <2>5. CASE p # y
    <3>1. (s \ {p}) \ {y} = rest /\ (s \ {y}) \ {p} = rest OBVIOUS
    <3>2. SumFunctionOnSet(f, s \ {p}) = f[y] + SumFunctionOnSet(f, rest)
      BY <1>2, <2>1, <2>5, <3>1
    <3>3. SumFunctionOnSet(f, s \ {y}) = f[p] + SumFunctionOnSet(f, rest)
      BY <1>2, <2>1, <2>5, <3>1
    <3>4. SumFunctionOnSet(f, rest) \in Nat BY <2>2, SumType
    <3>5. f[p] \in Nat /\ f[y] \in Nat BY <2>1
    <3> HIDE DEF p, rest
    <3> QED BY <2>3, <3>2, <3>3, <3>4, <3>5
  <2> QED BY <2>4, <2>5
<1>3. SUBSET S \subseteq F
  <2> HIDE DEF F
  <2> QED BY <1>1, <1>2, SubsetInduction
<1> QED BY <1>3

(* What one member adds, whether it is there or not. *)
LEMMA SumWithout ==
  ASSUME NEW S, IsFiniteSet(S), NEW f, \A y \in S : f[y] \in Nat, NEW x
  PROVE  SumFunctionOnSet(f, S) = SumFunctionOnSet(f, S \ {x}) + IF x \in S THEN f[x] ELSE 0
<1>1. IsFiniteSet(S \ {x}) BY FS_Subset
<1>2. SumFunctionOnSet(f, S) \in Nat /\ SumFunctionOnSet(f, S \ {x}) \in Nat BY <1>1, SumType
<1>3. CASE x \in S
  <2>1. SumFunctionOnSet(f, S) = f[x] + SumFunctionOnSet(f, S \ {x}) BY <1>3, SumRemove
  <2>2. f[x] \in Nat BY <1>3
  <2> QED BY <1>2, <1>3, <2>1, <2>2
<1>4. CASE x \notin S
  <2> DEFINE rest == S \ {x}
  <2>1. rest = S BY <1>4
  <2> HIDE DEF rest
  <2>2. SumFunctionOnSet(f, rest) = SumFunctionOnSet(f, S) BY <2>1
  <2> QED BY <1>2, <1>4, <2>2 DEF rest
<1> QED BY <1>3, <1>4

(* No summand is larger than the sum. *)
LEMMA SumMember ==
  ASSUME NEW S, IsFiniteSet(S), NEW f, \A x \in S : f[x] \in Nat, NEW x \in S
  PROVE  f[x] <= SumFunctionOnSet(f, S)
<1>1. IsFiniteSet(S \ {x}) BY FS_Subset
<1>2. SumFunctionOnSet(f, S \ {x}) \in Nat BY <1>1, SumType
<1>3. SumFunctionOnSet(f, S) = f[x] + SumFunctionOnSet(f, S \ {x}) BY SumRemove
<1> QED BY <1>2, <1>3

LEMMA SumAdd ==
  ASSUME NEW S, IsFiniteSet(S), NEW x, x \notin S, NEW f, \A y \in S \cup {x} : f[y] \in Nat
  PROVE  SumFunctionOnSet(f, S \cup {x}) = f[x] + SumFunctionOnSet(f, S)
<1> DEFINE T == S \cup {x}
<1>1. IsFiniteSet(T) BY FS_AddElement
<1>2. T \ {x} = S /\ x \in T OBVIOUS
<1> HIDE DEF T
<1>3. \A y \in T : f[y] \in Nat BY DEF T
<1>4. SumFunctionOnSet(f, T) = f[x] + SumFunctionOnSet(f, T \ {x}) BY <1>1, <1>2, <1>3, SumRemove
<1> QED BY <1>2, <1>4 DEF T

(* Only the summands in the set count. *)
LEMMA SumAgree ==
  ASSUME NEW S, IsFiniteSet(S), NEW f, NEW g, \A x \in S : f[x] = g[x]
  PROVE  SumFunctionOnSet(f, S) = SumFunctionOnSet(g, S)
<1> DEFINE F == {s \in SUBSET S : SumFunctionOnSet(f, s) = SumFunctionOnSet(g, s)}
<1>1. {} \in F BY SumEmpty
<1>2. ASSUME NEW s \in SUBSET S, s # {}, \A x \in s : s \ {x} \in F PROVE s \in F
  <2>1. Picked(s) \in s BY <1>2 DEF Picked
  <2>2. IsFiniteSet(s) BY FS_Subset
  <2>3. SumFunctionOnSet(f, s) = f[Picked(s)] + SumFunctionOnSet(f, s \ {Picked(s)})
    BY <1>2, <2>2, SumPicked
  <2>4. SumFunctionOnSet(g, s) = g[Picked(s)] + SumFunctionOnSet(g, s \ {Picked(s)})
    BY <1>2, <2>2, SumPicked
  <2> QED BY <1>2, <2>1, <2>3, <2>4
<1>3. SUBSET S \subseteq F
  <2> HIDE DEF F
  <2> QED BY <1>1, <1>2, SubsetInduction
<1> QED BY <1>3

(* One summand changes. *)
LEMMA SumChange ==
  ASSUME NEW S, IsFiniteSet(S), NEW f, NEW g, NEW x \in S,
         \A y \in S : f[y] \in Nat /\ g[y] \in Nat,
         \A y \in S \ {x} : g[y] = f[y]
  PROVE  SumFunctionOnSet(g, S) + f[x] = SumFunctionOnSet(f, S) + g[x]
<1>1. IsFiniteSet(S \ {x}) BY FS_Subset
<1>2. SumFunctionOnSet(g, S \ {x}) = SumFunctionOnSet(f, S \ {x}) BY <1>1, SumAgree
<1>3. SumFunctionOnSet(f, S \ {x}) \in Nat BY <1>1, SumType
<1>4. SumFunctionOnSet(f, S) = f[x] + SumFunctionOnSet(f, S \ {x}) BY SumRemove
<1>5. SumFunctionOnSet(g, S) = g[x] + SumFunctionOnSet(g, S \ {x}) BY SumRemove
<1> QED BY <1>2, <1>3, <1>4, <1>5

LEMMA SumExcept ==
  ASSUME NEW S, IsFiniteSet(S), NEW f \in [S -> Nat], NEW x \in S, NEW v \in Nat
  PROVE  SumFunctionOnSet([f EXCEPT ![x] = v], S) + f[x] = SumFunctionOnSet(f, S) + v
<1> DEFINE g == [f EXCEPT ![x] = v]
<1>1. \A y \in S : f[y] \in Nat /\ g[y] \in Nat OBVIOUS
<1>2. \A y \in S \ {x} : g[y] = f[y] OBVIOUS
<1>3. g[x] = v OBVIOUS
<1> HIDE DEF g
<1>4. SumFunctionOnSet(g, S) + f[x] = SumFunctionOnSet(f, S) + g[x] BY <1>1, <1>2, SumChange
<1> QED BY <1>3, <1>4 DEF g

(* A sum that grows in its set or in its summands does not get smaller. *)
LEMMA SumSubset ==
  ASSUME NEW S, IsFiniteSet(S), NEW T \in SUBSET S, NEW f, \A x \in S : f[x] \in Nat
  PROVE  SumFunctionOnSet(f, T) <= SumFunctionOnSet(f, S)
<1> DEFINE F == {s \in SUBSET (S \ T) : SumFunctionOnSet(f, T) <= SumFunctionOnSet(f, T \cup s)}
<1>1. IsFiniteSet(T) /\ IsFiniteSet(S \ T) BY FS_Subset
<1>2. SumFunctionOnSet(f, T) \in Nat BY <1>1, SumType
<1>3. {} \in F
  <2>1. T \cup {} = T OBVIOUS
  <2> QED BY <1>2, <2>1
<1>4. ASSUME NEW s \in SUBSET (S \ T), s # {}, \A x \in s : s \ {x} \in F PROVE s \in F
  <2>1. PICK x \in s : TRUE BY <1>4
  <2>2. IsFiniteSet(T \cup s) BY FS_Subset
  <2>3. SumFunctionOnSet(f, T \cup s) = f[x] + SumFunctionOnSet(f, (T \cup s) \ {x})
    BY <2>2, SumRemove
  <2>4. (T \cup s) \ {x} = T \cup (s \ {x}) OBVIOUS
  <2>5. SumFunctionOnSet(f, T) <= SumFunctionOnSet(f, T \cup (s \ {x})) BY <1>4
  <2>6. SumFunctionOnSet(f, T \cup (s \ {x})) \in Nat
    <3>1. IsFiniteSet(T \cup (s \ {x})) BY FS_Subset
    <3> QED BY <3>1, SumType
  <2>7. f[x] \in Nat OBVIOUS
  <2> QED BY <1>2, <2>3, <2>4, <2>5, <2>6, <2>7
<1>5. SUBSET (S \ T) \subseteq F
  <2> HIDE DEF F
  <2> QED BY <1>1, <1>3, <1>4, SubsetInduction
<1>6. T \cup (S \ T) = S OBVIOUS
<1> QED BY <1>5, <1>6

(* The parts, of the sizes f, do not meet and make up the whole. *)
Partition(S, part, f, whole) ==
  /\ \A x \in S : IsFiniteSet(part[x]) /\ f[x] = Cardinality(part[x])
  /\ \A x, y \in S : x # y => part[x] \cap part[y] = {}
  /\ \A u : u \in whole <=> \E x \in S : u \in part[x]

(* The sizes of sets that do not meet add up to the size of their union. *)
LEMMA SumOfParts ==
  ASSUME NEW S, IsFiniteSet(S), NEW part, NEW f, NEW whole, Partition(S, part, f, whole)
  PROVE  SumFunctionOnSet(f, S) = Cardinality(whole)
<1> DEFINE All(T) == UNION {part[x] : x \in T}
           F == {T \in SUBSET S : IsFiniteSet(All(T)) /\ SumFunctionOnSet(f, T) = Cardinality(All(T))}
<1>1. \A x \in S : f[x] \in Nat BY FS_CardinalityType DEF Partition
<1>2. {} \in F
  <2>1. All({}) = {} OBVIOUS
  <2> QED BY <2>1, FS_EmptySet, SumEmpty
<1>3. ASSUME NEW T \in SUBSET S, T # {}, \A x \in T : T \ {x} \in F PROVE T \in F
  <2>1. PICK x \in T : TRUE BY <1>3
  <2>2. IsFiniteSet(T) BY FS_Subset
  <2>3. All(T) = part[x] \cup All(T \ {x}) OBVIOUS
  <2>4. part[x] \cap All(T \ {x}) = {} BY DEF Partition
  <2>5. IsFiniteSet(All(T \ {x})) /\ SumFunctionOnSet(f, T \ {x}) = Cardinality(All(T \ {x}))
    BY <1>3
  <2>6. IsFiniteSet(part[x]) /\ f[x] = Cardinality(part[x]) BY DEF Partition
  <2>7. SumFunctionOnSet(f, T) = f[x] + SumFunctionOnSet(f, T \ {x}) BY <1>1, <2>2, SumRemove
  <2> DEFINE rest == All(T \ {x})
  <2> HIDE DEF All
  <2>8. /\ IsFiniteSet(part[x] \cup rest)
        /\ Cardinality(part[x] \cup rest) = Cardinality(part[x]) + Cardinality(rest) - 0
    <3> HIDE DEF rest
    <3>1. Cardinality(part[x] \cap rest) = 0 BY <2>4, FS_EmptySet DEF rest
    <3>2. IsFiniteSet(rest) BY <2>5 DEF rest
    <3> QED BY <2>6, <3>1, <3>2, FS_Union
  <2>9. Cardinality(part[x]) \in Nat /\ Cardinality(rest) \in Nat BY <2>5, <2>6, FS_CardinalityType
  <2>10. IsFiniteSet(All(T)) BY <2>3, <2>8
  <2>11. Cardinality(All(T)) = Cardinality(part[x]) + Cardinality(rest) BY <2>3, <2>8, <2>9
  <2>12. SumFunctionOnSet(f, T) = Cardinality(part[x]) + Cardinality(rest) BY <2>5, <2>6, <2>7
  <2> QED BY <2>10, <2>11, <2>12
<1>4. SUBSET S \subseteq F
  <2> HIDE DEF F
  <2> QED BY <1>2, <1>3, SubsetInduction
<1>5. SumFunctionOnSet(f, S) = Cardinality(All(S)) BY <1>4
<1>6. All(S) = whole
  <2>1. \A u : u \in All(S) <=> u \in whole BY DEF Partition
  <2> HIDE DEF All
  <2> QED BY <2>1
<1> HIDE DEF All
<1> QED BY <1>5, <1>6

-----------------------------------------------------------------------------
(* The subsequence of s at the positions in I. *)

LastOf(J) == CHOOSE j \in J : \A k \in J : k <= j

(* One step of the recursion that picks the elements. *)
SubStep(s, g, J) == IF J = {} THEN <<>> ELSE Append(g[J \ {LastOf(J)}], s[LastOf(J)])

SubIter(s, I) == CHOOSE g : g = [J \in SUBSET I |-> SubStep(s, g, J)]

LEMMA SubUnfold == ASSUME NEW s, NEW I PROVE Subsequence(s, I) = SubIter(s, I)[I]
  BY DEF Subsequence, MapThenFoldSet, SubIter, SubStep, LastOf

(* Every non-empty finite set of naturals has a greatest element. *)
LEMMA LastIn ==
  ASSUME NEW I, IsFiniteSet(I), I \subseteq Nat, I # {}
  PROVE  LastOf(I) \in I /\ \A k \in I : k <= LastOf(I)
<1> DEFINE F == {J \in SUBSET I : J = {} \/ \E j \in J : \A k \in J : k <= j}
<1>1. {} \in F OBVIOUS
<1>2. ASSUME NEW J \in SUBSET I, J # {}, \A x \in J : J \ {x} \in F PROVE J \in F
  <2>1. PICK x \in J : TRUE BY <1>2
  <2>2. CASE J \ {x} = {}
    <3>1. \A k \in J : k <= x BY <2>2
    <3> QED BY <3>1
  <2>3. CASE J \ {x} # {}
    <3>1. PICK j \in J \ {x} : \A k \in J \ {x} : k <= j BY <1>2, <2>3
    <3>2. CASE x <= j
      <4>1. \A k \in J : k <= j BY <3>1, <3>2
      <4> QED BY <4>1
    <3>3. CASE j <= x
      <4>1. \A k \in J : k <= x BY <3>1, <3>3
      <4> QED BY <4>1
    <3> QED BY <3>2, <3>3
  <2> QED BY <2>2, <2>3
<1>3. SUBSET I \subseteq F
  <2> HIDE DEF F
  <2> QED BY <1>1, <1>2, SubsetInduction
<1>4. \E j \in I : \A k \in I : k <= j BY <1>3
<1> QED BY <1>4 DEF LastOf

(* The recursion defines a function. *)
LEMMA SubIterStep ==
  ASSUME NEW s, NEW I, IsFiniteSet(I), I \subseteq Nat
  PROVE  \A J \in SUBSET I : SubIter(s, I)[J] = SubStep(s, SubIter(s, I), J)
<1> DEFINE Upto(n, g) == \A J \in SUBSET I : Cardinality(J) <= n => g[J] = SubStep(s, g, J)
           N == {n \in Nat : \E g : Upto(n, g)}
<1>1. \A J \in SUBSET I : IsFiniteSet(J) /\ Cardinality(J) \in Nat
  BY FS_Subset, FS_CardinalityType
<1>2. \A J \in SUBSET I : J # {} =>
        J \ {LastOf(J)} \in SUBSET I /\ Cardinality(J \ {LastOf(J)}) = Cardinality(J) - 1
  <2> SUFFICES ASSUME NEW J \in SUBSET I, J # {}
               PROVE  Cardinality(J \ {LastOf(J)}) = Cardinality(J) - 1
    OBVIOUS
  <2>1. IsFiniteSet(J) /\ J \subseteq Nat BY <1>1
  <2>2. LastOf(J) \in J BY <2>1, LastIn
  <2> QED BY <2>1, <2>2, FS_RemoveElement
<1>3. 0 \in N
  <2> DEFINE g == [J \in SUBSET I |-> <<>>]
  <2>1. ASSUME NEW J \in SUBSET I, Cardinality(J) <= 0 PROVE g[J] = SubStep(s, g, J)
    <3>1. Cardinality(J) = 0 BY <1>1, <2>1
    <3>2. J = {} BY <1>1, <3>1, FS_EmptySet
    <3> QED BY <3>2 DEF SubStep
  <2> HIDE DEF g
  <2> QED BY <2>1
<1>4. ASSUME NEW n \in Nat, n \in N PROVE n + 1 \in N
  <2>1. PICK g : Upto(n, g) BY <1>4
  <2> DEFINE h == [J \in SUBSET I |-> IF Cardinality(J) <= n THEN g[J] ELSE SubStep(s, g, J)]
  <2>2. ASSUME NEW J \in SUBSET I, Cardinality(J) <= n + 1 PROVE h[J] = SubStep(s, h, J)
    <3>1. h[J] = SubStep(s, g, J) BY <2>1
    <3>2. CASE J = {} BY <3>1, <3>2 DEF SubStep
    <3>3. CASE J # {}
      <4>1. J \ {LastOf(J)} \in SUBSET I /\ Cardinality(J \ {LastOf(J)}) <= n
        BY <1>1, <1>2, <2>2, <3>3
      <4>2. h[J \ {LastOf(J)}] = g[J \ {LastOf(J)}] BY <4>1
      <4> QED BY <3>1, <3>3, <4>2 DEF SubStep
    <3> QED BY <3>2, <3>3
  <2> HIDE DEF h
  <2> QED BY <2>2
<1>5. Nat \subseteq N
  <2> HIDE DEF N
  <2> QED BY <1>3, <1>4, SetInduction
<1>6. PICK g : Upto(Cardinality(I), g) BY <1>1, <1>5
<1>7. \A J \in SUBSET I : g[J] = SubStep(s, g, J)
  <2> SUFFICES ASSUME NEW J \in SUBSET I PROVE Cardinality(J) <= Cardinality(I)
    BY <1>6
  <2> QED BY FS_Subset
<1> DEFINE h == [J \in SUBSET I |-> g[J]]
<1>8. ASSUME NEW J \in SUBSET I PROVE h[J] = SubStep(s, h, J)
  BY <1>2, <1>7 DEF SubStep
<1>9. h = [J \in SUBSET I |-> SubStep(s, h, J)]
  <2>1. h = [J \in SUBSET I |-> h[J]] OBVIOUS
  <2> HIDE DEF h
  <2> QED BY <1>8, <2>1
<1> HIDE DEF h
<1> DEFINE f == SubIter(s, I)
           e == [J \in SUBSET I |-> SubStep(s, f, J)]
<1>10. f = e BY <1>9 DEF SubIter
<1>11. \A J \in SUBSET I : e[J] = SubStep(s, f, J) OBVIOUS
<1> HIDE DEF e, f
<1>12. \A J \in SUBSET I : f[J] = SubStep(s, f, J) BY <1>10, <1>11
<1> QED BY <1>12 DEF f

(* Only the elements at the positions count: neither the set the recursion runs
   in, nor the rest of the sequence. *)
LEMMA SubIterAgree ==
  ASSUME NEW I, IsFiniteSet(I), I \subseteq Nat, NEW J \in SUBSET I,
         NEW s, NEW t, \A i \in J : s[i] = t[i]
  PROVE  SubIter(s, I)[J] = SubIter(t, J)[J]
<1> DEFINE F == {K \in SUBSET J : SubIter(s, I)[K] = SubIter(t, J)[K]}
<1>1. IsFiniteSet(J) /\ J \subseteq Nat BY FS_Subset
<1>2. ASSUME NEW K \in SUBSET J
      PROVE  /\ SubIter(s, I)[K] = SubStep(s, SubIter(s, I), K)
             /\ SubIter(t, J)[K] = SubStep(t, SubIter(t, J), K)
  <2>1. K \in SUBSET I OBVIOUS
  <2>2. SubIter(s, I)[K] = SubStep(s, SubIter(s, I), K) BY <2>1, SubIterStep
  <2>3. SubIter(t, J)[K] = SubStep(t, SubIter(t, J), K) BY <1>1, SubIterStep
  <2> QED BY <2>2, <2>3
<1>3. {} \in F BY <1>2 DEF SubStep
<1>4. ASSUME NEW K \in SUBSET J, K # {}, \A x \in K : K \ {x} \in F PROVE K \in F
  <2>1. IsFiniteSet(K) /\ K \subseteq Nat BY <1>1, FS_Subset
  <2>2. LastOf(K) \in K BY <1>4, <2>1, LastIn
  <2>3. SubIter(s, I)[K \ {LastOf(K)}] = SubIter(t, J)[K \ {LastOf(K)}] BY <1>4, <2>2
  <2>4. s[LastOf(K)] = t[LastOf(K)] BY <2>2
  <2> QED BY <1>2, <1>4, <2>3, <2>4 DEF SubStep
<1>5. SUBSET J \subseteq F
  <2> HIDE DEF F
  <2> QED BY <1>1, <1>3, <1>4, SubsetInduction
<1> QED BY <1>5

LEMMA SubIterWithin ==
  ASSUME NEW I, IsFiniteSet(I), I \subseteq Nat, NEW J \in SUBSET I, NEW s
  PROVE  SubIter(s, I)[J] = SubIter(s, J)[J]
<1>1. \A t : (\A i \in J : s[i] = t[i]) => SubIter(s, I)[J] = SubIter(t, J)[J]
  BY SubIterAgree
<1> QED BY <1>1

LEMMA SubEmpty == ASSUME NEW s PROVE Subsequence(s, {}) = <<>>
<1>1. SubIter(s, {})[{}] = SubStep(s, SubIter(s, {}), {}) BY FS_EmptySet, SubIterStep
<1> QED BY <1>1, SubUnfold DEF SubStep

LEMMA SubAgree ==
  ASSUME NEW I, IsFiniteSet(I), I \subseteq Nat, NEW s, NEW t, \A i \in I : s[i] = t[i]
  PROVE  Subsequence(s, I) = Subsequence(t, I)
  BY SubIterAgree, SubUnfold

(* A position after all the others adds its element at the end. *)
LEMMA SubAdd ==
  ASSUME NEW s, NEW I, IsFiniteSet(I), I \subseteq Nat, NEW n \in Nat, \A i \in I : i < n
  PROVE  Subsequence(s, I \cup {n}) = Append(Subsequence(s, I), s[n])
<1> DEFINE J == I \cup {n}
<1>1. IsFiniteSet(J) /\ J \subseteq Nat /\ J # {} BY FS_AddElement
<1>2. LastOf(J) = n
  <2> DEFINE m == LastOf(J)
  <2>1. m \in J /\ \A k \in J : k <= m
    <3> HIDE DEF J
    <3> QED BY <1>1, LastIn
  <2>2. n <= m /\ (m = n \/ m < n) BY <2>1
  <2>3. m \in Nat BY <1>1, <2>1
  <2> HIDE DEF m
  <2>4. m = n BY <2>2, <2>3
  <2> QED BY <2>4 DEF m
<1>3. J \ {n} = I
  <2>1. n \notin I OBVIOUS
  <2> QED BY <2>1
<1> HIDE DEF J
<1>4. SubIter(s, J)[J] = SubStep(s, SubIter(s, J), J) BY <1>1, SubIterStep
<1>5. SubIter(s, J)[I] = SubIter(s, I)[I]
  <2>1. I \in SUBSET J BY DEF J
  <2> QED BY <1>1, <2>1, SubIterWithin
<1>6. Subsequence(s, J) = SubIter(s, J)[J] /\ Subsequence(s, I) = SubIter(s, I)[I]
  BY SubUnfold
<1> QED BY <1>1, <1>2, <1>3, <1>4, <1>5, <1>6 DEF SubStep, J

LEMMA WithoutLast ==
  ASSUME NEW J, IsFiniteSet(J), J \subseteq Nat, NEW n \in J, \A k \in J : k <= n
  PROVE  IsFiniteSet(J \ {n}) /\ J \ {n} \subseteq Nat /\ \A i \in J \ {n} : i < n
<1>1. IsFiniteSet(J \ {n}) BY FS_Subset
<1>2. ASSUME NEW i \in J \ {n} PROVE i < n
  <2>1. i <= n /\ i # n /\ i \in Nat /\ n \in Nat OBVIOUS
  <2> QED BY <2>1
<1> QED BY <1>1, <1>2

(* It is made of the elements at its positions, and repeats none that s has only
   once there. *)
LEMMA SubElements ==
  ASSUME NEW s, NEW I, IsFiniteSet(I), I \subseteq Nat
  PROVE  Subsequence(s, I) \in Seq({s[i] : i \in I})
<1> DEFINE F == {J \in SUBSET I : Subsequence(s, J) \in Seq({s[i] : i \in J})}
<1>1. {} \in F
  <2>1. \A V : <<>> \in Seq(V) BY EmptySeq
  <2>2. Subsequence(s, {}) \in Seq({s[i] : i \in {}}) BY <2>1, SubEmpty
  <2> QED BY <2>2
<1>2. ASSUME NEW J \in SUBSET I, J # {}, \A x \in J : J \ {x} \in F PROVE J \in F
  <2> DEFINE n == LastOf(J)
             K == J \ {n}
             V == {s[i] : i \in J}
  <2>1. IsFiniteSet(J) /\ J \subseteq Nat BY FS_Subset
  <2>2. n \in J /\ \A k \in J : k <= n BY <1>2, <2>1, LastIn
  <2>3. IsFiniteSet(K) /\ K \subseteq Nat /\ \A i \in K : i < n BY <2>1, <2>2, WithoutLast
  <2>4. K \cup {n} = J /\ n \in Nat BY <2>1, <2>2
  <2>5. Subsequence(s, K) \in Seq({s[i] : i \in K}) BY <1>2, <2>2
  <2>6. Subsequence(s, K) \in Seq(V) BY <2>5, SeqMonotonic
  <2>7. s[n] \in V BY <2>2
  <2> HIDE DEF n, K, V
  <2>8. Subsequence(s, J) = Append(Subsequence(s, K), s[n]) BY <2>3, <2>4, SubAdd
  <2>9. Subsequence(s, J) \in Seq(V) BY <2>6, <2>7, <2>8
  <2> QED BY <2>9 DEF V
<1>3. SUBSET I \subseteq F
  <2> HIDE DEF F
  <2> QED BY <1>1, <1>2, SubsetInduction
<1> QED BY <1>3

NoneTwice(s) == \A i, j \in DOMAIN s : s[i] = s[j] => i = j

LEMMA SubNoneTwice ==
  ASSUME NEW s, NEW I, IsFiniteSet(I), I \subseteq Nat, \A i, j \in I : s[i] = s[j] => i = j
  PROVE  NoneTwice(Subsequence(s, I))
<1> DEFINE F == {J \in SUBSET I : NoneTwice(Subsequence(s, J))}
<1>1. {} \in F BY SubEmpty DEF NoneTwice
<1>2. ASSUME NEW J \in SUBSET I, J # {}, \A x \in J : J \ {x} \in F PROVE J \in F
  <2> DEFINE n == LastOf(J)
             K == J \ {n}
             V == {s[i] : i \in K}
             t == Subsequence(s, K)
  <2>1. IsFiniteSet(J) /\ J \subseteq Nat BY FS_Subset
  <2>2. n \in J /\ \A k \in J : k <= n BY <1>2, <2>1, LastIn
  <2>3. IsFiniteSet(K) /\ K \subseteq Nat /\ \A i \in K : i < n BY <2>1, <2>2, WithoutLast
  <2>4. K \cup {n} = J /\ n \in Nat BY <2>1, <2>2
  <2>5. NoneTwice(t) BY <1>2, <2>2
  <2>6. t \in Seq(V) BY <2>3, SubElements
  <2>7. s[n] \notin V BY <2>2
  <2> HIDE DEF n, K, V
  <2>8. Subsequence(s, J) = Append(t, s[n]) BY <2>3, <2>4, SubAdd
  <2> HIDE DEF t
  <2>9. NoneTwice(Append(t, s[n]))
    <3> SUFFICES ASSUME NEW i \in DOMAIN Append(t, s[n]), NEW j \in DOMAIN Append(t, s[n]),
                        Append(t, s[n])[i] = Append(t, s[n])[j]
                 PROVE  i = j
      BY DEF NoneTwice
    <3>1. Len(t) \in Nat /\ DOMAIN t = 1 .. Len(t) /\ DOMAIN Append(t, s[n]) = 1 .. Len(t) + 1 BY <2>6
    <3>2. \A k \in 1 .. Len(t) : Append(t, s[n])[k] = t[k] /\ t[k] \in V BY <2>6
    <3>3. Append(t, s[n])[Len(t) + 1] = s[n] BY <2>6
    <3>4. i \in 1 .. Len(t) \/ i = Len(t) + 1 BY <3>1
    <3>5. j \in 1 .. Len(t) \/ j = Len(t) + 1 BY <3>1
    <3> QED BY <2>5, <2>7, <3>1, <3>2, <3>3, <3>4, <3>5 DEF NoneTwice
  <2> QED BY <2>8, <2>9
<1>3. SUBSET I \subseteq F
  <2> HIDE DEF F
  <2> QED BY <1>1, <1>2, SubsetInduction
<1> QED BY <1>3

(* All positions together give the whole sequence. *)
LEMMA SubWhole ==
  ASSUME NEW S, NEW s \in Seq(S) PROVE Subsequence(s, DOMAIN s) = s
<1> DEFINE N == {n \in Nat : n <= Len(s) => Subsequence(s, 1 .. n) = SubSeq(s, 1, n)}
<1>1. 0 \in N
  <2>1. 1 .. 0 = {} OBVIOUS
  <2>2. SubSeq(s, 1, 0) = <<>> BY SubSeqEmpty
  <2> QED BY <2>1, <2>2, SubEmpty
<1>2. ASSUME NEW n \in Nat, n \in N PROVE n + 1 \in N
  <2> SUFFICES ASSUME n + 1 <= Len(s)
               PROVE  Subsequence(s, 1 .. n + 1) = SubSeq(s, 1, n + 1)
    OBVIOUS
  <2>1. 1 .. n + 1 = (1 .. n) \cup {n + 1} OBVIOUS
  <2>2. IsFiniteSet(1 .. n) BY FS_Interval
  <2>3. \A i \in 1 .. n : i < n + 1 OBVIOUS
  <2> DEFINE I == 1 .. n
             m == n + 1
  <2>4. I \subseteq Nat /\ m \in Nat OBVIOUS
  <2>5. Subsequence(s, I \cup {m}) = Append(Subsequence(s, I), s[m])
    <3> HIDE DEF I, m
    <3> QED BY <2>2, <2>3, <2>4, SubAdd DEF I, m
  <2>6. Subsequence(s, I) = SubSeq(s, 1, n)
    <3>1. n <= Len(s) OBVIOUS
    <3> QED BY <1>2, <3>1
  <2>7. SubSeq(s, 1, n + 1) = Append(SubSeq(s, 1, n), s[n + 1])
    <3>1. 1 <= n + 1 /\ n + 1 <= Len(s) OBVIOUS
    <3> QED BY SubSeqRecursiveSecond
  <2> QED BY <2>1, <2>5, <2>6, <2>7
<1>3. Nat \subseteq N
  <2> HIDE DEF N
  <2> QED BY <1>1, <1>2, SetInduction
<1>4. Len(s) \in Nat /\ DOMAIN s = 1 .. Len(s) /\ SubSeq(s, 1, Len(s)) = s BY SubSeqFull
<1>5. Subsequence(s, 1 .. Len(s)) = SubSeq(s, 1, Len(s)) BY <1>3, <1>4
<1> QED BY <1>4, <1>5

-----------------------------------------------------------------------------
(* The elements of s that are in K. *)

Kept(s, K) == Subsequence(s, {i \in DOMAIN s : s[i] \in K})

LEMMA RangeAppend ==
  ASSUME NEW S, NEW s \in Seq(S), NEW x
  PROVE  Range(Append(s, x)) = Range(s) \cup {x}
<1> DEFINE t == Append(s, x)
           n == Len(s) + 1
<1>1. Len(s) \in Nat /\ DOMAIN s = 1 .. Len(s) /\ DOMAIN t = 1 .. n OBVIOUS
<1>2. (\A i \in DOMAIN s : t[i] = s[i]) /\ t[n] = x OBVIOUS
<1>3. DOMAIN t = DOMAIN s \cup {n} BY <1>1
<1> HIDE DEF t, n
<1>4. Range(t) = Range(s) \cup {x} BY <1>2, <1>3 DEF Range
<1> QED BY <1>4 DEF t

LEMMA KeptEmpty == ASSUME NEW K PROVE Kept(<<>>, K) = <<>>
<1>1. {i \in DOMAIN <<>> : <<>>[i] \in K} = {} OBVIOUS
<1> QED BY <1>1, SubEmpty DEF Kept

LEMMA KeptAppend ==
  ASSUME NEW S, NEW s \in Seq(S), NEW x \in S, NEW K
  PROVE  Kept(Append(s, x), K) = IF x \in K THEN Append(Kept(s, K), x) ELSE Kept(s, K)
<1> DEFINE I == {i \in DOMAIN s : s[i] \in K}
           t == Append(s, x)
           n == Len(s) + 1
           J == {i \in DOMAIN t : t[i] \in K}
<1>1. Len(s) \in Nat /\ DOMAIN s = 1 .. Len(s) /\ DOMAIN t = 1 .. n OBVIOUS
<1>2. (\A i \in DOMAIN s : t[i] = s[i]) /\ t[n] = x OBVIOUS
<1>3. J = IF x \in K THEN I \cup {n} ELSE I
  <2> HIDE DEF t
  <2>1. \A i \in DOMAIN t : i \in DOMAIN s \/ i = n BY <1>1
  <2>2. n \in DOMAIN t /\ n \notin DOMAIN s /\ DOMAIN s \subseteq DOMAIN t BY <1>1
  <2> HIDE DEF n
  <2> QED BY <1>2, <2>1, <2>2
<1>4. IsFiniteSet(I) /\ I \subseteq Nat
  <2>1. IsFiniteSet(1 .. Len(s)) BY <1>1, FS_Interval
  <2>2. I \subseteq 1 .. Len(s) BY <1>1
  <2> QED BY <1>1, <2>1, <2>2, FS_Subset
<1>5. n \in Nat /\ \A i \in I : i < n /\ t[i] = s[i] BY <1>1, <1>2
<1> HIDE DEF I, J, n, t
<1>6. Subsequence(t, I) = Subsequence(s, I) BY <1>4, <1>5, SubAgree
<1>7. Subsequence(t, I \cup {n}) = Append(Subsequence(t, I), t[n]) BY <1>4, <1>5, SubAdd
<1>8. Subsequence(t, J) = IF x \in K THEN Append(Subsequence(s, I), x) ELSE Subsequence(s, I)
  BY <1>2, <1>3, <1>6, <1>7
<1> QED BY <1>8 DEF Kept, I, J, t

LEMMA KeptType ==
  ASSUME NEW S, NEW s \in Seq(S), NEW K PROVE Kept(s, K) \in Seq(S)
<1> DEFINE I == {i \in DOMAIN s : s[i] \in K}
<1>1. IsFiniteSet(I) /\ I \subseteq Nat
  <2>1. Len(s) \in Nat /\ DOMAIN s = 1 .. Len(s) OBVIOUS
  <2>2. IsFiniteSet(1 .. Len(s)) BY <2>1, FS_Interval
  <2>3. I \subseteq 1 .. Len(s) BY <2>1
  <2> QED BY <2>1, <2>2, <2>3, FS_Subset
<1>2. {s[i] : i \in I} \subseteq S OBVIOUS
<1> HIDE DEF I
<1>3. Subsequence(s, I) \in Seq({s[i] : i \in I}) BY <1>1, SubElements
<1>4. Subsequence(s, I) \in Seq(S) BY <1>2, <1>3, SeqMonotonic
<1> QED BY <1>4 DEF Kept, I

LEMMA ConcatAppend ==
  ASSUME NEW S, NEW a \in Seq(S), NEW b \in Seq(S), NEW x \in S
  PROVE  a \o Append(b, x) = Append(a \o b, x)
<1>1. <<x>> \in Seq(S) OBVIOUS
<1>2. Append(b, x) = b \o <<x>> BY AppendIsConcat
<1>3. a \o b \in Seq(S) BY ConcatProperties
<1>4. Append(a \o b, x) = (a \o b) \o <<x>> BY <1>3, AppendIsConcat
<1>5. (a \o b) \o <<x>> = a \o (b \o <<x>>) BY <1>1, ConcatAssociative
<1> QED BY <1>2, <1>4, <1>5

LEMMA KeptConcat ==
  ASSUME NEW S, NEW s \in Seq(S), NEW t \in Seq(S), NEW K
  PROVE  Kept(s \o t, K) = Kept(s, K) \o Kept(t, K)
<1> DEFINE P(u) == Kept(s \o u, K) = Kept(s, K) \o Kept(u, K)
           N == {n \in Nat : \A u \in Seq(S) : Len(u) = n => P(u)}
<1>1. Kept(s, K) \in Seq(S) BY KeptType
<1>2. 0 \in N
  <2> SUFFICES ASSUME NEW u \in Seq(S), Len(u) = 0 PROVE P(u) OBVIOUS
  <2>1. u = <<>> BY EmptySeq
  <2>2. s \o <<>> = s /\ Kept(s, K) \o <<>> = Kept(s, K) BY <1>1, ConcatEmptySeq
  <2>3. Kept(<<>>, K) = <<>> BY KeptEmpty
  <2> QED BY <2>1, <2>2, <2>3
<1>3. ASSUME NEW n \in Nat, n \in N PROVE n + 1 \in N
  <2> SUFFICES ASSUME NEW u \in Seq(S), Len(u) = n + 1 PROVE P(u) OBVIOUS
  <2>1. PICK v \in Seq(S), x \in S : u = Append(v, x)
    <3>1. u # <<>> BY EmptySeq
    <3> QED BY <3>1, SequenceEmptyOrAppend
  <2>2. Len(v) = n
    <3>1. Len(u) = Len(v) + 1 /\ Len(v) \in Nat BY <2>1
    <3> QED BY <3>1
  <2>3. P(v) BY <1>3, <2>2
  <2>4. s \o u = Append(s \o v, x) /\ s \o v \in Seq(S)
    <3>1. s \o Append(v, x) = Append(s \o v, x) BY ConcatAppend
    <3>2. s \o v \in Seq(S) BY ConcatProperties
    <3> QED BY <2>1, <3>1, <3>2
  <2>5. Kept(s \o u, K) = IF x \in K THEN Append(Kept(s \o v, K), x) ELSE Kept(s \o v, K)
    <3> DEFINE w == s \o v
    <3>1. s \o u = Append(w, x) /\ w \in Seq(S) BY <2>4
    <3> HIDE DEF w
    <3>2. Kept(Append(w, x), K) = IF x \in K THEN Append(Kept(w, K), x) ELSE Kept(w, K)
      BY <3>1, KeptAppend
    <3>3. Kept(s \o u, K) = IF x \in K THEN Append(Kept(w, K), x) ELSE Kept(w, K) BY <3>1, <3>2
    <3> QED BY <3>3 DEF w
  <2>6. Kept(u, K) = IF x \in K THEN Append(Kept(v, K), x) ELSE Kept(v, K)
    BY <2>1, KeptAppend
  <2>7. Append(Kept(s, K) \o Kept(v, K), x) = Kept(s, K) \o Append(Kept(v, K), x)
    <3> DEFINE a == Kept(s, K)
               b == Kept(v, K)
    <3>1. a \in Seq(S) /\ b \in Seq(S) BY <1>1, KeptType
    <3> HIDE DEF a, b
    <3>2. a \o Append(b, x) = Append(a \o b, x) BY <3>1, ConcatAppend
    <3> QED BY <3>2 DEF a, b
  <2> QED BY <2>3, <2>5, <2>6, <2>7
<1>4. Nat \subseteq N
  <2> HIDE DEF N
  <2> QED BY <1>2, <1>3, SetInduction
<1>5. Len(t) \in N BY <1>4
<1> QED BY <1>5

LEMMA KeptLength ==
  ASSUME NEW S, NEW s \in Seq(S), NEW K PROVE Len(Kept(s, K)) <= Len(s)
<1> DEFINE N == {n \in Nat : \A u \in Seq(S) : Len(u) = n => Len(Kept(u, K)) <= n}
<1>1. 0 \in N
  <2> SUFFICES ASSUME NEW u \in Seq(S), Len(u) = 0 PROVE Len(Kept(u, K)) <= 0 OBVIOUS
  <2>1. u = <<>> BY EmptySeq
  <2> QED BY <2>1, KeptEmpty
<1>2. ASSUME NEW n \in Nat, n \in N PROVE n + 1 \in N
  <2> SUFFICES ASSUME NEW u \in Seq(S), Len(u) = n + 1 PROVE Len(Kept(u, K)) <= n + 1 OBVIOUS
  <2>1. PICK v \in Seq(S), x \in S : u = Append(v, x)
    <3>1. u # <<>> BY EmptySeq
    <3> QED BY <3>1, SequenceEmptyOrAppend
  <2>2. Len(v) = n
    <3>1. Len(u) = Len(v) + 1 /\ Len(v) \in Nat BY <2>1
    <3> QED BY <3>1
  <2>3. Len(Kept(v, K)) <= n BY <1>2, <2>2
  <2>4. Kept(u, K) = IF x \in K THEN Append(Kept(v, K), x) ELSE Kept(v, K) BY <2>1, KeptAppend
  <2>5. Kept(v, K) \in Seq(S) BY KeptType
  <2>6. Len(Kept(v, K)) \in Nat /\ Len(Append(Kept(v, K), x)) = Len(Kept(v, K)) + 1 BY <2>5
  <2> QED BY <2>3, <2>4, <2>6
<1>3. Nat \subseteq N
  <2> HIDE DEF N
  <2> QED BY <1>1, <1>2, SetInduction
<1> QED BY <1>3

LEMMA KeptOne ==
  ASSUME NEW x, NEW K PROVE Kept(<<x>>, K) = IF x \in K THEN <<x>> ELSE <<>>
<1> DEFINE e == <<>>
<1>1. Append(e, x) = <<x>> /\ e \in Seq({x}) /\ x \in {x} OBVIOUS
<1>2. Kept(e, K) = e BY KeptEmpty
<1> HIDE DEF e
<1>3. Kept(Append(e, x), K) = IF x \in K THEN Append(Kept(e, K), x) ELSE Kept(e, K)
  BY <1>1, KeptAppend
<1>4. Kept(<<x>>, K) = IF x \in K THEN <<x>> ELSE e BY <1>1, <1>2, <1>3
<1> QED BY <1>4 DEF e

LEMMA KeptFirst ==
  ASSUME NEW S, NEW s \in Seq(S), s # <<>>, NEW K
  PROVE  Kept(s, K) = (IF Head(s) \in K THEN <<Head(s)>> ELSE <<>>) \o Kept(Tail(s), K)
<1>1. Head(s) \in S /\ Tail(s) \in Seq(S) BY HeadTailProperties
<1>2. s = <<Head(s)>> \o Tail(s)
  <2>1. Len(s) \in Nat /\ Len(s) >= 1 BY EmptySeq
  <2>2. SubSeq(s, 1, Len(s)) = <<s[1]>> \o SubSeq(s, 2, Len(s))
    <3>1. 1 \in 1 .. Len(s) /\ Len(s) \in 1 .. Len(s) BY <2>1
    <3>2. SubSeq(s, 1, Len(s)) = <<s[1]>> \o SubSeq(s, 1 + 1, Len(s)) BY <3>1, SubSeqRecursiveFirst
    <3> QED BY <3>2
  <2>3. SubSeq(s, 1, Len(s)) = s BY SubSeqFull
  <2>4. Tail(s) = SubSeq(s, 2, Len(s)) BY TailIsSubSeq
  <2>5. Head(s) = s[1] OBVIOUS
  <2> QED BY <2>2, <2>3, <2>4, <2>5
<1> DEFINE h == <<Head(s)>>
           t == Tail(s)
<1>3. h \in Seq(S) /\ t \in Seq(S) BY <1>1
<1>4. Kept(h, K) = IF Head(s) \in K THEN <<Head(s)>> ELSE <<>> BY KeptOne
<1>5. s = h \o t BY <1>2
<1> HIDE DEF h, t
<1>6. Kept(h \o t, K) = Kept(h, K) \o Kept(t, K) BY <1>3, KeptConcat
<1> QED BY <1>4, <1>5, <1>6 DEF t

(* What is kept is there, and what is there and wanted is kept. *)
LEMMA KeptElements ==
  ASSUME NEW S, NEW s \in Seq(S), NEW K
  PROVE  Range(Kept(s, K)) = Range(s) \cap K
<1> DEFINE N == {n \in Nat : \A u \in Seq(S) : Len(u) = n => Range(Kept(u, K)) = Range(u) \cap K}
<1>1. 0 \in N
  <2> SUFFICES ASSUME NEW u \in Seq(S), Len(u) = 0 PROVE Range(Kept(u, K)) = Range(u) \cap K OBVIOUS
  <2>1. u = <<>> BY EmptySeq
  <2> QED BY <2>1, KeptEmpty DEF Range
<1>2. ASSUME NEW n \in Nat, n \in N PROVE n + 1 \in N
  <2> SUFFICES ASSUME NEW u \in Seq(S), Len(u) = n + 1 PROVE Range(Kept(u, K)) = Range(u) \cap K OBVIOUS
  <2>1. PICK v \in Seq(S), x \in S : u = Append(v, x)
    <3>1. u # <<>> BY EmptySeq
    <3> QED BY <3>1, SequenceEmptyOrAppend
  <2>2. Len(v) = n
    <3>1. Len(u) = Len(v) + 1 /\ Len(v) \in Nat BY <2>1
    <3> QED BY <3>1
  <2>3. Range(Kept(v, K)) = Range(v) \cap K BY <1>2, <2>2
  <2>4. Kept(u, K) = IF x \in K THEN Append(Kept(v, K), x) ELSE Kept(v, K) BY <2>1, KeptAppend
  <2>5. Range(u) = Range(v) \cup {x} BY <2>1, RangeAppend
  <2>6. Kept(v, K) \in Seq(S) BY KeptType
  <2>7. Range(Append(Kept(v, K), x)) = Range(Kept(v, K)) \cup {x} BY <2>6, RangeAppend
  <2> QED BY <2>3, <2>4, <2>5, <2>7
<1>3. Nat \subseteq N
  <2> HIDE DEF N
  <2> QED BY <1>1, <1>2, SetInduction
<1>4. Len(s) \in N BY <1>3
<1> QED BY <1>4

(* To keep twice is to keep what both want. *)
LEMMA KeptKept ==
  ASSUME NEW S, NEW s \in Seq(S), NEW K, NEW L
  PROVE  Kept(Kept(s, K), L) = Kept(s, K \cap L)
<1> DEFINE P(u) == Kept(Kept(u, K), L) = Kept(u, K \cap L)
           N == {n \in Nat : \A u \in Seq(S) : Len(u) = n => P(u)}
<1>1. 0 \in N
  <2> SUFFICES ASSUME NEW u \in Seq(S), Len(u) = 0 PROVE P(u) OBVIOUS
  <2>1. u = <<>> BY EmptySeq
  <2> QED BY <2>1, KeptEmpty
<1>2. ASSUME NEW n \in Nat, n \in N PROVE n + 1 \in N
  <2>0. n + 1 \in Nat OBVIOUS
  <2> SUFFICES ASSUME NEW u \in Seq(S), Len(u) = n + 1 PROVE P(u) BY <2>0, Zenon
  <2>1. PICK v \in Seq(S), x \in S : u = Append(v, x)
    <3>1. u # <<>> BY EmptySeq
    <3> QED BY <3>1, SequenceEmptyOrAppend
  <2>2. Len(v) = n
    <3>1. Len(u) = Len(v) + 1 /\ Len(v) \in Nat BY <2>1
    <3> QED BY <3>1
  <2>3. P(v) BY <1>2, <2>2
  <2> DEFINE w == Kept(v, K)
  <2>4. w \in Seq(S) BY KeptType
  <2>5. Kept(u, K) = IF x \in K THEN Append(w, x) ELSE w BY <2>1, KeptAppend
  <2>6. Kept(u, K \cap L) = IF x \in K \cap L THEN Append(Kept(v, K \cap L), x) ELSE Kept(v, K \cap L)
    BY <2>1, KeptAppend
  <2>7. Kept(w, L) = Kept(v, K \cap L) BY <2>3
  <2> HIDE DEF w
  <2>8. Kept(Append(w, x), L) = IF x \in L THEN Append(Kept(w, L), x) ELSE Kept(w, L)
    BY <2>4, KeptAppend
  <2>9. CASE x \in K
    <3>1. Kept(u, K) = Append(w, x) BY <2>5, <2>9
    <3>2. Kept(u, K \cap L) = IF x \in L THEN Append(Kept(w, L), x) ELSE Kept(w, L)
      BY <2>6, <2>7, <2>9
    <3> QED BY <2>8, <3>1, <3>2
  <2>10. CASE x \notin K
    <3>1. Kept(u, K) = w BY <2>5, <2>10
    <3>2. Kept(u, K \cap L) = Kept(w, L) BY <2>6, <2>7, <2>10
    <3> QED BY <3>1, <3>2
  <2> QED BY <2>9, <2>10
<1>3. Nat \subseteq N
  <2> HIDE DEF N
  <2> QED BY <1>1, <1>2, SetInduction
<1>4. Len(s) \in Nat OBVIOUS
<1>5. P(s) BY <1>3, <1>4, Zenon
<1> QED BY <1>5

-----------------------------------------------------------------------------
(* A fold of a sequence from the left, with a function for the operation. *)

IsFold(step, base, s, I, g) ==
  \A J \in SUBSET I :
    g[J] = IF J = {} THEN base ELSE step[<<g[J \ {LastOf(J)}], s[LastOf(J)]>>]

Folding(step, base, s, I) == CHOOSE g : IsFold(step, base, s, I, g)

Folded(step, base, s) == Folding(step, base, s, DOMAIN s)[DOMAIN s]

LEMMA Positions ==
  ASSUME NEW X, NEW s \in Seq(X) PROVE IsFiniteSet(DOMAIN s) /\ DOMAIN s \subseteq Nat
<1>1. Len(s) \in Nat /\ DOMAIN s = 1 .. Len(s) OBVIOUS
<1>2. IsFiniteSet(1 .. Len(s)) BY <1>1, FS_Interval
<1> QED BY <1>1, <1>2

LEMMA WithoutLastOf ==
  ASSUME NEW I, IsFiniteSet(I), I \subseteq Nat, NEW J \in SUBSET I
  PROVE  /\ IsFiniteSet(J) /\ Cardinality(J) \in Nat
         /\ J # {} => /\ LastOf(J) \in J /\ J \ {LastOf(J)} \in SUBSET I
                     /\ Cardinality(J \ {LastOf(J)}) = Cardinality(J) - 1
<1>1. IsFiniteSet(J) /\ J \subseteq Nat BY FS_Subset
<1>2. Cardinality(J) \in Nat BY <1>1, FS_CardinalityType
<1>3. ASSUME J # {}
      PROVE  LastOf(J) \in J /\ J \ {LastOf(J)} \in SUBSET I
             /\ Cardinality(J \ {LastOf(J)}) = Cardinality(J) - 1
  <2>1. LastOf(J) \in J BY <1>1, <1>3, LastIn
  <2> QED BY <1>1, <2>1, FS_RemoveElement
<1> QED BY <1>1, <1>2, <1>3

(* There is one. *)
LEMMA FoldExists ==
  ASSUME NEW I, IsFiniteSet(I), I \subseteq Nat, NEW s, NEW step, NEW base
  PROVE  \E g : g = [J \in SUBSET I |-> g[J]] /\ IsFold(step, base, s, I, g)
<1> DEFINE One(g, J) == IF J = {} THEN base ELSE step[<<g[J \ {LastOf(J)}], s[LastOf(J)]>>]
           Upto(n, g) == \A J \in SUBSET I : Cardinality(J) <= n => g[J] = One(g, J)
           N == {n \in Nat : \E g : Upto(n, g)}
<1>1. \A J \in SUBSET I : IsFiniteSet(J) /\ Cardinality(J) \in Nat BY WithoutLastOf
<1>2. \A J \in SUBSET I : J # {} =>
        J \ {LastOf(J)} \in SUBSET I /\ Cardinality(J \ {LastOf(J)}) = Cardinality(J) - 1
  BY WithoutLastOf
<1>3. 0 \in N
  <2> DEFINE g == [J \in SUBSET I |-> base]
  <2>1. ASSUME NEW J \in SUBSET I, Cardinality(J) <= 0 PROVE g[J] = One(g, J)
    <3>1. Cardinality(J) = 0 BY <1>1, <2>1
    <3>2. J = {} BY <1>1, <3>1, FS_EmptySet
    <3> QED BY <3>2
  <2> HIDE DEF g
  <2> QED BY <2>1
<1>4. ASSUME NEW n \in Nat, n \in N PROVE n + 1 \in N
  <2>1. PICK g : Upto(n, g) BY <1>4
  <2> DEFINE h == [J \in SUBSET I |-> IF Cardinality(J) <= n THEN g[J] ELSE One(g, J)]
  <2>2. ASSUME NEW J \in SUBSET I, Cardinality(J) <= n + 1 PROVE h[J] = One(h, J)
    <3>1. h[J] = One(g, J) BY <2>1
    <3>2. CASE J = {} BY <3>1, <3>2
    <3>3. CASE J # {}
      <4>1. J \ {LastOf(J)} \in SUBSET I /\ Cardinality(J \ {LastOf(J)}) <= n
        BY <1>1, <1>2, <2>2, <3>3
      <4>2. h[J \ {LastOf(J)}] = g[J \ {LastOf(J)}] BY <4>1
      <4> QED BY <3>1, <3>3, <4>2
    <3> QED BY <3>2, <3>3
  <2> HIDE DEF h
  <2>3. Upto(n + 1, h) BY <2>2
  <2>4. n + 1 \in Nat OBVIOUS
  <2> HIDE DEF Upto
  <2> QED BY <2>3, <2>4
<1>5. Nat \subseteq N
  <2> HIDE DEF N
  <2> QED BY <1>3, <1>4, SetInduction
<1>6. PICK g : Upto(Cardinality(I), g) BY <1>1, <1>5
<1>7. \A J \in SUBSET I : g[J] = One(g, J)
  <2> SUFFICES ASSUME NEW J \in SUBSET I PROVE Cardinality(J) <= Cardinality(I)
    BY <1>6
  <2> QED BY FS_Subset
<1> DEFINE h == [J \in SUBSET I |-> g[J]]
<1>8. ASSUME NEW J \in SUBSET I PROVE h[J] = One(h, J)
  BY <1>2, <1>7
<1>9. h = [J \in SUBSET I |-> h[J]] OBVIOUS
<1> HIDE DEF h
<1> QED BY <1>8, <1>9 DEF IsFold

LEMMA FoldingIs ==
  ASSUME NEW I, IsFiniteSet(I), I \subseteq Nat, NEW s, NEW step, NEW base
  PROVE  IsFold(step, base, s, I, Folding(step, base, s, I))
<1>1. \E g : IsFold(step, base, s, I, g) BY FoldExists
<1> QED BY <1>1 DEF Folding

(* What it has computed so far stays of a type the step keeps. *)
Keeps(step, base, s, I, A) ==
  IsFiniteSet(I) /\ I \subseteq Nat /\ base \in A /\ \A i \in I : \A a \in A : step[<<a, s[i]>>] \in A

LEMMA FoldTyped ==
  ASSUME NEW step, NEW base, NEW s, NEW I, NEW A, Keeps(step, base, s, I, A)
  PROVE  \A J \in SUBSET I : Folding(step, base, s, I)[J] \in A
<1> DEFINE h == Folding(step, base, s, I)
           F == {J \in SUBSET I : h[J] \in A}
<1>0. IsFiniteSet(I) /\ I \subseteq Nat /\ base \in A
      /\ \A i \in I : \A a \in A : step[<<a, s[i]>>] \in A
  BY DEF Keeps
<1>1. IsFold(step, base, s, I, h) BY <1>0, FoldingIs
<1> HIDE DEF h
<1>2. {} \in F BY <1>0, <1>1 DEF IsFold
<1>3. ASSUME NEW J \in SUBSET I, J # {}, \A x \in J : J \ {x} \in F PROVE J \in F
  <2> DEFINE m == LastOf(J)
  <2>1. m \in J BY <1>0, <1>3, WithoutLastOf
  <2>2. h[J] = step[<<h[J \ {m}], s[m]>>] BY <1>1, <1>3 DEF IsFold
  <2> HIDE DEF m
  <2> QED BY <1>0, <1>3, <2>1, <2>2
<1>4. SUBSET I \subseteq F
  <2> HIDE DEF F
  <2> QED BY <1>0, <1>2, <1>3, SubsetInduction
<1> QED BY <1>4 DEF h

(* Only the elements at the positions count, and it does not matter in which
   larger set the recursion runs. *)
Agree(s, t, K, I) ==
  IsFiniteSet(I) /\ I \subseteq Nat /\ K \subseteq I /\ \A i \in K : s[i] = t[i]

LEMMA FoldAgree ==
  ASSUME NEW s, NEW t, NEW K, NEW I, Agree(s, t, K, I), NEW step, NEW base
  PROVE  Folding(step, base, s, I)[K] = Folding(step, base, t, K)[K]
<1> DEFINE g == Folding(step, base, s, I)
           h == Folding(step, base, t, K)
           F == {J \in SUBSET K : g[J] = h[J]}
<1>0. IsFiniteSet(I) /\ I \subseteq Nat /\ K \subseteq I /\ \A i \in K : s[i] = t[i] BY DEF Agree
<1>1. IsFiniteSet(K) /\ K \subseteq Nat BY <1>0, FS_Subset
<1>2. IsFold(step, base, s, I, g) /\ IsFold(step, base, t, K, h) BY <1>0, <1>1, FoldingIs
<1> HIDE DEF g, h
<1>3. {} \in F BY <1>2 DEF IsFold
<1>4. ASSUME NEW J \in SUBSET K, J # {}, \A x \in J : J \ {x} \in F PROVE J \in F
  <2> DEFINE m == LastOf(J)
  <2>1. m \in J BY <1>1, <1>4, WithoutLastOf
  <2>2. J \in SUBSET I BY <1>0
  <2>3. g[J] = step[<<g[J \ {m}], s[m]>>] BY <1>2, <1>4, <2>2 DEF IsFold
  <2>4. h[J] = step[<<h[J \ {m}], t[m]>>] BY <1>2, <1>4 DEF IsFold
  <2> HIDE DEF m
  <2>5. s[m] = t[m] /\ g[J \ {m}] = h[J \ {m}] BY <1>0, <1>4, <2>1
  <2> QED BY <2>3, <2>4, <2>5
<1>5. SUBSET K \subseteq F
  <2> HIDE DEF F
  <2> QED BY <1>1, <1>3, <1>4, SubsetInduction
<1> QED BY <1>5 DEF g, h

LEMMA FoldedEmpty ==
  ASSUME NEW step, NEW base PROVE Folded(step, base, <<>>) = base
<1> DEFINE e == <<>>
           I == DOMAIN e
<1>1. I = {} OBVIOUS
<1>2. IsFiniteSet(I) /\ I \subseteq Nat BY <1>1, FS_EmptySet
<1> HIDE DEF e, I
<1>3. IsFold(step, base, e, I, Folding(step, base, e, I)) BY <1>2, FoldingIs
<1>4. Folding(step, base, e, I)[I] = base BY <1>1, <1>3 DEF IsFold
<1>5. Folded(step, base, e) = base BY <1>4 DEF Folded, I
<1> QED BY <1>5 DEF e

LEMMA FoldedAppend ==
  ASSUME NEW X, NEW s \in Seq(X), NEW x \in X, NEW step, NEW base
  PROVE  Folded(step, base, Append(s, x)) = step[<<Folded(step, base, s), x>>]
<1> DEFINE t == Append(s, x)
           n == Len(s) + 1
           K == DOMAIN s
           I == DOMAIN t
<1>1. Len(s) \in Nat /\ K = 1 .. Len(s) /\ I = 1 .. n /\ t \in Seq(X) OBVIOUS
<1>2. (\A i \in K : t[i] = s[i]) /\ t[n] = x OBVIOUS
<1>3. K \subseteq I /\ I \ {n} = K /\ n \in I /\ \A k \in I : k <= n /\ k \in Nat
  BY <1>1
<1>4. IsFiniteSet(I) /\ I \subseteq Nat
  <2> HIDE DEF t
  <2> QED BY <1>1, Positions
<1>5. /\ Folded(step, base, s) = Folding(step, base, s, K)[K]
      /\ Folded(step, base, t) = Folding(step, base, t, I)[I]
  BY DEF Folded
<1> HIDE DEF t, n, K, I
<1>6. Folding(step, base, t, I)[K] = Folding(step, base, s, K)[K]
  <2>1. Agree(t, s, K, I) BY <1>2, <1>3, <1>4 DEF Agree
  <2> QED BY <2>1, FoldAgree
<1>7. LastOf(I) = n
  <2> DEFINE m == LastOf(I)
  <2>1. m \in I /\ \A k \in I : k <= m BY <1>3, <1>4, LastIn
  <2> HIDE DEF m
  <2>2. n <= m /\ m <= n /\ m \in Nat /\ n \in Nat BY <1>3, <2>1
  <2>3. m = n BY <2>2
  <2> QED BY <2>3 DEF m
<1> DEFINE g == Folding(step, base, t, I)
<1>8. IsFold(step, base, t, I, g) BY <1>4, FoldingIs
<1> HIDE DEF g
<1>9. g[I] = step[<<g[I \ {n}], t[n]>>] BY <1>3, <1>7, <1>8 DEF IsFold
<1>10. g[I] = step[<<g[K], x>>] BY <1>2, <1>3, <1>9
<1> QED BY <1>5, <1>6, <1>10 DEF t, g

LEMMA FoldedConcat ==
  ASSUME NEW X, NEW s \in Seq(X), NEW t \in Seq(X), NEW step, NEW base
  PROVE  Folded(step, base, s \o t) = Folded(step, Folded(step, base, s), t)
<1> DEFINE b == Folded(step, base, s)
           P(u) == Folded(step, base, s \o u) = Folded(step, b, u)
           N == {n \in Nat : \A u \in Seq(X) : Len(u) = n => P(u)}
<1>1. 0 \in N
  <2> SUFFICES ASSUME NEW u \in Seq(X), Len(u) = 0 PROVE P(u) OBVIOUS
  <2>1. u = <<>> BY EmptySeq
  <2>2. s \o <<>> = s BY ConcatEmptySeq
  <2>3. Folded(step, b, <<>>) = b BY FoldedEmpty
  <2> QED BY <2>1, <2>2, <2>3
<1> HIDE DEF b
<1>2. ASSUME NEW n \in Nat, n \in N PROVE n + 1 \in N
  <2> SUFFICES ASSUME NEW u \in Seq(X), Len(u) = n + 1 PROVE P(u) OBVIOUS
  <2>1. PICK v \in Seq(X), x \in X : u = Append(v, x)
    <3>1. u # <<>> BY EmptySeq
    <3> QED BY <3>1, SequenceEmptyOrAppend
  <2>2. Len(v) = n
    <3>1. Len(u) = Len(v) + 1 /\ Len(v) \in Nat BY <2>1
    <3> QED BY <3>1
  <2>3. P(v) BY <1>2, <2>2
  <2> DEFINE w == s \o v
  <2>4. s \o u = Append(w, x) BY <2>1, ConcatAppend
  <2>5. w \in Seq(X) BY ConcatProperties
  <2> HIDE DEF w
  <2>6. Folded(step, base, Append(w, x)) = step[<<Folded(step, base, w), x>>] BY <2>5, FoldedAppend
  <2>7. Folded(step, b, Append(v, x)) = step[<<Folded(step, b, v), x>>] BY FoldedAppend
  <2>8. Folded(step, base, w) = Folded(step, b, v) BY <2>3 DEF w
  <2> QED BY <2>1, <2>4, <2>6, <2>7, <2>8
<1>3. Nat \subseteq N
  <2> HIDE DEF N
  <2> QED BY <1>1, <1>2, SetInduction
<1>4. Len(t) \in N BY <1>3
<1> QED BY <1>4 DEF b
==============================================================================
