---------------------------- MODULE SumTheorems ----------------------------
(***************************************************************************)
(* Sums over finite sets.  The models write them with MapThenSumSet, which *)
(* takes an operator; SumOf is the same sum of a function's values, and    *)
(* everything is proved of it.  Induction over a finite set is replaced by *)
(* the choice of a smallest counterexample (SmallestSubset).               *)
(***************************************************************************)
EXTENDS FiniteSetsExt, FiniteSetTheorems, TLAPS

(* One step of the fold: what a partial sum g gives for the set s.         *)
Pick(s) == CHOOSE x \in s : TRUE
SumStep(f, g, s) == IF s = {} THEN 0 ELSE f[Pick(s)] + g[s \ {Pick(s)}]

(* The sums of f over all subsets of S.                                    *)
IsSums(f, S, g) == g = [s \in SUBSET S |-> SumStep(f, g, s)]
Sums(f, S) == CHOOSE g : IsSums(f, S, g)
SumOf(f, S) == Sums(f, S)[S]

(* MapThenSumSet adds up the values of a function this way.                *)
LEMMA SumIsFold ==
    ASSUME NEW f, NEW S
    PROVE  MapThenSumSet(LAMBDA x : f[x], S) = SumOf(f, S)
  BY DEF MapThenSumSet, MapThenFoldSet, SumOf, Sums, IsSums, SumStep, Pick

(* Among subsets of a finite set, some have no proper subset in the family.*)
LEMMA SmallestSubset ==
    ASSUME NEW S, IsFiniteSet(S), NEW F \in SUBSET SUBSET S, F # {}
    PROVE  \E s \in F : \A t \in F : t \subseteq s => t = s
  <1> DEFINE R == StrictSubsetOrdering(S)
  <1>1. IsWellFoundedOn(R, FiniteSubsetsOf(S))
    BY FS_StrictSubsetOrderingWellFounded
  <1>2. FiniteSubsetsOf(S) = SUBSET S
    BY FS_FiniteSubsetsOfFinite
  <1>3. \E s \in F : \A t \in F : <<t, s>> \notin R
    <2> HIDE DEF R
    <2> QED
      BY <1>1, <1>2, WFMin
  <1> QED
    BY <1>3 DEF StrictSubsetOrdering

(* The chosen element is an element.                                       *)
LEMMA PickIn ==
    ASSUME NEW s, s # {}
    PROVE  Pick(s) \in s
  BY DEF Pick

(* A table for a smaller set agrees with the one for a larger set.         *)
LEMMA SumsAgree ==
    ASSUME NEW f, NEW S, IsFiniteSet(S), NEW U \in SUBSET S,
           NEW g, NEW h, IsSums(f, S, g), IsSums(f, U, h)
    PROVE  g[U] = h[U]
  <1> DEFINE F == {s \in SUBSET U : g[s] # h[s]}
  <1> SUFFICES ASSUME F # {} PROVE FALSE
    OBVIOUS
  <1>1. F \in SUBSET SUBSET S
    OBVIOUS
  <1>2. PICK s \in F : \A t \in F : t \subseteq s => t = s
    <2> HIDE DEF F
    <2> QED
      BY <1>1, SmallestSubset
  <1>3. g[s] = SumStep(f, g, s) /\ h[s] = SumStep(f, h, s)
    <2>1. s \in SUBSET S /\ s \in SUBSET U
      OBVIOUS
    <2> QED
      BY <2>1, Zenon DEF IsSums
  <1>4. s # {}
    BY <1>3 DEF SumStep
  <1>5. s \ {Pick(s)} \notin F
    BY <1>2, <1>4, PickIn
  <1>6. g[s \ {Pick(s)}] = h[s \ {Pick(s)}]
    BY <1>5
  <1> QED
    BY <1>3, <1>6 DEF SumStep

(* The recursive definition of the fold is sound: there is a table.        *)
LEMMA SumsExist ==
    ASSUME NEW f, NEW S, IsFiniteSet(S)
    PROVE  IsSums(f, S, Sums(f, S))
  <1> DEFINE Good(T) == \E g : IsSums(f, T, g)
             F == {T \in SUBSET S : ~Good(T)}
  <1>1. F = {}
    <2> SUFFICES ASSUME F # {} PROVE FALSE
      OBVIOUS
    <2>1. PICK T \in F : \A t \in F : t \subseteq T => t = T
      <3>1. F \in SUBSET SUBSET S
        OBVIOUS
      <3> HIDE DEF F
      <3> QED
        BY <3>1, SmallestSubset
    <2>2. \A t \in SUBSET T : t # T => IsSums(f, t, Sums(f, t))
      <3> TAKE t \in SUBSET T
      <3> HAVE t # T
      <3>1. Good(t)
        BY <2>1
      <3> QED
        BY <3>1, Zenon DEF Sums
    <2> DEFINE below(t) == Sums(f, t)[t]
               g == [s \in SUBSET T |-> IF s = T THEN SumStep(f, [t \in SUBSET T |-> below(t)], s)
                                        ELSE below(s)]
    <2>3. ASSUME NEW s \in SUBSET T
          PROVE  g[s] = SumStep(f, g, s)
      <3> DEFINE r == s \ {Pick(s)}
      <3>1. s # {} => r # T /\ r \in SUBSET T /\ r # s /\ r \in SUBSET s
        BY PickIn
      <3>2. s # {} => g[r] = below(r)
        BY <3>1
      <3>3. CASE s = T
        <4>1. g[s] = SumStep(f, [t \in SUBSET T |-> below(t)], s)
          BY <3>3
        <4> QED
          BY <3>1, <3>2, <4>1 DEF SumStep
      <3>4. CASE s # T
        <4>1. g[s] = below(s)
          BY <3>4
        <4>2. below(s) = SumStep(f, Sums(f, s), s)
          <5>1. s \in SUBSET s
            OBVIOUS
          <5> QED BY <2>2, <3>4, <5>1, Zenon DEF IsSums
        <4>3. s # {} => Sums(f, s)[r] = below(r)
          <5> SUFFICES ASSUME s # {} PROVE Sums(f, s)[r] = Sums(f, r)[r]
            OBVIOUS
          <5>1. IsSums(f, s, Sums(f, s)) /\ IsSums(f, r, Sums(f, r))
            BY <2>2, <3>1, <3>4
          <5>2. IsFiniteSet(s) /\ r \in SUBSET s
            BY <3>1, FS_Subset
          <5> HIDE DEF r
          <5> QED
            BY <5>1, <5>2, SumsAgree
        <4> QED
          BY <3>2, <4>1, <4>2, <4>3 DEF SumStep
      <3> QED
        BY <3>3, <3>4
    <2>4. IsSums(f, T, g)
      <3>1. g = [s \in SUBSET T |-> g[s]]
        OBVIOUS
      <3>2. \A s \in SUBSET T : g[s] = SumStep(f, g, s)
        BY <2>3
      <3> HIDE DEF g
      <3> QED
        BY <3>1, <3>2 DEF IsSums
    <2> QED
      BY <2>4
  <1>2. Good(S)
    BY <1>1
  <1> QED
    BY <1>2, Zenon DEF Sums

(* The empty sum, and a sum with its chosen element taken out.             *)
LEMMA SumUnfold ==
    ASSUME NEW f, NEW S, IsFiniteSet(S)
    PROVE  SumOf(f, S) = IF S = {} THEN 0 ELSE f[Pick(S)] + SumOf(f, S \ {Pick(S)})
  <1> DEFINE r == S \ {Pick(S)}
  <1>1. SumOf(f, S) = SumStep(f, Sums(f, S), S)
    <2>1. S \in SUBSET S /\ IsSums(f, S, Sums(f, S))
      BY SumsExist
    <2> QED
      BY <2>1, Zenon DEF SumOf, IsSums
  <1>2. Sums(f, S)[r] = SumOf(f, r)
    <2>1. IsFiniteSet(r) /\ r \in SUBSET S
      BY FS_RemoveElement
    <2>2. IsSums(f, S, Sums(f, S)) /\ IsSums(f, r, Sums(f, r))
      BY <2>1, SumsExist
    <2>3. Sums(f, S)[r] = Sums(f, r)[r]
      <3> HIDE DEF r
      <3> QED
        BY <2>1, <2>2, SumsAgree
    <2> QED
      BY <2>3 DEF SumOf
  <1> QED
    BY <1>1, <1>2 DEF SumStep

(* A sum of integers is an integer.                                        *)
LEMMA SumInt ==
    ASSUME NEW f, NEW S, IsFiniteSet(S), \A x \in S : f[x] \in Int
    PROVE  SumOf(f, S) \in Int
  <1> DEFINE F == {T \in SUBSET S : SumOf(f, T) \notin Int}
  <1> SUFFICES ASSUME F # {} PROVE FALSE
    OBVIOUS
  <1>1. PICK T \in F : \A t \in F : t \subseteq T => t = T
    <2>1. F \in SUBSET SUBSET S
      OBVIOUS
    <2> HIDE DEF F
    <2> QED
      BY <2>1, SmallestSubset
  <1>2. SumOf(f, T) = IF T = {} THEN 0 ELSE f[Pick(T)] + SumOf(f, T \ {Pick(T)})
    BY FS_Subset, SumUnfold
  <1>3. T # {} => T \ {Pick(T)} \notin F /\ Pick(T) \in T
    BY <1>1, PickIn
  <1> QED
    BY <1>2, <1>3

(* Any element may be taken out first.                                     *)
LEMMA SumRemove ==
    ASSUME NEW f, NEW S, IsFiniteSet(S), \A x \in S : f[x] \in Int
    PROVE  \A x \in S : SumOf(f, S) = f[x] + SumOf(f, S \ {x})
  <1> DEFINE Good(T) == \A x \in T : SumOf(f, T) = f[x] + SumOf(f, T \ {x})
             F == {T \in SUBSET S : ~Good(T)}
  <1> SUFFICES ASSUME F # {} PROVE FALSE
    OBVIOUS
  <1>1. PICK T \in F : \A t \in F : t \subseteq T => t = T
    <2>1. F \in SUBSET SUBSET S
      OBVIOUS
    <2> HIDE DEF F
    <2> QED
      BY <2>1, SmallestSubset
  <1>2. PICK x \in T : SumOf(f, T) # f[x] + SumOf(f, T \ {x})
    OBVIOUS
  <1> DEFINE p == Pick(T)
             r == (T \ {p}) \ {x}
  <1>3. SumOf(f, T) = f[p] + SumOf(f, T \ {p}) /\ p \in T /\ p # x
    BY <1>2, FS_Subset, SumUnfold, PickIn
  <1>4. SumOf(f, T \ {p}) = f[x] + SumOf(f, r)
    <2>1. T \ {p} \notin F /\ x \in T \ {p}
      BY <1>1, <1>3
    <2> QED
      BY <2>1
  <1>5. SumOf(f, T \ {x}) = f[p] + SumOf(f, r)
    <2>1. T \ {x} \notin F /\ p \in T \ {x} /\ (T \ {x}) \ {p} = r
      BY <1>1, <1>3
    <2> QED
      BY <2>1
  <1>6. f[p] \in Int /\ f[x] \in Int /\ SumOf(f, r) \in Int
    <2>1. r \in SUBSET S
      OBVIOUS
    <2>2. IsFiniteSet(r) /\ \A y \in r : f[y] \in Int
      BY <2>1, FS_Subset
    <2> QED
      BY <1>3, <2>2, SumInt
  <1> HIDE DEF p, r
  <1> QED
    BY <1>2, <1>3, <1>4, <1>5, <1>6

(* A sum depends on nothing but the values it adds.                        *)
LEMMA SumEqual ==
    ASSUME NEW f, NEW g, NEW S, IsFiniteSet(S), \A x \in S : f[x] = g[x]
    PROVE  SumOf(f, S) = SumOf(g, S)
  <1> DEFINE F == {T \in SUBSET S : SumOf(f, T) # SumOf(g, T)}
  <1> SUFFICES ASSUME F # {} PROVE FALSE
    OBVIOUS
  <1>1. PICK T \in F : \A t \in F : t \subseteq T => t = T
    <2>1. F \in SUBSET SUBSET S
      OBVIOUS
    <2> HIDE DEF F
    <2> QED
      BY <2>1, SmallestSubset
  <1>2. /\ SumOf(f, T) = IF T = {} THEN 0 ELSE f[Pick(T)] + SumOf(f, T \ {Pick(T)})
        /\ SumOf(g, T) = IF T = {} THEN 0 ELSE g[Pick(T)] + SumOf(g, T \ {Pick(T)})
    BY FS_Subset, SumUnfold
  <1>3. T # {} => T \ {Pick(T)} \notin F /\ Pick(T) \in T
    BY <1>1, PickIn
  <1> QED
    BY <1>2, <1>3

(* The sum over no element.                                                *)
LEMMA SumEmpty ==
    ASSUME NEW f
    PROVE  SumOf(f, {}) = 0
  BY FS_EmptySet, SumUnfold

(* The sum over one element more.                                          *)
LEMMA SumAdd ==
    ASSUME NEW f, NEW S, IsFiniteSet(S), NEW x, x \notin S,
           \A y \in S \cup {x} : f[y] \in Int
    PROVE  SumOf(f, S \cup {x}) = f[x] + SumOf(f, S)
  <1>1. IsFiniteSet(S \cup {x}) /\ (S \cup {x}) \ {x} = S
    BY FS_AddElement
  <1> QED
    BY <1>1, SumRemove

(* The sum after one value has changed.                                    *)
LEMMA SumUpdate ==
    ASSUME NEW f, NEW g, NEW S, IsFiniteSet(S), NEW x \in S,
           \A y \in S : f[y] \in Int, g[x] \in Int,
           \A y \in S \ {x} : g[y] = f[y]
    PROVE  SumOf(g, S) = SumOf(f, S) - f[x] + g[x]
  <1>1. IsFiniteSet(S \ {x})
    BY FS_RemoveElement
  <1>2. SumOf(f, S) = f[x] + SumOf(f, S \ {x})
    BY SumRemove
  <1>3. SumOf(g, S) = g[x] + SumOf(g, S \ {x})
    BY SumRemove
  <1>4. SumOf(g, S \ {x}) = SumOf(f, S \ {x})
    BY <1>1, SumEqual
  <1>5. SumOf(f, S \ {x}) \in Int
    BY <1>1, SumInt
  <1> QED
    BY <1>2, <1>3, <1>4, <1>5

(* A sum of naturals is a natural.                                         *)
LEMMA SumNat ==
    ASSUME NEW f, NEW S, IsFiniteSet(S), \A x \in S : f[x] \in Nat
    PROVE  SumOf(f, S) \in Nat
  <1> DEFINE F == {T \in SUBSET S : SumOf(f, T) \notin Nat}
  <1> SUFFICES ASSUME F # {} PROVE FALSE
    OBVIOUS
  <1>1. PICK T \in F : \A t \in F : t \subseteq T => t = T
    <2>1. F \in SUBSET SUBSET S
      OBVIOUS
    <2> HIDE DEF F
    <2> QED
      BY <2>1, SmallestSubset
  <1>2. SumOf(f, T) = IF T = {} THEN 0 ELSE f[Pick(T)] + SumOf(f, T \ {Pick(T)})
    BY FS_Subset, SumUnfold
  <1>3. T # {} => T \ {Pick(T)} \notin F /\ Pick(T) \in T
    BY <1>1, PickIn
  <1> QED
    BY <1>2, <1>3

(* No value exceeds the sum it is part of.                                 *)
LEMMA SumMember ==
    ASSUME NEW f, NEW S, IsFiniteSet(S), \A x \in S : f[x] \in Nat, NEW x \in S
    PROVE  f[x] <= SumOf(f, S)
  <1>1. IsFiniteSet(S \ {x})
    BY FS_RemoveElement
  <1>2. SumOf(f, S \ {x}) \in Nat
    BY <1>1, SumNat
  <1>3. SumOf(f, S) = f[x] + SumOf(f, S \ {x})
    BY SumRemove
  <1> QED
    BY <1>2, <1>3

(* A sum of zeros.                                                         *)
LEMMA SumZero ==
    ASSUME NEW f, NEW S, IsFiniteSet(S), \A x \in S : f[x] = 0
    PROVE  SumOf(f, S) = 0
  <1> DEFINE F == {T \in SUBSET S : SumOf(f, T) # 0}
  <1> SUFFICES ASSUME F # {} PROVE FALSE
    OBVIOUS
  <1>1. PICK T \in F : \A t \in F : t \subseteq T => t = T
    <2>1. F \in SUBSET SUBSET S
      OBVIOUS
    <2> HIDE DEF F
    <2> QED
      BY <2>1, SmallestSubset
  <1>2. SumOf(f, T) = IF T = {} THEN 0 ELSE f[Pick(T)] + SumOf(f, T \ {Pick(T)})
    BY FS_Subset, SumUnfold
  <1>3. T # {} => T \ {Pick(T)} \notin F /\ Pick(T) \in T
    BY <1>1, PickIn
  <1> QED
    BY <1>2, <1>3

(* Elements whose value is zero may be left out.                           *)
LEMMA SumSupport ==
    ASSUME NEW f, NEW T, IsFiniteSet(T), NEW S \in SUBSET T,
           \A x \in T : f[x] \in Int, \A x \in T \ S : f[x] = 0
    PROVE  SumOf(f, T) = SumOf(f, S)
  <1> DEFINE F == {U \in SUBSET T : S \subseteq U /\ SumOf(f, U) # SumOf(f, S)}
  <1> SUFFICES ASSUME F # {} PROVE FALSE
    OBVIOUS
  <1>1. PICK U \in F : \A t \in F : t \subseteq U => t = U
    <2>1. F \in SUBSET SUBSET T
      OBVIOUS
    <2> HIDE DEF F
    <2> QED
      BY <2>1, SmallestSubset
  <1>2. PICK x \in U : x \notin S
    OBVIOUS
  <1>3. SumOf(f, U) = f[x] + SumOf(f, U \ {x})
    BY FS_Subset, SumRemove
  <1>4. SumOf(f, U \ {x}) = SumOf(f, S)
    BY <1>1, <1>2
  <1>5. SumOf(f, U \ {x}) \in Int
    <2>1. IsFiniteSet(U \ {x}) /\ \A y \in U \ {x} : f[y] \in Int
      BY FS_Subset, FS_RemoveElement
    <2> QED
      BY <2>1, SumInt
  <1> QED
    BY <1>2, <1>3, <1>4, <1>5

(* MapThenSumSet of the sums of two functions' values.                     *)
LEMMA PairFold ==
    ASSUME NEW S, NEW l, NEW m
    PROVE  MapThenSumSet(LAMBDA x : l[x] + m[x], S) = SumOf([x \in S |-> l[x] + m[x]], S)
  <1> DEFINE f == [x \in S |-> l[x] + m[x]]
             Is(g) == g = [s \in SUBSET S |->
                             IF s = {} THEN 0
                             ELSE (l[CHOOSE x \in s : TRUE] + m[CHOOSE x \in s : TRUE])
                                  + g[s \ {CHOOSE x \in s : TRUE}]]
  <1>1. \A s \in SUBSET S : s # {} => f[Pick(s)] = l[Pick(s)] + m[Pick(s)]
    BY PickIn
  <1>2. ASSUME NEW g PROVE Is(g) <=> IsSums(f, S, g)
    <2>1. \A s \in SUBSET S :
             SumStep(f, g, s) = IF s = {} THEN 0
                                ELSE (l[CHOOSE x \in s : TRUE] + m[CHOOSE x \in s : TRUE])
                                     + g[s \ {CHOOSE x \in s : TRUE}]
      <3> HIDE DEF f
      <3> QED
        BY <1>1 DEF SumStep, Pick
    <2> HIDE DEF f
    <2> QED
      BY <2>1 DEF IsSums
  <1>3. MapThenSumSet(LAMBDA x : l[x] + m[x], S) = (CHOOSE g : Is(g))[S]
    BY DEF MapThenSumSet, MapThenFoldSet
  <1>4. (CHOOSE g : Is(g)) = (CHOOSE g : IsSums(f, S, g))
    <2> HIDE DEF Is, f
    <2> QED
      BY <1>2, Zenon
  <1> QED
    BY <1>3, <1>4 DEF SumOf, Sums

(* The sum after one value has grown or shrunk by n.                       *)
LEMMA SumShift ==
    ASSUME NEW f, NEW g, NEW S, IsFiniteSet(S), NEW x \in S, NEW n \in Int,
           \A y \in S : f[y] \in Int, g[x] = f[x] + n,
           \A y \in S \ {x} : g[y] = f[y]
    PROVE  SumOf(g, S) = SumOf(f, S) + n
  <1>1. SumOf(g, S) = SumOf(f, S) - f[x] + g[x]
    BY SumUpdate
  <1>2. SumOf(f, S) \in Int
    BY SumInt
  <1> QED
    BY <1>1, <1>2

(* A part of a set of natural numbers has no larger sum.                   *)
LEMMA SumSubset ==
    ASSUME NEW f, NEW T, IsFiniteSet(T), NEW S \in SUBSET T, \A x \in T : f[x] \in Nat
    PROVE  SumOf(f, S) <= SumOf(f, T)
  <1> DEFINE F == {U \in SUBSET T : S \subseteq U /\ ~(SumOf(f, S) <= SumOf(f, U))}
  <1>0. IsFiniteSet(S) /\ SumOf(f, S) \in Nat
    BY FS_Subset, SumNat
  <1> SUFFICES ASSUME F # {} PROVE FALSE
    OBVIOUS
  <1>1. PICK U \in F : \A t \in F : t \subseteq U => t = U
    <2>1. F \in SUBSET SUBSET T
      OBVIOUS
    <2> HIDE DEF F
    <2> QED
      BY <2>1, SmallestSubset
  <1>2. U \subseteq T /\ S \subseteq U /\ IsFiniteSet(U) /\ ~(SumOf(f, S) <= SumOf(f, U))
    BY <1>1, FS_Subset
  <1>3. U # S
    BY <1>0, <1>2
  <1>4. PICK x \in U : x \notin S
    BY <1>2, <1>3
  <1>5. SumOf(f, S) <= SumOf(f, U \ {x})
    <2>1. U \ {x} \notin F
      BY <1>1, <1>4
    <2> QED
      BY <1>2, <1>4, <2>1
  <1>6. SumOf(f, U) = f[x] + SumOf(f, U \ {x})
    BY <1>2, SumRemove
  <1>7. SumOf(f, U \ {x}) \in Nat /\ f[x] \in Nat
    <2>1. IsFiniteSet(U \ {x})
      BY <1>2, FS_Subset
    <2> QED
      BY <1>2, <2>1, SumNat
  <1> QED
    BY <1>0, <1>2, <1>5, <1>6, <1>7
=============================================================================
